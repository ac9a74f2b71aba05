------------------------------ MODULE TradeBot ------------------------------
(***************************************************************************)
(* The TradeBot controller (controllers/tradebot): one TradeBot object, the *)
(* work queue entry that drives Reconcile for it, the objects Reconcile     *)
(* applies, and the actors it runs against: the user, the StatefulSet       *)
(* controller, the garbage collector, the freqtrade process in the pod and  *)
(* the BotPoller (modelled in detail by module BotPoller, here one read and *)
(* one write).  Reconcile for one key never runs twice at once, so a single *)
(* TradeBot is enough; each API call that another actor can fall between is *)
(* a step of its own.                                                       *)
(*                                                                          *)
(* Definitions marked as mutants are used by no action: each is a plausible *)
(* bug in the definition after it, for which a property must fail.          *)
(***************************************************************************)
EXTENDS Naturals

CONSTANTS
    Configs,    \* contents of TradeBotConfig + Strategy
    NoConfig,   \* "" : no hash recorded, no object rendered
    Introspection, \* spec.introspection.enabled: the BotPoller polls this bot
    MaxFaults,  \* bound on failed API calls, lost polls, pod crashes and
                \* operator restarts
    MaxEdits    \* bound on what users do: edits, deletions, restarts

ASSUME ConfigsAssumption == NoConfig \notin Configs /\ Configs # {}
ASSUME BoundsAssumption == /\ Introspection \in BOOLEAN
                            /\ MaxFaults \in Nat /\ MaxEdits \in Nat

VARIABLES
    spec,       \* the TradeBot object: metadata and spec
    cfg,        \* content BuildConfig would render now
    cfgState,   \* what resolving spec.config/spec.strategy gives now
    status,     \* the TradeBot's status subresource
    files,      \* contents of the config Secret and the strategy ConfigMap
    sts,        \* the StatefulSet's spec
    specSeen,   \* the TradeBot in the v1alpha1 informer, which wakes Reconcile
    beta,       \* the TradeBot in the v1beta1 informer, which writes start from
    stsSeen,    \* the StatefulSet in its informer
    pod,        \* the StatefulSet's one pod and the freqtrade in it
    pvc,        \* the <name>-user-data claim
    net,        \* which of Service and NetworkPolicy exist
    queued,     \* the key is in the work queue (or dirty while processing)
    timer,      \* a RequeueAfter or an error backoff is pending for the key
    late,       \* the finalizer grace period has passed since deletion
    rec,        \* the Reconcile call in progress: program counter and locals
    lost,       \* history: the last pass's report was skipped, on a late copy
    poll,       \* the poller's answer, read and not yet written to status
    faults,     \* failures so far
    edits       \* user actions so far

vars == <<spec, cfg, cfgState, status, files, sts, specSeen, beta, stsSeen, pod,
          pvc, net, queued, timer, late, rec, lost, poll, faults, edits>>

ConfigOrNone == Configs \cup {NoConfig}
RunStates == {"Running", "Stopped"}
Kinds == {"service", "networkpolicy"}

\* Reasons of the conditions; a condition is True exactly for the reason that
\* names success, and "unset" while no reconcile has written it.
ConfigReasons == {"unset", "AsExpected", "ReferenceNotFound", "ConfigInvalid",
                  "SecretMissing", "ReconcileError", "JobModeRemoved"}
WorkloadReasons == {"unset", "WorkloadHealthy", "WorkloadProgressing",
                    "ReconcileError"}
StateReasons == {"unset", "AsExpected", "BotUnreachable", "StateChangePending",
                 "StateChangeFailed"}

PCs == {"idle", "addFinalizer", "finalize", "preserve", "removeFinalizer",
        "resolve", "secret", "configmap", "pvc", "statefulset", "service",
        "networkpolicy", "observe", "patch", "state", "call", "confirm"}

IdleRec == [pc |-> "idle", auto |-> FALSE, preserve |-> FALSE,
            hash |-> NoConfig, drift |-> FALSE, ready |-> FALSE,
            reach |-> FALSE, obs |-> "unknown", want |-> "Running",
            changed |-> FALSE, unseen |-> FALSE]

NoSts == [exists |-> FALSE, replicas |-> 0, hash |-> NoConfig]
NoPod == [phase |-> "none", stale |-> FALSE, trading |-> "Running"]
NoPoll == [busy |-> FALSE, ok |-> FALSE, trading |-> "Running"]

CfgStates == {"ok", "missing", "invalid", "secretMissing"}
Specs == [exists: BOOLEAN, deleting: BOOLEAN, finalizer: BOOLEAN,
          state: RunStates, auto: BOOLEAN, preserve: BOOLEAN, job: BOOLEAN,
          generation: Nat]
Statuses == [configResolved: ConfigReasons, workloadReady: WorkloadReasons,
             ready: BOOLEAN, drift: BOOLEAN, applied: ConfigOrNone,
             reachable: {"unset", "True", "False"},
             botState: RunStates \cup {"unknown"}, stateReconciled: StateReasons,
             observedGeneration: Nat]
Files == [config: ConfigOrNone, script: ConfigOrNone]
StatefulSets == [exists: BOOLEAN, replicas: {0, 1}, hash: ConfigOrNone]
Pods == [phase: {"none", "starting", "ready"}, stale: BOOLEAN, trading: RunStates]
Recs == [pc: PCs, auto: BOOLEAN, preserve: BOOLEAN, hash: ConfigOrNone,
         drift: BOOLEAN, ready: BOOLEAN, reach: BOOLEAN,
         obs: RunStates \cup {"unknown"}, want: RunStates, changed: BOOLEAN,
         unseen: BOOLEAN]
Polls == [busy: BOOLEAN, ok: BOOLEAN, trading: RunStates]

TypeOK ==
    /\ spec \in Specs
    /\ cfg \in Configs
    /\ cfgState \in CfgStates
    /\ status \in Statuses
    /\ files \in Files
    /\ sts \in StatefulSets
    /\ specSeen \in Specs
    /\ beta \in [spec: Specs, status: Statuses]
    /\ stsSeen \in StatefulSets
    /\ pod \in Pods
    /\ pvc \in {"none", "owned", "preserved"}
    /\ net \in SUBSET Kinds
    /\ queued \in BOOLEAN
    /\ timer \in BOOLEAN
    /\ late \in BOOLEAN
    /\ rec \in Recs
    /\ lost \in BOOLEAN
    /\ poll \in Polls
    /\ faults \in 0..MaxFaults
    /\ edits \in 0..MaxEdits

\* deriveTradeBotPhase: Phase is recomputed from the conditions on every write
\* of ConfigResolved or WorkloadReady, so it is an operator and not a variable.
deriveTradeBotPhase(s) ==
    CASE s.configResolved = "ReferenceNotFound"                 -> "Error"
      [] s.configResolved \notin {"unset", "AsExpected",
                                  "ReferenceNotFound"}          -> "ConfigError"
      [] s.configResolved \in {"unset", "AsExpected"} ->
           CASE s.workloadReady = "unset"           -> ""
             [] s.workloadReady = "WorkloadHealthy" -> "Running"
             [] s.workloadReady = "ReconcileError"  -> "ResourceError"
             [] OTHER                               -> "Pending"

Init ==
    /\ \E s \in RunStates, a, j, f \in BOOLEAN :
         /\ f => j   \* only an object from before the migration has one yet
         /\ spec = [exists |-> TRUE, deleting |-> FALSE, finalizer |-> f,
                    state |-> s, auto |-> a, preserve |-> FALSE, job |-> j,
                    generation |-> 1]
    /\ cfg \in Configs
    /\ cfgState \in CfgStates
    /\ status = [configResolved |-> "unset", workloadReady |-> "unset",
                 ready |-> FALSE, drift |-> FALSE, applied |-> NoConfig,
                 reachable |-> "unset", botState |-> "unknown",
                 stateReconciled |-> "unset", observedGeneration |-> 0]
    /\ specSeen = spec /\ lost = FALSE   \* the v1beta1 event may be yet to come
    /\ \E known \in BOOLEAN :
         beta = [spec |-> [spec EXCEPT !.exists = known], status |-> status]
    /\ files = [config |-> NoConfig, script |-> NoConfig]
    /\ sts = NoSts /\ stsSeen = NoSts /\ pod = NoPod
    /\ pvc = "none" /\ net = {}
    /\ queued = TRUE /\ timer = FALSE /\ late = FALSE
    /\ rec = IdleRec /\ poll = NoPoll /\ faults = 0 /\ edits = 0

objects == <<files, sts, pod, pvc, net>>
outside == <<cfg, cfgState, late, poll, edits>>
copies == <<specSeen, beta, stsSeen>>

-----------------------------------------------------------------------------
(* How a Reconcile step ends.                                              *)

\* The call returns; requeue says whether its Result or error re-adds the key
\* later.  A delayed add that is already pending stays pending.
Return(requeue) ==
    /\ rec' = IdleRec
    /\ timer' = (timer \/ requeue)

Goto(pc) ==
    /\ rec' = [rec EXCEPT !.pc = pc]
    /\ UNCHANGED timer

\* One call to the API server fails.
Fault ==
    /\ faults < MaxFaults
    /\ faults' = faults + 1

\* A stored Job-mode object cannot be read or written as v1beta1: ConvertTo
\* rejects it.
Convertible == spec.exists /\ ~spec.job

\* The v1beta1 informer has a copy to give, and a write built on that copy does
\* not conflict.
Known == beta.spec.exists /\ ~spec.job
Current == beta = [spec |-> spec, status |-> status]

\* PatchStatus changes the informer's copy, stamps the generation and stores the
\* result.  On a late copy the update conflicts, or finds the object gone, until
\* the retries are used up; but a result that equals the late copy is not written
\* at all and counts as success.
Stamped(new) == [new EXCEPT !.observedGeneration = beta.spec.generation]
Accepts(new) == Known /\ (Current \/ Stamped(new) = beta.status)

\* Mutant: what was computed from a late copy overwrites what others stored.
patchTradeBotStatusBlind(new) ==
    status' = IF Known /\ spec.exists THEN Stamped(new) ELSE status

patchTradeBotStatus(new) ==
    status' = IF Known /\ Current THEN Stamped(new) ELSE status

\* Mutant: Ready is left as it was.
failReconcileKeepsReady(cond, reason) ==
    /\ Return(TRUE)
    /\ patchTradeBotStatus([beta.status EXCEPT ![cond] = reason])

\* failReconcile: record the failed condition and Ready=False, then return
\* the error (or RequeueAfter 30s); when the status patch fails too, its error
\* is what is returned.
failReconcile(cond, reason) ==
    /\ Return(TRUE)
    /\ patchTradeBotStatus([beta.status EXCEPT ![cond] = reason, !.ready = FALSE])

\* Mutant: the failure is reported under a reason of another condition.
FailStepWrongReason(cond) ==
    Fault /\ failReconcile(cond, "ReferenceNotFound")

\* A step whose API call fails: either failReconcile records it, or recording
\* it fails as well.
FailStep(cond) ==
    /\ Fault
    /\ \/ failReconcile(cond, "ReconcileError")
       \/ Return(TRUE) /\ UNCHANGED status

\* A step whose error is only returned, for the queue to retry.
RetryStep ==
    /\ Fault
    /\ Return(TRUE)
    /\ UNCHANGED status

-----------------------------------------------------------------------------
(* Reconcile.                                                              *)

\* Mutant: Reconcile does not look for it.
jobModeIgnored == FALSE

\* A stored object that still carries a one-shot command.
jobMode == specSeen.job

\* The controller takes the key off the queue and Reconcile reads the object in
\* the v1alpha1 informer.
Fetch ==
    /\ queued /\ rec.pc = "idle"
    /\ queued' = FALSE
    /\ IF ~specSeen.exists \/ (specSeen.deleting /\ ~specSeen.finalizer)
       THEN Return(FALSE) /\ UNCHANGED status
       ELSE IF specSeen.finalizer /\ ~specSeen.deleting /\ jobMode
       THEN failReconcile("configResolved", "JobModeRemoved")
       ELSE /\ rec' = [IdleRec EXCEPT
                         !.pc = CASE specSeen.deleting -> "finalize"
                                  [] ~specSeen.deleting /\ ~specSeen.finalizer ->
                                       "addFinalizer"
                                  [] OTHER -> "resolve",
                         !.auto = specSeen.auto, !.preserve = specSeen.preserve]
            /\ UNCHANGED <<timer, status>>
    /\ lost' = FALSE
    /\ UNCHANGED <<spec, copies, faults, objects, outside>>

\* The v1alpha1 webhook, which every update of a TradeBot that is not being
\* deleted passes: references must exist, and a stored Stopped bot is refused.
Admitted == spec.deleting \/ (spec.state # "Stopped" /\ cfgState # "missing")

\* AddFinalizer's Update goes through.
FinalizerStored == Known /\ Current /\ Admitted

\* Mutant: Reconcile waits for a watch event that never comes.
AddFinalizerNoRequeue ==
    /\ rec.pc = "addFinalizer"
    /\ spec' = [spec EXCEPT !.finalizer = @ \/ FinalizerStored]
    /\ Return(FALSE)
    /\ UNCHANGED <<faults, status, queued, lost, copies, objects, outside>>

\* Mutant: the error is logged and the pass goes on.
AddFinalizerIgnoresError ==
    /\ rec.pc = "addFinalizer"
    /\ \/ spec' = [spec EXCEPT !.finalizer = @ \/ FinalizerStored] /\ UNCHANGED faults
       \/ Fault /\ UNCHANGED spec
    /\ Goto("resolve")
    /\ UNCHANGED <<status, queued, lost, copies, objects, outside>>

\* The finalizer is put on the v1beta1 copy and written, or refused; the call
\* returns RequeueAfter 5s or the error.  A finalizer is metadata, so no watch
\* event would bring the key back.
AddFinalizer ==
    /\ rec.pc = "addFinalizer"
    /\ \/ /\ spec' = [spec EXCEPT !.finalizer = @ \/ FinalizerStored]
          /\ Return(TRUE)
          /\ UNCHANGED <<faults, status>>
       \/ RetryStep /\ UNCHANGED spec
    /\ UNCHANGED <<queued, lost, copies, objects, outside>>

\* fetchReferencedResources and BuildConfig.  The CORS hosts of referencing
\* FreqUIs, listed in between, are in module ConfigRender.
ResolveConfig ==
    /\ rec.pc = "resolve"
    /\ \/ /\ cfgState = "ok"
          /\ rec' = [rec EXCEPT !.pc = "secret", !.hash = cfg]
          /\ UNCHANGED <<timer, status, faults>>
       \/ /\ cfgState = "missing"
          /\ failReconcile("configResolved", "ReferenceNotFound")
          /\ UNCHANGED faults
       \/ /\ cfgState = "invalid"
          /\ failReconcile("configResolved", "ConfigInvalid")
          /\ UNCHANGED faults
       \/ /\ cfgState = "secretMissing"
          /\ failReconcile("configResolved", "SecretMissing")
          /\ UNCHANGED faults
       \/ FailStep("configResolved")
    /\ UNCHANGED <<spec, queued, lost, copies, objects, outside>>

\* reconcileResources, one server-side apply per step, in the code's order.
\* An apply that changes an owned object of a watched kind comes back as a
\* watch event; NetworkPolicy is not among the Owns of SetupWithManager.
ApplySecret ==
    /\ rec.pc = "secret"
    /\ \/ /\ files' = [files EXCEPT !.config = rec.hash]
          /\ queued' = (queued \/ files' # files)
          /\ Goto("configmap")
          /\ UNCHANGED <<faults, status>>
       \/ FailStep("workloadReady") /\ UNCHANGED <<files, queued>>
    /\ UNCHANGED <<spec, lost, copies, sts, pod, pvc, net, outside>>

ApplyStrategyConfigMap ==
    /\ rec.pc = "configmap"
    /\ \/ /\ files' = [files EXCEPT !.script = rec.hash]
          /\ queued' = (queued \/ files' # files)
          /\ Goto("pvc")
          /\ UNCHANGED <<faults, status>>
       \/ FailStep("workloadReady") /\ UNCHANGED <<files, queued>>
    /\ UNCHANGED <<spec, lost, copies, sts, pod, pvc, net, outside>>

ApplyPVC ==
    /\ rec.pc = "pvc"
    /\ \/ /\ pvc' = "owned"
          /\ queued' = (queued \/ pvc' # pvc)
          /\ Goto("statefulset")
          /\ UNCHANGED <<faults, status>>
       \/ FailStep("workloadReady") /\ UNCHANGED <<pvc, queued>>
    /\ UNCHANGED <<spec, lost, copies, files, sts, pod, net, outside>>

\* Mutant: Manual is treated as Auto.
templateHashAlwaysFresh == rec.hash

\* statefulSetTemplateHash: Auto takes the fresh hash; Manual keeps what the
\* (cached) template carries, or seeds it when there is no StatefulSet yet.
statefulSetTemplateHash ==
    IF rec.auto \/ ~stsSeen.exists \/ stsSeen.hash = NoConfig
    THEN rec.hash
    ELSE stsSeen.hash

\* BuildStatefulSet always asks for one replica.
BuildStatefulSet(hash) == [exists |-> TRUE, replicas |-> 1, hash |-> hash]

\* A changed template makes the existing pod stale: the StatefulSet controller
\* will replace it.
ApplyStatefulSet ==
    /\ rec.pc = "statefulset"
    /\ \/ /\ sts' = BuildStatefulSet(statefulSetTemplateHash)
          /\ pod' = [pod EXCEPT !.stale = \/ pod.stale
                                          \/ pod.phase # "none" /\ sts.hash # sts'.hash]
          /\ rec' = [rec EXCEPT !.pc = "service",
                                !.drift = statefulSetTemplateHash # rec.hash]
          /\ UNCHANGED <<timer, faults, status>>
       \/ FailStep("workloadReady") /\ UNCHANGED <<sts, pod>>
    /\ UNCHANGED <<spec, queued, lost, copies, files, pvc, net, outside>>

ApplyService ==
    /\ rec.pc = "service"
    /\ \/ /\ net' = net \cup {"service"}
          /\ queued' = (queued \/ net' # net)
          /\ Goto("networkpolicy")
          /\ UNCHANGED <<faults, status>>
       \/ FailStep("workloadReady") /\ UNCHANGED <<net, queued>>
    /\ UNCHANGED <<spec, lost, copies, files, sts, pod, pvc, outside>>

ApplyNetworkPolicy ==
    /\ rec.pc = "networkpolicy"
    /\ \/ /\ net' = net \cup {"networkpolicy"}
          /\ Goto("observe")
          /\ UNCHANGED <<faults, status>>
       \/ FailStep("workloadReady") /\ UNCHANGED net
    /\ UNCHANGED <<spec, queued, lost, copies, files, sts, pod, pvc, outside>>

\* computeWorkloadStatus: a cached Get of the StatefulSet just applied.
ComputeWorkloadStatus ==
    /\ rec.pc = "observe"
    /\ \/ /\ stsSeen.exists
          /\ rec' = [rec EXCEPT !.pc = "patch", !.ready = pod.phase = "ready"]
          /\ UNCHANGED <<timer, status, faults>>
       \/ /\ ~stsSeen.exists
          /\ failReconcile("workloadReady", "ReconcileError")
          /\ UNCHANGED faults
       \/ FailStep("workloadReady")
    /\ UNCHANGED <<spec, queued, lost, copies, objects, outside>>

\* The success path's single status patch.  The patch starts from the v1beta1
\* copy, so that is the observation reconcileState works on.
PatchSuccess ==
    /\ rec.pc = "patch"
    /\ \/ /\ LET new == [beta.status EXCEPT
                   !.configResolved = "AsExpected",
                   !.workloadReady = IF rec.ready THEN "WorkloadHealthy"
                                                  ELSE "WorkloadProgressing",
                   !.ready = rec.ready, !.drift = rec.drift, !.applied = rec.hash]
             IN  /\ patchTradeBotStatus(new)
                 /\ \/ /\ Accepts(new)
                       /\ rec' = [rec EXCEPT !.pc = "state",
                             !.reach = beta.status.reachable = "True",
                             !.obs = beta.status.botState]
                       /\ lost' = ~Current
                       /\ UNCHANGED timer
                    \/ ~Accepts(new) /\ Return(TRUE) /\ UNCHANGED lost
          /\ UNCHANGED faults
       \/ RetryStep /\ UNCHANGED lost
    /\ UNCHANGED <<spec, queued, copies, objects, outside>>

-----------------------------------------------------------------------------
(* reconcileState: spec.state against the poller's last observation.       *)

\* Mutant: every pass asks for another.
defaultRequeueAfterAlways == TRUE

\* Reconcile's own requeue when reconcileState asks for none: 15s while the
\* workload is not ready, nothing once it is.
defaultRequeueAfter == ~rec.ready

\* A reason is recorded in StateReconciled; an error of that is returned.
RecordState(reason, requeue) ==
    LET new == [beta.status EXCEPT !.stateReconciled = reason]
    IN  /\ patchTradeBotStatus(new)
        /\ Return(requeue \/ ~Accepts(new))
        /\ UNCHANGED faults

\* reconcileState: spec.state is read from the v1beta1 informer; the observation
\* is the one PatchSuccess read.  Any patch of it may fail.
ReconcileState ==
    /\ rec.pc = "state"
    /\ \/ /\ ~beta.spec.exists
          /\ Return(defaultRequeueAfter)
          /\ UNCHANGED <<status, faults>>
       \/ /\ beta.spec.exists
          /\ \/ ~rec.reach /\ RecordState("BotUnreachable", defaultRequeueAfter)
             \/ /\ rec.reach /\ rec.obs = beta.spec.state
                /\ RecordState("AsExpected", defaultRequeueAfter)
             \/ /\ rec.reach /\ rec.obs # beta.spec.state
                /\ rec' = [rec EXCEPT !.pc = "call", !.want = beta.spec.state]
                /\ UNCHANGED <<timer, status, faults>>
             \/ /\ rec.reach /\ rec.obs # beta.spec.state
                /\ cfgState # "ok"   \* resolveCredentials may fail on what broke since
                /\ RecordState("StateChangeFailed", defaultRequeueAfter)
       \/ RetryStep
    /\ UNCHANGED <<spec, queued, lost, copies, objects, outside>>

\* reconcileStateChange, first half: exactly one start or stop call.  A call
\* that times out may or may not have taken effect.
StateCall ==
    /\ rec.pc = "call"
    /\ \/ /\ pod.phase = "ready"
          /\ pod' = [pod EXCEPT !.trading = rec.want]
          /\ rec' = [rec EXCEPT !.pc = "confirm", !.changed = TRUE]
          /\ UNCHANGED faults
       \/ /\ pod.phase # "ready"
          /\ Goto("confirm")
          /\ UNCHANGED <<pod, faults>>
       \/ /\ pod.phase = "ready" /\ Fault
          /\ pod' \in {pod, [pod EXCEPT !.trading = rec.want]}
          /\ Goto("confirm")
    /\ UNCHANGED <<spec, queued, timer, status, lost, copies, files, sts, pvc, net,
                   outside>>

\* reconcileStateChange, second half: record the outcome; only a call that
\* went through asks for a requeue of its own.
StateConfirm ==
    /\ rec.pc = "confirm"
    /\ \/ RecordState(IF rec.changed THEN "StateChangePending" ELSE "StateChangeFailed",
                      rec.changed \/ defaultRequeueAfter)
       \/ RetryStep
    /\ UNCHANGED <<spec, queued, lost, copies, objects, outside>>

-----------------------------------------------------------------------------
(* finalizeTradeBot, one non-blocking pass per Reconcile.                  *)

\* Mutant: the replicas still there are not looked at.
scaledDownBySpec == stsSeen.replicas = 0

\* What counts as scaled down: no replica asked for and none left.
scaledDown == stsSeen.replicas = 0 /\ pod.phase = "none"

\* ensureStatefulSetScaledDown on the cached copy: ask for zero replicas, or
\* report whether they are gone.  An update built on a stale copy conflicts and
\* changes nothing, which the code ignores; the pass then counts as not done.
\* One that the informer has not shown yet counts as nothing to scale down.
Finalize ==
    /\ rec.pc = "finalize"
    /\ \/ /\ sts' = IF stsSeen.exists /\ stsSeen.replicas # 0 /\ stsSeen = sts
                    THEN [sts EXCEPT !.replicas = 0] ELSE sts
          /\ IF ~stsSeen.exists \/ scaledDown \/ late
             THEN /\ rec' = [rec EXCEPT !.pc = "preserve",
                                        !.unseen = ~stsSeen.exists /\ sts.exists]
                  /\ UNCHANGED timer
             ELSE Return(TRUE)
          /\ UNCHANGED <<faults, status>>
       \/ RetryStep /\ UNCHANGED sts
    /\ UNCHANGED <<spec, queued, lost, copies, files, pod, pvc, net, outside>>

\* handlePVCPreservation: a failure is logged and deletion goes on.
PreservePVC ==
    /\ rec.pc = "preserve"
    /\ \/ /\ pvc' = IF rec.preserve /\ pvc # "none" THEN "preserved" ELSE pvc
          /\ UNCHANGED faults
       \/ /\ rec.preserve /\ Fault
          /\ UNCHANGED pvc
    /\ Goto("removeFinalizer")
    /\ UNCHANGED <<spec, status, queued, lost, copies, files, sts, pod, net, outside>>

\* Mutant: the finalizer is taken off the local copy only.
RemoveFinalizerNoUpdate ==
    /\ rec.pc = "removeFinalizer"
    /\ Return(FALSE)
    /\ UNCHANGED <<spec, faults, status, queued, lost, copies, objects, outside>>

\* Removing the last finalizer makes the API server drop the object.  The object
\* is read as v1beta1: gone is success, a late copy a conflict to retry.
RemoveFinalizer ==
    /\ rec.pc = "removeFinalizer"
    /\ \/ /\ ~spec.job /\ ~beta.spec.exists
          /\ Return(FALSE)
          /\ UNCHANGED <<spec, faults, status>>
       \/ /\ spec.job \/ (Known /\ ~Current)
          /\ Return(TRUE)
          /\ UNCHANGED <<spec, faults, status>>
       \/ /\ Known /\ Current
          /\ spec' = [spec EXCEPT !.exists = FALSE, !.finalizer = FALSE]
          /\ Return(FALSE)
          /\ UNCHANGED <<faults, status>>
       \/ RetryStep /\ UNCHANGED spec
    /\ UNCHANGED <<queued, lost, copies, objects, outside>>

-----------------------------------------------------------------------------
(* The queue's environment.                                                *)

TimerFires ==
    /\ timer
    /\ timer' = FALSE /\ queued' = TRUE
    /\ UNCHANGED <<spec, status, copies, rec, lost, faults, objects, outside>>

\* The informer delivers the StatefulSet's current state and its event.
InformerSync ==
    /\ stsSeen # sts
    /\ stsSeen' = sts /\ queued' = TRUE
    /\ UNCHANGED <<spec, status, specSeen, beta, timer, rec, lost, faults, objects,
                   outside>>

\* The v1alpha1 informer delivers the TradeBot.  tradeBotChanged lets through a
\* new generation (a deletion is one), annotation or absence: not a finalizer.
AlphaSync ==
    /\ specSeen # spec
    /\ specSeen' = spec
    /\ queued' = (queued \/ [specSeen EXCEPT !.finalizer = spec.finalizer] # spec)
    /\ UNCHANGED <<spec, status, beta, stsSeen, timer, rec, lost, faults, objects,
                   outside>>

\* The v1beta1 informer delivers the TradeBot.  Nothing watches it.
BetaSync ==
    /\ ~spec.job /\ ~Current
    /\ beta' = [spec |-> spec, status |-> status]
    /\ UNCHANGED <<spec, status, specSeen, stsSeen, queued, timer, rec, lost, faults,
                   objects, outside>>

\* A new leader starts with empty queues; the initial list enqueues the key.
OperatorRestart ==
    /\ Fault
    /\ rec' = IdleRec /\ timer' = FALSE /\ queued' = spec.exists
    /\ specSeen' = spec /\ beta' = [spec |-> spec, status |-> status]
    /\ stsSeen' = sts /\ poll' = NoPoll
    /\ UNCHANGED <<spec, status, lost, cfg, cfgState, late, edits, objects>>

-----------------------------------------------------------------------------
(* The user.  Every spec or annotation edit passes tradeBotChanged.        *)

Edit ==
    /\ edits < MaxEdits
    /\ edits' = edits + 1

\* What no user action touches.
unedited == <<status, timer, copies, rec, lost, faults, files, sts, pvc, late, poll>>

\* A Job-mode object can no longer be written at all.  preserve is an annotation,
\* which is not part of the generation.
EditSpec ==
    /\ Edit
    /\ Convertible /\ ~spec.deleting /\ Admitted
    /\ \/ spec' = [spec EXCEPT !.preserve = ~@]
       \/ \E s \in RunStates, a, p \in BOOLEAN :
            /\ <<s, a>> # <<spec.state, spec.auto>>
            /\ spec' = [spec EXCEPT !.state = s, !.auto = a, !.preserve = p,
                                    !.generation = @ + 1]
    /\ UNCHANGED <<unedited, queued, pod, net, cfg, cfgState>>

\* An edit of the TradeBotConfig or the Strategy.
EditConfig ==
    /\ Edit
    /\ cfg' \in Configs
    /\ cfgState' \in CfgStates
    /\ <<cfg', cfgState'>> # <<cfg, cfgState>>
    /\ queued' = TRUE
    /\ UNCHANGED <<unedited, spec, pod, net>>

\* Credential Secrets are not watched: supplying a missing one is no event.
SupplySecret ==
    /\ Edit
    /\ cfgState = "secretMissing"
    /\ cfgState' = "ok"
    /\ UNCHANGED <<unedited, spec, queued, pod, net, cfg>>

DeleteTradeBot ==
    /\ Edit
    /\ spec.exists /\ ~spec.deleting
    /\ spec' = [spec EXCEPT !.deleting = spec.finalizer, !.exists = spec.finalizer,
                            !.generation = @ + 1]
    /\ UNCHANGED <<unedited, queued, pod, net, cfg, cfgState>>

\* Someone deletes the Service, a watched owned object.
DeleteService ==
    /\ Edit
    /\ "service" \in net
    /\ net' = net \ {"service"}
    /\ queued' = TRUE
    /\ UNCHANGED <<unedited, spec, pod, cfg, cfgState>>

\* kubectl rollout restart: the template changes, its config hash does not.
RolloutRestart ==
    /\ Edit
    /\ pod.phase # "none" /\ ~pod.stale
    /\ pod' = [pod EXCEPT !.stale = TRUE]
    /\ queued' = TRUE
    /\ UNCHANGED <<unedited, spec, net, cfg, cfgState>>

GracePasses ==
    /\ spec.deleting /\ ~late
    /\ late' = TRUE
    /\ UNCHANGED <<spec, status, queued, timer, copies, rec, lost, faults, objects,
                   cfg, cfgState, poll, edits>>

-----------------------------------------------------------------------------
(* The StatefulSet controller, the kubelet and the garbage collector.      *)

\* A pod starts, with the files it mounts there, and freqtrade comes up in the
\* configuration's initial_state.
PodStart ==
    /\ sts.exists /\ sts.replicas = 1 /\ pod.phase = "none"
    /\ files.config # NoConfig /\ files.script # NoConfig
    /\ \E t \in RunStates :
         pod' = [phase |-> "starting", stale |-> FALSE, trading |-> t]
    /\ queued' = TRUE
    /\ UNCHANGED <<spec, status, timer, copies, rec, lost, faults, files, sts,
                   pvc, net, outside>>

PodReady ==
    /\ pod.phase = "starting"
    /\ pod' = [pod EXCEPT !.phase = "ready"]
    /\ queued' = TRUE
    /\ UNCHANGED <<spec, status, timer, copies, rec, lost, faults, files, sts,
                   pvc, net, outside>>

\* The pod is taken down: scaled away, replaced because its template changed.
PodStop ==
    /\ pod.phase # "none"
    /\ sts.replicas = 0 \/ pod.stale
    /\ pod' = NoPod
    /\ queued' = TRUE
    /\ UNCHANGED <<spec, status, timer, copies, rec, lost, faults, files, sts,
                   pvc, net, outside>>

\* freqtrade dies; the StatefulSet's readiness drops and a new pod will start.
PodCrash ==
    /\ pod.phase = "ready" /\ Fault
    /\ pod' = NoPod
    /\ queued' = TRUE
    /\ UNCHANGED <<spec, status, timer, copies, rec, lost, files, sts, pvc, net,
                   outside>>

\* Objects whose controller owner is gone are deleted.
GarbageCollect ==
    /\ ~spec.exists
    /\ \/ files # [config |-> NoConfig, script |-> NoConfig]
       \/ sts.exists \/ pvc = "owned" \/ net # {}
    /\ files' = [config |-> NoConfig, script |-> NoConfig]
    /\ sts' = NoSts /\ pod' = NoPod /\ net' = {}
    /\ pvc' = IF pvc = "owned" THEN "none" ELSE pvc
    /\ queued' = TRUE
    /\ UNCHANGED <<spec, status, timer, copies, rec, lost, faults, outside>>

-----------------------------------------------------------------------------
(* The BotPoller: pollOne reads the bot's REST API, then patches status.   *)

PollRead ==
    /\ Introspection /\ ~poll.busy /\ specSeen.exists /\ ~specSeen.job
    /\ \/ \E up \in BOOLEAN :
            /\ up => pod.phase = "ready"
            /\ pod.phase = "ready" /\ cfgState = "ok" => up
            /\ poll' = [busy |-> TRUE, ok |-> up,
                        trading |-> IF up THEN pod.trading ELSE "Running"]
            /\ UNCHANGED faults
       \/ /\ pod.phase = "ready" /\ Fault
          /\ poll' = [NoPoll EXCEPT !.busy = TRUE]
    /\ UNCHANGED <<spec, status, queued, timer, copies, rec, lost, objects, cfg,
                   cfgState, late, edits>>

\* mergeBotStatus: a failed poll keeps the last known state.  A status write
\* bumps no generation, so it never enqueues the key.  An answer that cannot be
\* written is logged and dropped.
PollWrite ==
    /\ poll.busy
    /\ poll' = NoPoll
    /\ patchTradeBotStatus([beta.status EXCEPT
            !.reachable = IF poll.ok THEN "True" ELSE "False",
            !.botState = IF poll.ok THEN poll.trading ELSE @])
    /\ UNCHANGED <<spec, queued, timer, copies, rec, lost, faults, objects, cfg,
                   cfgState, late, edits>>

-----------------------------------------------------------------------------
Reconcile ==
    \/ Fetch \/ AddFinalizer \/ ResolveConfig
    \/ ApplySecret \/ ApplyStrategyConfigMap \/ ApplyPVC \/ ApplyStatefulSet
    \/ ApplyService \/ ApplyNetworkPolicy
    \/ ComputeWorkloadStatus \/ PatchSuccess
    \/ ReconcileState \/ StateCall \/ StateConfirm
    \/ Finalize \/ PreservePVC \/ RemoveFinalizer

User ==
    \/ EditSpec \/ EditConfig \/ SupplySecret
    \/ DeleteTradeBot \/ DeleteService \/ RolloutRestart

Cluster == PodStart \/ PodReady \/ PodStop \/ PodCrash \/ GarbageCollect

Next ==
    \/ Reconcile \/ TimerFires
    \/ InformerSync \/ AlphaSync \/ BetaSync \/ OperatorRestart
    \/ User \/ Cluster \/ GracePasses \/ PollRead \/ PollWrite

Spec == Init /\ [][Next]_vars

\* The queue hands out keys, timers fire, informers deliver, the poller ticks
\* and the cluster starts and stops pods; users, crashes and faults owe
\* nothing.
Fairness ==
    /\ WF_vars(Reconcile) /\ WF_vars(TimerFires)
    /\ WF_vars(InformerSync) /\ WF_vars(AlphaSync) /\ WF_vars(BetaSync)
    /\ WF_vars(PodStart) /\ WF_vars(PodReady) /\ WF_vars(PodStop)
    /\ WF_vars(GracePasses) /\ WF_vars(GarbageCollect)
    /\ WF_vars(PollRead) /\ WF_vars(PollWrite)

FairSpec == Spec /\ Fairness

-----------------------------------------------------------------------------
(* Safety.                                                                 *)

\* Nothing will bring the key back to Reconcile on its own.
Quiescent ==
    rec.pc = "idle" /\ ~queued /\ ~timer /\ stsSeen = sts /\ specSeen = spec

\* When the controller has nothing left to do for a TradeBot, the cluster is
\* what the spec asks for: references resolved, the Secret and the ConfigMap
\* hold the current rendering, the StatefulSet runs one ready pod with, under
\* Auto, the current hash, the claim and the Service exist.  The status says so
\* too, for the current generation, and ConfigDrift tells whether the pod
\* template lags; unless the last pass's report was skipped, because it equalled
\* a copy of the status that was out of date.  No event, failure, restart or edit
\* in mid-pass leaves a remainder that nothing re-queues, however late the
\* informers are.  A deleted TradeBot is never left half-finalized.
Converged ==
    Quiescent /\ Convertible =>
        /\ spec.finalizer /\ ~spec.deleting
        /\ cfgState = "ok"
        /\ files = [config |-> cfg, script |-> cfg]
        /\ sts.exists /\ sts.replicas = 1 /\ pod.phase = "ready"
        /\ spec.auto => sts.hash = cfg
        /\ pvc = "owned" /\ "service" \in net
        /\ ~lost =>
             /\ status.applied = cfg
             /\ status.configResolved = "AsExpected"
             /\ status.workloadReady = "WorkloadHealthy" /\ status.ready
             /\ status.drift = (sts.hash # cfg)
             /\ status.observedGeneration = spec.generation

\* While a pass renders, applies and reports, its TradeBot is in the API server
\* with its finalizer on, whenever the user deletes it and however late the
\* informers are: no apply or bot call acts for an object that is gone.  (A pass
\* that finalizes may start once more, on a late copy of an object that is gone.)
HoldsFinalizer ==
    rec.pc \notin {"idle", "addFinalizer", "finalize", "preserve", "removeFinalizer"}
        => spec.exists /\ spec.finalizer

\* Phase says Running exactly when the Ready condition is True, although
\* failReconcile and the success path write them from different conditions and
\* a failed pass leaves the other conditions as they were.
PhaseMatchesReady == deriveTradeBotPhase(status) = "Running" <=> status.ready

\* A TradeBot stored with a one-shot command is never run as a live bot: no
\* StatefulSet, pod or config Secret ever exists for it.
JobModeNeverTrades ==
    spec.job => ~sts.exists /\ pod = NoPod /\ files.config = NoConfig

\* Under updateStrategy Manual a reconcile changes the config hash of an existing
\* StatefulSet's template, and so restarts a running bot, only when the informer
\* has yet to deliver the template hash the controller itself wrote last.  The
\* comment of statefulSetTemplateHash says a Manual reconcile can never do so.
ManualNeverRestarts ==
    [][sts.exists /\ sts'.exists /\ sts'.hash # sts.hash
         => rec.auto \/ stsSeen.hash # sts.hash]_vars

\* The finalizer comes off only when the bot's pod is gone, or once the grace
\* period has passed, or when the pass that took it off found no StatefulSet
\* because the informer had yet to show the one just created: but for that,
\* deletion does not orphan a trading pod.
FinalizerWaitsForPod ==
    [][spec.finalizer /\ ~spec'.finalizer
         => pod.phase = "none" \/ late \/ rec.unseen]_vars

-----------------------------------------------------------------------------
(* Liveness.                                                               *)

\* A deleted TradeBot goes away, whatever the StatefulSet does.
DeletionCompletes == (spec.deleting /\ Convertible) ~> ~spec.exists

\* Once the references resolve and stay that way, the controller comes to rest:
\* no requeue, self-triggered watch event, conflict on a late copy or state change
\* keeps a healthy bot in the work queue for ever.  A bot that was Stopped before
\* it had its finalizer is not promised this: the webhook refuses the finalizer.
Settles ==
    <>[](/\ cfgState = "ok" /\ Convertible /\ ~spec.deleting
         /\ spec.finalizer \/ spec.state = "Running")
        => <>[]Quiescent
=============================================================================
