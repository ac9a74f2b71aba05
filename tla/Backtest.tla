------------------------------ MODULE Backtest ------------------------------
(***************************************************************************)
(* The Backtest controller (controllers/backtest) and the results sidecar   *)
(* (controllers/backtest/collectresults): one Backtest name, the Job that   *)
(* runs it, the sidecar that leaves a results ConfigMap behind, the TTL     *)
(* controller that reaps the finished Job, and the garbage collector.  The  *)
(* name can be deleted and created again; each creation is a new run, with  *)
(* a new UID, and every object remembers the run that owns or made it.      *)
(* The controller reads the Backtest, the Job and the results claim from    *)
(* the informers' copies (the variables with Seen), which catch up in steps *)
(* of their own; what it writes goes to the API server, which refuses an    *)
(* Update made from an old copy.                                            *)
(*                                                                          *)
(* Definitions marked as mutants are used by no action: each is a plausible *)
(* bug in the definition after it, for which a property must fail.          *)
(***************************************************************************)
EXTENDS Naturals

CONSTANTS
    MaxRuns,    \* bound on how often the name is created
    MaxFaults,  \* bound on failed API calls and operator restarts
    MaxEdits    \* bound on deletions and on changes to what the Backtest references

ASSUME BacktestAssumption ==
    MaxRuns \in Nat \ {0} /\ MaxFaults \in Nat /\ MaxEdits \in Nat

VARIABLES
    bt,         \* the Backtest object; run is its UID
    btSeen,     \* the same in the informer cache
    refs,       \* what resolving its references and BuildConfig gives now
    status,     \* the Backtest's status subresource
    statusSeen, \* the same in the informer cache, part of one copy with btSeen
    owner,      \* input Secret and ConfigMap, results PVC: exists, owning run
    pvcSeen,    \* the results PVC in the informer cache
    rbac,       \* the sidecar's ServiceAccount, Role and RoleBinding exist
    job,        \* the Job, with the counts of its status
    jobSeen,    \* the Job in the informer cache
    pod,        \* the Job's current pod: main container and sidecar
    cm,         \* the <name>-results ConfigMap
    queued,     \* the key is in the work queue (or dirty while processing), or
                \* an event that puts it there is under way
    timer,      \* a RequeueAfter or an error backoff is pending
    rec,        \* the Reconcile call in progress
    lost,       \* history: the last pass left out its status write, equal to an old copy
    ended,      \* history: the run's outcome has been recorded
    faults, edits

vars == <<bt, btSeen, refs, status, statusSeen, owner, pvcSeen, rbac, job, jobSeen, pod, cm,
          queued, timer, rec, lost, ended, faults, edits>>

Runs == 1..MaxRuns
Inputs == {"secret", "configmap", "pvc"}
Absent == [exists |-> FALSE, run |-> 0]
NoJob == [exists |-> FALSE, run |-> 0, active |-> 0, failed |-> 0, succeeded |-> 0]
NoPod == [phase |-> "none", run |-> 0]
NoCM == [exists |-> FALSE, run |-> 0, data |-> "error", owner |-> 0]
IdleRec == [pc |-> "idle", run |-> 0, retain |-> FALSE, fresh |-> FALSE,
            recorded |-> "unset", filled |-> FALSE, outcome |-> "Progressing",
            requeue |-> FALSE, results |-> "unset", summary |-> 0, unseen |-> FALSE]

\* jobBackoffLimit: one retry.
jobBackoffLimit == 1

NewStatus == [config |-> "unset", workload |-> "unset", results |-> "unset",
              summary |-> 0, phase |-> ""]

Outcomes == {"Progressing", "Running", "Succeeded", "Failed"}
Workloads == {"unset", "Progressing", "Succeeded", "Failed", "ReconcileError"}

Refs == {"ok", "missing", "invalid"}
Backtests == [exists: BOOLEAN, deleting: BOOLEAN, finalizer: BOOLEAN,
              retain: BOOLEAN, run: Runs]
Statuses == [config: {"unset", "AsExpected", "ReferenceNotFound", "ReconcileError"},
             workload: Workloads,
             results: {"unset", "AsExpected", "ResultsUnavailable", "ReconcileError"},
             summary: 0..MaxRuns,
             phase: {"", "Pending", "Running", "Succeeded", "Failed", "Error"}]
Owners == [exists: BOOLEAN, run: 0..MaxRuns]
Jobs == [exists: BOOLEAN, run: 0..MaxRuns, active: 0..1,
         failed: 0..(jobBackoffLimit + 1), succeeded: 0..1]
Pods == [phase: {"none", "running", "exitedOk", "exitedBad", "collected", "collectedBad"},
         run: 0..MaxRuns]
Maps == [exists: BOOLEAN, run: 0..MaxRuns, data: {"results", "error"}, owner: 0..MaxRuns]
PCs == {"idle", "addFinalizer", "finalize", "removeFinalizer", "checkJob", "refs",
        "secret", "configmap", "pvc", "rbac", "job", "observe", "adopt", "patch"}
\* run, retain, recorded and filled are the local copy of the Backtest; fresh and
\* unseen only remember whether that copy was current, and whether the finalizer
\* missed a claim that existed.
Recs == [pc: PCs, run: 0..MaxRuns, retain: BOOLEAN, fresh: BOOLEAN,
         recorded: Workloads, filled: BOOLEAN, outcome: Outcomes, requeue: BOOLEAN,
         results: {"unset", "AsExpected", "ResultsUnavailable"}, summary: 0..MaxRuns,
         unseen: BOOLEAN]

TypeOK ==
    /\ bt \in Backtests /\ btSeen \in Backtests /\ refs \in Refs
    /\ status \in Statuses /\ statusSeen \in Statuses
    /\ owner \in [Inputs -> Owners] /\ pvcSeen \in Owners /\ rbac \in BOOLEAN
    /\ job \in Jobs /\ jobSeen \in Jobs
    /\ pod \in Pods /\ cm \in Maps
    /\ queued \in BOOLEAN /\ timer \in BOOLEAN
    /\ rec \in Recs /\ lost \in BOOLEAN /\ ended \in BOOLEAN
    /\ faults \in 0..MaxFaults /\ edits \in 0..MaxEdits

Init ==
    /\ \E r \in BOOLEAN :
         bt = [exists |-> TRUE, deleting |-> FALSE, finalizer |-> FALSE,
               retain |-> r, run |-> 1]
    /\ btSeen = bt
    /\ refs \in Refs
    /\ status = NewStatus /\ statusSeen = NewStatus
    /\ owner = [k \in Inputs |-> Absent] /\ pvcSeen = Absent /\ rbac = FALSE
    /\ job = NoJob /\ jobSeen = NoJob /\ pod = NoPod /\ cm = NoCM
    /\ queued = TRUE /\ timer = FALSE /\ rec = IdleRec
    /\ lost = FALSE /\ ended = FALSE
    /\ faults = 0 /\ edits = 0

seen == <<btSeen, statusSeen, jobSeen, pvcSeen>>
past == <<lost, ended>>
cluster == <<owner, rbac, job, pod, cm>>

-----------------------------------------------------------------------------
(* How a Reconcile step ends.                                              *)

Return(requeue) ==
    /\ rec' = IdleRec
    /\ timer' = (timer \/ requeue)

Goto(pc) ==
    /\ rec' = [rec EXCEPT !.pc = pc]
    /\ UNCHANGED timer

Fault ==
    /\ faults < MaxFaults
    /\ faults' = faults + 1

\* The copy that the cache holds is the object as it is.  A PatchStatus made from
\* another one conflicts, or finds nothing to change, for as long as it is retried.
Current == btSeen = bt /\ statusSeen = status

\* Mutant: Phase is left as it was.
failReconcileKeepsPhase(cond, reason) ==
    /\ status' = IF Current /\ btSeen.exists THEN [statusSeen EXCEPT ![cond] = reason] ELSE status
    /\ Return(TRUE)

\* Mutant: the error is recorded and not returned.
failReconcileSwallows(cond, reason) ==
    /\ status' = IF Current /\ btSeen.exists
                 THEN [statusSeen EXCEPT ![cond] = reason, !.phase = "Error"] ELSE status
    /\ Return(FALSE)

\* failReconcile: the failed condition, Ready and Phase, then the error, or the
\* patch's own.
failReconcile(cond, reason) ==
    /\ status' = IF Current /\ btSeen.exists
                 THEN [statusSeen EXCEPT ![cond] = reason, !.phase = "Error"] ELSE status
    /\ Return(TRUE)

\* A step whose error is only returned, for the queue to retry.
RetryStep ==
    /\ Fault
    /\ Return(TRUE)
    /\ UNCHANGED status

\* A step whose API call fails: failReconcile records it, or fails as well.
FailStep(cond) ==
    \/ Fault /\ failReconcile(cond, "ReconcileError")
    \/ RetryStep

-----------------------------------------------------------------------------
(* Reconcile.                                                              *)

\* The controller takes the key and Reconcile reads the object, from the cache:
\* what that copy says is what this pass goes by.
Fetch ==
    /\ queued /\ rec.pc = "idle"
    /\ queued' = FALSE
    /\ rec' = IF ~btSeen.exists \/ (btSeen.deleting /\ ~btSeen.finalizer) THEN IdleRec
              ELSE [IdleRec EXCEPT
                     !.pc = CASE btSeen.deleting -> "finalize"
                              [] ~btSeen.deleting /\ ~btSeen.finalizer -> "addFinalizer"
                              [] OTHER -> "checkJob",
                     !.run = btSeen.run, !.retain = btSeen.retain, !.fresh = Current,
                     !.recorded = statusSeen.workload, !.filled = statusSeen.summary # 0]
    /\ lost' = FALSE
    /\ UNCHANGED <<bt, refs, status, timer, seen, ended, faults, edits, cluster>>

\* An Update of the object as Fetch read it goes through.
Updatable == rec.fresh /\ bt.exists /\ bt.run = rec.run

\* Mutant: the pass goes on whatever the Update said.
AddFinalizerGoesOn ==
    /\ rec.pc = "addFinalizer"
    /\ bt' = [bt EXCEPT !.finalizer = @ \/ Updatable]
    /\ Goto("checkJob")
    /\ UNCHANGED <<status, faults, refs, seen, queued, edits, past, cluster>>

\* Metadata bumps no generation, so the call asks to be requeued; an Update that is
\* refused returns its error.
AddFinalizer ==
    /\ rec.pc = "addFinalizer"
    /\ \/ /\ bt' = [bt EXCEPT !.finalizer = @ \/ Updatable]
          /\ Return(TRUE)
          /\ UNCHANGED <<status, faults>>
       \/ RetryStep /\ UNCHANGED bt
    /\ UNCHANGED <<refs, seen, queued, edits, past, cluster>>

\* Mutant: a failed run is not taken as over.
recordedSuccess(reason) == reason = "Succeeded"

\* recordedOutcome: WorkloadReady's reason already says how the run ended.
recordedOutcome(reason) == reason \in {"Succeeded", "Failed"}

\* reconcileResources, its early returns: a Job by this name, or an outcome.
CheckJob ==
    /\ rec.pc = "checkJob"
    /\ \/ /\ Goto(IF jobSeen.exists \/ recordedOutcome(rec.recorded) THEN "observe" ELSE "refs")
          /\ UNCHANGED <<status, faults>>
       \/ FailStep("config")
    /\ UNCHANGED <<bt, refs, seen, queued, edits, past, cluster>>

\* fetchReferencedObjects and BuildConfig.
ResolveRefs ==
    /\ rec.pc = "refs"
    /\ \/ /\ refs = "ok"
          /\ Goto("secret")
          /\ UNCHANGED <<status, faults>>
       \/ /\ refs = "missing"
          /\ failReconcile("config", "ReferenceNotFound")
          /\ UNCHANGED faults
       \/ /\ refs = "invalid"
          /\ failReconcile("config", "ReconcileError")
          /\ UNCHANGED faults
       \/ FailStep("config")
    /\ UNCHANGED <<bt, refs, seen, queued, edits, past, cluster>>

\* shared.Apply of an owned input.  An earlier run's owner reference was applied by
\* the same field manager and is replaced; a retained claim has none.  The change
\* enqueues the key, for the claim when the cache shows it.
ApplyOwned(kind, next) ==
    /\ rec.pc = kind
    /\ \/ /\ owner' = [owner EXCEPT ![kind] = [exists |-> TRUE, run |-> rec.run]]
          /\ queued' = (queued \/ (kind # "pvc" /\ owner' # owner))
          /\ Goto(next)
          /\ UNCHANGED <<status, faults>>
       \/ FailStep("config") /\ UNCHANGED <<owner, queued>>
    /\ UNCHANGED <<bt, refs, seen, edits, past, rbac, job, pod, cm>>

ApplyConfigSecret == ApplyOwned("secret", "configmap")
ApplyStrategyConfigMap == ApplyOwned("configmap", "pvc")
ApplyResultsPVC == ApplyOwned("pvc", "rbac")

\* ensureSidecarRBAC: applied without an owner, shared by the namespace.
EnsureSidecarRBAC ==
    /\ rec.pc = "rbac"
    /\ \/ /\ rbac' = TRUE
          /\ Goto("job")
          /\ UNCHANGED <<status, faults>>
       \/ FailStep("config") /\ UNCHANGED rbac
    /\ UNCHANGED <<bt, refs, seen, queued, edits, past, owner, job, pod, cm>>

\* The Job is created, or found if the cache had not shown it yet.  One of an
\* earlier run, its pod with it, becomes this run's unless its template, which is
\* immutable, is another.
ApplyJob ==
    /\ rec.pc = "job"
    /\ \/ /\ job' = [(IF job.exists THEN job ELSE NoJob)
                       EXCEPT !.exists = TRUE, !.run = rec.run]
          /\ pod' = IF job.exists /\ pod.run = job.run THEN [pod EXCEPT !.run = rec.run] ELSE pod
          /\ Goto("observe")
          /\ UNCHANGED <<status, faults>>
       \/ /\ job.exists /\ job.run # rec.run
          /\ failReconcile("config", "ReconcileError")
          /\ UNCHANGED <<job, pod, faults>>
       \/ FailStep("config") /\ UNCHANGED <<job, pod>>
    /\ UNCHANGED <<bt, refs, seen, queued, edits, past, owner, rbac, cm>>

\* computeWorkloadStatus, on the cached Job.
workloadOf(j) ==
    CASE j.succeeded > 0 -> "Succeeded"
      [] j.succeeded = 0 /\ j.failed > 0 -> "Failed"
      [] j.succeeded = 0 /\ j.failed = 0 /\ j.active > 0 -> "Running"
      [] OTHER -> "Progressing"

Observed(outcome) ==
    /\ rec' = [rec EXCEPT
         !.outcome = outcome,
         !.pc = IF outcome = "Succeeded" /\ ~rec.filled THEN "adopt" ELSE "patch"]
    /\ UNCHANGED <<timer, status, faults>>

ComputeWorkloadStatus ==
    /\ rec.pc = "observe"
    /\ \/ jobSeen.exists /\ Observed(workloadOf(jobSeen))
       \/ ~jobSeen.exists /\ recordedOutcome(rec.recorded) /\ Observed(rec.recorded)
       \/ /\ ~jobSeen.exists /\ ~recordedOutcome(rec.recorded)
          /\ failReconcile("workload", "ReconcileError")
          /\ UNCHANGED faults
       \/ FailStep("workload")
    /\ UNCHANGED <<bt, refs, seen, queued, edits, past, cluster>>

\* Mutant: the results are read and the owner not set.
leftUnowned == cm

\* ensureOwned: the Backtest becomes the ConfigMap's controller.
ensureOwned == [cm EXCEPT !.owner = rec.run]

\* adoptAndParseResults.  A ConfigMap that is not there, or not in the cache yet,
\* is looked for again in 5s; one with another controller cannot be adopted.
AdoptAndParseResults ==
    /\ rec.pc = "adopt"
    /\ \/ /\ rec' = [rec EXCEPT !.pc = "patch", !.requeue = TRUE]
          /\ UNCHANGED <<timer, status, faults, cm, queued>>
       \/ /\ cm.exists /\ cm.owner \in {0, rec.run}
          /\ cm' = ensureOwned
          /\ queued' = (queued \/ cm' # cm)
          /\ rec' = [rec EXCEPT !.pc = "patch",
               !.results = IF cm.data = "results" THEN "AsExpected" ELSE "ResultsUnavailable",
               !.summary = IF cm.data = "results" THEN cm.run ELSE 0]
          /\ UNCHANGED <<timer, status, faults>>
       \/ /\ cm.exists /\ cm.owner \notin {0, rec.run}
          /\ failReconcile("results", "ReconcileError")
          /\ UNCHANGED <<faults, cm, queued>>
       \/ FailStep("results") /\ UNCHANGED <<cm, queued>>
    /\ UNCHANGED <<bt, refs, seen, edits, past, owner, rbac, job, pod>>

\* Mutant: the outcome is written as it is.
phaseIsOutcome(outcome) == outcome

\* deriveBacktestPhase.
deriveBacktestPhase(outcome) == IF outcome = "Progressing" THEN "Pending" ELSE outcome

\* What the last status patch of a pass makes of the copy it reads.
Reported ==
    [config |-> "AsExpected",
     workload |-> IF rec.outcome = "Running" THEN "Progressing" ELSE rec.outcome,
     results |-> IF rec.results = "unset" THEN statusSeen.results ELSE rec.results,
     summary |-> IF rec.summary = 0 THEN statusSeen.summary ELSE rec.summary,
     phase |-> deriveBacktestPhase(rec.outcome)]

\* The single status patch of a pass that got through.  It is stored over a current
\* copy; over an old one that says the same already it is left out, and over any
\* other it conflicts.
PatchSuccess ==
    /\ rec.pc = "patch"
    /\ \/ /\ btSeen.exists
          /\ \/ /\ Current
                /\ status' = Reported
                /\ lost' = FALSE /\ ended' = (Reported.workload \in {"Succeeded", "Failed"})
             \/ /\ ~Current /\ Reported = statusSeen
                /\ lost' = TRUE /\ UNCHANGED <<status, ended>>
          /\ Return(rec.outcome \in {"Progressing", "Running"} \/ rec.requeue)
          /\ UNCHANGED faults
       \/ /\ ~(Current /\ btSeen.exists)
          /\ Return(TRUE)
          /\ UNCHANGED <<status, faults, past>>
       \/ RetryStep /\ UNCHANGED past
    /\ UNCHANGED <<bt, refs, seen, queued, edits, cluster>>

\* Retain strips the claim's owner, if the cache shows the claim; from an old copy
\* of it the Update conflicts.
PreserveClaim ==
    \/ /\ ~pvcSeen.exists
       /\ rec' = [rec EXCEPT !.pc = "removeFinalizer", !.unseen = owner["pvc"].exists]
       /\ UNCHANGED <<owner, timer>>
    \/ /\ pvcSeen.exists /\ pvcSeen = owner["pvc"]
       /\ owner' = IF pvcSeen.run = rec.run THEN [owner EXCEPT !["pvc"].run = 0] ELSE owner
       /\ Goto("removeFinalizer")
    \/ /\ pvcSeen.exists /\ pvcSeen # owner["pvc"]
       /\ Return(TRUE)
       /\ UNCHANGED owner

\* Mutant: an error is logged and deletion goes on.
FinalizeIgnoresError ==
    /\ rec.pc = "finalize"
    /\ \/ ~rec.retain /\ Goto("removeFinalizer") /\ UNCHANGED <<owner, faults>>
       \/ rec.retain /\ PreserveClaim /\ UNCHANGED faults
       \/ rec.retain /\ Fault /\ Goto("removeFinalizer") /\ UNCHANGED owner
    /\ UNCHANGED <<bt, refs, status, seen, queued, edits, past, rbac, job, pod, cm>>

\* finalizeBacktest: an error keeps the finalizer.
FinalizeBacktest ==
    /\ rec.pc = "finalize"
    /\ \/ ~rec.retain /\ Goto("removeFinalizer") /\ UNCHANGED <<status, owner, faults>>
       \/ rec.retain /\ PreserveClaim /\ UNCHANGED <<status, faults>>
       \/ rec.retain /\ RetryStep /\ UNCHANGED owner
    /\ UNCHANGED <<bt, refs, seen, queued, edits, past, rbac, job, pod, cm>>

\* Mutant: the finalizer is removed from the local copy only.
RemoveFinalizerNoUpdate ==
    /\ rec.pc = "removeFinalizer"
    /\ Return(FALSE)
    /\ UNCHANGED <<bt, refs, status, faults, seen, queued, edits, past, cluster>>

\* The object goes with its finalizer; an Update that is refused returns its error.
RemoveFinalizer ==
    /\ rec.pc = "removeFinalizer"
    /\ \/ /\ Updatable
          /\ bt' = [bt EXCEPT !.exists = FALSE, !.finalizer = FALSE]
          /\ Return(FALSE)
          /\ UNCHANGED <<status, faults>>
       \/ /\ ~Updatable
          /\ Return(TRUE)
          /\ UNCHANGED <<bt, status, faults>>
       \/ RetryStep /\ UNCHANGED bt
    /\ UNCHANGED <<refs, seen, queued, edits, past, cluster>>

-----------------------------------------------------------------------------
(* The queue and the user.                                                 *)

TimerFires ==
    /\ timer
    /\ timer' = FALSE /\ queued' = TRUE
    /\ UNCHANGED <<bt, refs, status, seen, rec, faults, edits, past, cluster>>

InformerSync ==
    /\ jobSeen # job
    /\ jobSeen' = job /\ queued' = TRUE
    /\ UNCHANGED <<bt, refs, status, btSeen, statusSeen, pvcSeen, timer, rec, faults, edits,
                   past, cluster>>

\* The results claim's informer; its owner's key is enqueued.
ClaimSync ==
    /\ pvcSeen # owner["pvc"]
    /\ pvcSeen' = owner["pvc"] /\ queued' = TRUE
    /\ UNCHANGED <<bt, refs, status, btSeen, statusSeen, jobSeen, timer, rec, faults, edits,
                   past, cluster>>

\* The two differ in nothing that bumps the generation.
SameButFinalizer(x, y) == [x EXCEPT !.finalizer = y.finalizer] = y

\* The Backtest's own informer catches up; a status write or a finalizer enqueues
\* nothing.
ObjectSync ==
    /\ ~Current
    /\ btSeen' = bt /\ statusSeen' = status
    /\ queued' = (queued \/ ~SameButFinalizer(btSeen, bt))
    /\ UNCHANGED <<bt, refs, status, jobSeen, pvcSeen, timer, rec, faults, edits, past, cluster>>

OperatorRestart ==
    /\ Fault
    /\ rec' = IdleRec /\ timer' = FALSE /\ queued' = TRUE
    /\ btSeen' = bt /\ statusSeen' = status
    /\ jobSeen' = job /\ pvcSeen' = owner["pvc"]
    /\ UNCHANGED <<bt, refs, status, edits, past, cluster>>

Edit ==
    /\ edits < MaxEdits
    /\ edits' = edits + 1

DeleteBacktest ==
    /\ Edit
    /\ bt.exists /\ ~bt.deleting
    /\ bt' = [bt EXCEPT !.deleting = bt.finalizer, !.exists = bt.finalizer]
    /\ UNCHANGED <<refs, status, seen, queued, timer, rec, faults, past, cluster>>

\* The same name is created again, perhaps before the old objects are collected.
CreateAgain ==
    /\ ~bt.exists /\ bt.run < MaxRuns
    /\ \E r \in BOOLEAN :
         bt' = [exists |-> TRUE, deleting |-> FALSE, finalizer |-> FALSE,
                retain |-> r, run |-> bt.run + 1]
    /\ status' = NewStatus /\ ended' = FALSE
    /\ UNCHANGED <<refs, seen, queued, timer, rec, lost, faults, edits, cluster>>

\* Referenced objects come, go and break; the controller watches none of them.
EditRefs ==
    /\ Edit
    /\ refs' \in Refs \ {refs}
    /\ UNCHANGED <<bt, status, seen, queued, timer, rec, faults, past, cluster>>

-----------------------------------------------------------------------------
(* The Job controller, the pod with its sidecar, the TTL controller, the   *)
(* garbage collector.                                                      *)

Finished(j) == j.exists /\ (j.succeeded > 0 \/ j.failed > jobBackoffLimit)

running == <<bt, refs, status, seen, timer, rec, faults, edits, past>>

PodStart ==
    /\ job.exists /\ ~Finished(job) /\ job.active = 0 /\ pod = NoPod
    /\ job' = [job EXCEPT !.active = 1]
    /\ pod' = [phase |-> "running", run |-> job.run]
    /\ UNCHANGED <<running, queued, owner, rbac, cm>>

\* freqtrade exits; SIGTERM or the next look at its own Pod tells the sidecar.
MainExits ==
    /\ pod.phase = "running"
    /\ \E e \in {"exitedOk", "exitedBad"} : pod' = [pod EXCEPT !.phase = e]
    /\ UNCHANGED <<running, queued, owner, rbac, job, cm>>

\* Run: extract the result file (a failed run has none, a good one may be
\* malformed) and Create the ConfigMap; one that exists is an error, and once
\* the main container is gone the kubelet does not start the sidecar again.
CollectResults ==
    /\ pod.phase \in {"exitedOk", "exitedBad"}
    /\ pod' = [pod EXCEPT !.phase = IF @ = "exitedOk" THEN "collected" ELSE "collectedBad"]
    /\ \/ /\ ~cm.exists /\ rbac
          /\ \E d \in {"results", "error"} :
               /\ d = "results" => pod.phase = "exitedOk"
               /\ cm' = [exists |-> TRUE, run |-> pod.run, data |-> d, owner |-> 0]
          /\ UNCHANGED faults
       \/ cm.exists /\ UNCHANGED <<cm, faults>>
       \/ Fault /\ UNCHANGED cm
    /\ UNCHANGED <<bt, refs, status, seen, queued, timer, rec, edits, past, owner, rbac, job>>

\* The pod is over and the Job controller counts it.
PodDone ==
    /\ pod.phase \in {"collected", "collectedBad"}
    /\ pod' = NoPod
    /\ job' = IF job.run # pod.run THEN job
              ELSE IF pod.phase = "collected"
              THEN [job EXCEPT !.active = 0, !.succeeded = 1]
              ELSE [job EXCEPT !.active = 0, !.failed = @ + 1]
    /\ UNCHANGED <<running, queued, owner, rbac, cm>>

\* ttlSecondsAfterFinished has no minimum: a finished Job goes at any time.
ReapJob ==
    /\ Finished(job)
    /\ job' = NoJob
    /\ UNCHANGED <<running, queued, owner, rbac, pod, cm>>

\* Objects whose controller owner is gone are deleted, in any order; a running
\* pod of a deleted Job is stopped and its sidecar still gets to run.  Their going
\* enqueues the key, for the claim and the Job when the cache shows it.
Gone(run) == run # 0 /\ (run # bt.run \/ ~bt.exists)

GarbageCollect ==
    /\ \/ \E k \in Inputs :
            /\ Gone(owner[k].run)
            /\ owner' = [owner EXCEPT ![k] = Absent]
            /\ queued' = (queued \/ k # "pvc")
            /\ UNCHANGED <<job, pod, cm>>
       \/ /\ Gone(job.run)
          /\ job' = NoJob
          /\ pod' = IF pod.phase = "running" THEN [pod EXCEPT !.phase = "exitedBad"] ELSE pod
          /\ UNCHANGED <<owner, cm, queued>>
       \/ /\ Gone(cm.owner)
          /\ cm' = NoCM
          /\ queued' = TRUE
          /\ UNCHANGED <<owner, job, pod>>
    /\ UNCHANGED <<running, rbac>>

-----------------------------------------------------------------------------
Reconcile ==
    \/ Fetch \/ AddFinalizer \/ CheckJob \/ ResolveRefs
    \/ ApplyConfigSecret \/ ApplyStrategyConfigMap \/ ApplyResultsPVC
    \/ EnsureSidecarRBAC \/ ApplyJob
    \/ ComputeWorkloadStatus \/ AdoptAndParseResults \/ PatchSuccess
    \/ FinalizeBacktest \/ RemoveFinalizer

Cluster == PodStart \/ MainExits \/ CollectResults \/ PodDone \/ GarbageCollect

Next ==
    \/ Reconcile \/ TimerFires \/ InformerSync \/ ClaimSync \/ ObjectSync
    \/ OperatorRestart
    \/ DeleteBacktest \/ CreateAgain \/ EditRefs
    \/ Cluster \/ ReapJob

Spec == Init /\ [][Next]_vars

\* The queue, the informers, the pods and the collector make progress; users,
\* failures and the TTL controller owe nothing.
FairSpec ==
    /\ Spec
    /\ WF_vars(Reconcile) /\ WF_vars(TimerFires) /\ WF_vars(InformerSync)
    /\ WF_vars(ClaimSync) /\ WF_vars(ObjectSync) /\ WF_vars(Cluster)

-----------------------------------------------------------------------------
(* Safety.                                                                 *)

Attending == {"idle", "addFinalizer", "finalize", "removeFinalizer"}

\* A pass that applies objects or writes status does so for the Backtest it read,
\* however old the copy: a copy with the finalizer and without a deletion is one of
\* an object that cannot have gone yet, so nothing is applied in the name of an
\* earlier run and no status of one lands on a new object of the same name.
HoldsRun ==
    rec.pc \notin Attending => bt.exists /\ bt.finalizer /\ rec.run = bt.run

\* A run is one-shot (recordedOutcome's comment, main.go:236-242): after an outcome
\* was recorded, its Job is created again by no pass that read a current copy, save
\* where a failed look at the Job has overwritten the outcome with ReconcileError
\* (main.go:113-117), which forgets it.
RecordedNeverReruns ==
    [][ended /\ ~job.exists /\ job'.exists
         => ~rec.fresh \/ status.workload = "ReconcileError"]_vars

\* status.results is only ever filled from a ConfigMap that the Backtest owns by
\* then, so the summary and its source are collected together.
SummaryIsOwned ==
    status.summary # 0 /\ bt.exists => cm.exists /\ cm.owner = bt.run

\* Deleting a Backtest with retentionPolicy Retain never leaves its results claim
\* to the garbage collector, whichever calls fail and however old the copies are:
\* errors and conflicts hold the finalizer.  The exception is a claim that existed
\* and was not in the cache when finalizeBacktest looked for it (finalizers.go:38-42).
RetainKeepsClaim ==
    [][bt.exists /\ ~bt'.exists /\ bt.retain
         => owner["pvc"].run # bt.run \/ rec.unseen]_vars

\* status.phase Succeeded or Failed is backed by the WorkloadReady condition that
\* says the same, through failed passes, stale copies and further runs of the name.
PhaseMatchesWorkload ==
    status.phase \in {"Succeeded", "Failed"} => status.workload = status.phase

-----------------------------------------------------------------------------
(* Liveness.                                                               *)

\* A Backtest whose references come to resolve gets an outcome recorded, unless
\* each of its Jobs is reaped before a pass has looked at it.
OutcomeReached ==
    <>[](bt.exists /\ ~bt.deleting /\ refs = "ok")
        => <>(status.workload \in {"Succeeded", "Failed"}) \/ []<><<ReapJob>>_vars

\* A deleted Backtest goes away.
DeletionCompletes == bt.deleting ~> ~bt.exists
=============================================================================
