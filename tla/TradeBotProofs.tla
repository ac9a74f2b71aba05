--------------------------- MODULE TradeBotProofs ---------------------------
(***************************************************************************)
(* Proofs about TradeBot, for every set of configurations and every bound.  *)
(* Safety of single steps rests on Inv; Converged rests on OnTrack: what a  *)
(* pass has done so far stands, unless the key is already back in the queue *)
(* or on its way there.                                                     *)
(***************************************************************************)
EXTENDS TradeBot, TLAPS

\* What every step of Reconcile leaves behind, whichever way it ends.
PassOK ==
    /\ rec' \in Recs /\ timer' \in BOOLEAN
    /\ status' \in Statuses /\ faults' \in 0..MaxFaults

-----------------------------------------------------------------------------
(* Type correctness.                                                       *)

\* The initial states are well typed.
LEMMA InitType == Init => TypeOK
<1> SUFFICES ASSUME Init PROVE TypeOK
  OBVIOUS
<1>1. spec \in Specs
  BY DEF Init, Specs, RunStates
<1>2. status \in Statuses
  BY DEF Init, Statuses, ConfigReasons, WorkloadReasons, StateReasons, ConfigOrNone
<1>3. rec \in Recs
  BY DEF Init, Recs, IdleRec, PCs, RunStates, ConfigOrNone
<1>4. sts \in StatefulSets /\ stsSeen \in StatefulSets /\ files \in Files
  BY DEF Init, StatefulSets, NoSts, Files, ConfigOrNone
<1>10. specSeen \in Specs /\ lost \in BOOLEAN
  BY <1>1 DEF Init
<1>11. beta \in [spec: Specs, status: Statuses]
  <2>1. PICK known \in BOOLEAN :
          beta = [spec |-> [spec EXCEPT !.exists = known], status |-> status]
    BY DEF Init
  <2>2. [spec EXCEPT !.exists = known] \in Specs
    BY <1>1 DEF Specs
  <2> QED
    BY <2>1, <2>2, <1>2
<1>5. pod \in Pods /\ poll \in Polls
  BY DEF Init, Pods, NoPod, Polls, NoPoll, RunStates, ConfigOrNone
<1>6. faults \in 0..MaxFaults /\ edits \in 0..MaxEdits
  BY BoundsAssumption DEF Init
<1>7. net \in SUBSET Kinds /\ pvc \in {"none", "owned", "preserved"}
  BY DEF Init
<1>8. queued \in BOOLEAN /\ timer \in BOOLEAN /\ late \in BOOLEAN
  BY DEF Init
<1>9. cfg \in Configs /\ cfgState \in CfgStates
  BY DEF Init
<1> QED
  BY <1>1, <1>2, <1>3, <1>4, <1>5, <1>6, <1>7, <1>8, <1>9, <1>10, <1>11 DEF TypeOK

\* PatchStatus stores a status with the generation of the copy it changed.
LEMMA PatchType ==
  ASSUME TypeOK, NEW new \in Statuses, patchTradeBotStatus(new)
  PROVE  status' \in Statuses
<1>1. beta.spec.generation \in Nat
  BY DEF TypeOK, Specs
<1>2. Stamped(new) \in Statuses
  BY <1>1 DEF Stamped, Statuses
<1> QED
  BY <1>2 DEF patchTradeBotStatus, TypeOK

\* What PatchStatus stores, it computed from the object it replaces.
LEMMA PatchStored ==
  ASSUME NEW new, patchTradeBotStatus(new)
  PROVE  \/ UNCHANGED status
         \/ status' = Stamped(new) /\ beta.status = status /\ beta.spec = spec
BY DEF patchTradeBotStatus, Current

\* The poller changes only what the bot answered, and the generation.
LEMMA PollStored ==
  ASSUME PollWrite
  PROVE  \/ UNCHANGED status
         \/ \E a, b : /\ status' = Stamped([status EXCEPT !.reachable = a, !.botState = b])
                      /\ beta.spec = spec
<1> DEFINE a == IF poll.ok THEN "True" ELSE "False"
           b == IF poll.ok THEN poll.trading ELSE beta.status.botState
<1>1. patchTradeBotStatus([beta.status EXCEPT !.reachable = a, !.botState = b])
  BY DEF PollWrite
<1>2. CASE UNCHANGED status
  BY <1>2
<1>3. CASE /\ status' = Stamped([beta.status EXCEPT !.reachable = a, !.botState = b])
           /\ beta.status = status /\ beta.spec = spec
  <2> HIDE DEF a, b
  <2>1. status' = Stamped([status EXCEPT !.reachable = a, !.botState = b])
    BY <1>3
  <2> QED
    BY <1>3, <2>1
<1> HIDE DEF a, b
<1> QED
  BY <1>1, <1>2, <1>3, PatchStored

\* Return, Goto, failReconcile, FailStep and RetryStep keep their variables typed.
LEMMA ReturnType ==
  ASSUME TypeOK, NEW r \in BOOLEAN, Return(r)
  PROVE  rec' \in Recs /\ timer' \in BOOLEAN
BY DEF TypeOK, Return, Recs, IdleRec, PCs, RunStates, ConfigOrNone

\* failReconcile writes a reason its condition can have.
LEMMA FailReconcileType ==
  ASSUME TypeOK, NEW c \in {"configResolved", "workloadReady"}, 
         NEW r, r \in ConfigReasons, c = "workloadReady" => r = "ReconcileError",
         failReconcile(c, r)
  PROVE  rec' \in Recs /\ timer' \in BOOLEAN /\ status' \in Statuses
<1>1. [beta.status EXCEPT ![c] = r, !.ready = FALSE] \in Statuses
  <2>1. CASE c = "configResolved"
     BY <2>1 DEF TypeOK, Statuses
  <2>2. CASE c = "workloadReady"
     BY <2>2 DEF TypeOK, Statuses, WorkloadReasons
  <2> QED BY <2>1, <2>2
<1> QED
  BY <1>1, ReturnType, PatchType DEF failReconcile

\* A failed call, recorded or not, keeps the pass typed.
LEMMA FailStepType ==
  ASSUME TypeOK, NEW c \in {"configResolved", "workloadReady"}, FailStep(c)
  PROVE  PassOK
<1>1. faults' \in 0..MaxFaults
  BY BoundsAssumption DEF TypeOK, FailStep, Fault
<1>2. CASE failReconcile(c, "ReconcileError")
  BY <1>1, <1>2, FailReconcileType DEF ConfigReasons, PassOK
<1>3. CASE Return(TRUE) /\ UNCHANGED status
  BY <1>1, <1>3, ReturnType DEF TypeOK, PassOK
<1> QED
  BY <1>2, <1>3 DEF FailStep

\* So does an error that is only returned.
LEMMA RetryStepType ==
  ASSUME TypeOK, RetryStep
  PROVE  PassOK
<1>1. faults' \in 0..MaxFaults
  BY BoundsAssumption DEF TypeOK, RetryStep, Fault
<1>2. Return(TRUE) /\ status' \in Statuses
  BY DEF TypeOK, RetryStep
<1> QED
  BY <1>1, <1>2, ReturnType DEF PassOK

\* So does going on to the next step.
LEMMA GotoType ==
  ASSUME TypeOK, NEW pc \in PCs, Goto(pc)
  PROVE  rec' \in Recs /\ timer' \in BOOLEAN
BY DEF TypeOK, Goto, Recs

\* Every step of a Reconcile pass keeps the state well typed.
LEMMA ReconcileType == ASSUME TypeOK, Reconcile PROVE TypeOK'
<1>1. CASE Fetch
  <2>1. CASE failReconcile("configResolved", "JobModeRemoved")
    BY <1>1, <2>1, FailReconcileType DEF Fetch, TypeOK, objects, outside, copies, ConfigReasons
  <2>2. CASE Return(FALSE) /\ UNCHANGED status
    BY <1>1, <2>2, ReturnType DEF Fetch, TypeOK, objects, outside, copies
  <2>3. ASSUME NEW p \in PCs,
               rec' = [IdleRec EXCEPT !.pc = p, !.auto = specSeen.auto,
                                      !.preserve = specSeen.preserve],
               UNCHANGED <<timer, status>>
        PROVE TypeOK'
    <3>2. specSeen.auto \in BOOLEAN /\ specSeen.preserve \in BOOLEAN
      BY DEF TypeOK, Specs
    <3>1. rec' \in Recs
      BY <2>3, <3>2 DEF Recs, IdleRec, RunStates, ConfigOrNone
    <3> QED
      BY <1>1, <2>3, <3>1 DEF Fetch, TypeOK, objects, outside, copies
  <2> QED
    BY <1>1, <2>1, <2>2, <2>3 DEF Fetch, PCs
<1>2. CASE AddFinalizer
  <2>1. spec' \in Specs
    BY <1>2 DEF AddFinalizer, TypeOK, Specs, FinalizerStored, Known, Current, Admitted
  <2>2. CASE Return(TRUE) /\ UNCHANGED <<faults, status>>
    BY <1>2, <2>1, <2>2, ReturnType DEF AddFinalizer, TypeOK, objects, outside, copies
  <2>3. CASE RetryStep
    BY <1>2, <2>1, <2>3, RetryStepType DEF AddFinalizer, TypeOK, objects, outside, copies, PassOK
  <2> QED
    BY <1>2, <2>2, <2>3 DEF AddFinalizer
<1>3. CASE ResolveConfig
  <2>1. PassOK
    <3>1. CASE rec' = [rec EXCEPT !.pc = "secret", !.hash = cfg] /\ UNCHANGED <<timer, status, faults>>
      BY <3>1 DEF TypeOK, Recs, PCs, ConfigOrNone, PassOK
    <3>2. ASSUME NEW r \in ConfigReasons, failReconcile("configResolved", r), UNCHANGED faults
          PROVE PassOK
      BY <3>2, FailReconcileType DEF PassOK, TypeOK
    <3>3. CASE FailStep("configResolved")
      BY <3>3, FailStepType
    <3> QED
      BY <1>3, <3>1, <3>2, <3>3 DEF ResolveConfig, ConfigReasons
  <2> QED
    BY <1>3, <2>1 DEF ResolveConfig, TypeOK, objects, outside, copies, PassOK
<1>4. CASE ApplySecret
  <2>1. PassOK
    <3>1. CASE Goto("configmap") /\ UNCHANGED <<faults, status>>
      BY <3>1, GotoType DEF PCs, PassOK, TypeOK
    <3>2. CASE FailStep("workloadReady")
      BY <3>2, FailStepType
    <3> QED
      BY <1>4, <3>1, <3>2 DEF ApplySecret
  <2>2. files' \in Files /\ queued' \in BOOLEAN
    BY <1>4 DEF ApplySecret, TypeOK, Files, Recs
  <2> QED
    BY <1>4, <2>1, <2>2 DEF ApplySecret, TypeOK, outside, copies, PassOK
<1>5. CASE ApplyStrategyConfigMap
  <2>1. PassOK
    <3>1. CASE Goto("pvc") /\ UNCHANGED <<faults, status>>
      BY <3>1, GotoType DEF PCs, PassOK, TypeOK
    <3>2. CASE FailStep("workloadReady")
      BY <3>2, FailStepType
    <3> QED
      BY <1>5, <3>1, <3>2 DEF ApplyStrategyConfigMap
  <2>2. files' \in Files /\ queued' \in BOOLEAN
    BY <1>5 DEF ApplyStrategyConfigMap, TypeOK, Files, Recs
  <2> QED
    BY <1>5, <2>1, <2>2 DEF ApplyStrategyConfigMap, TypeOK, outside, copies, PassOK
<1>6. CASE ApplyPVC
  <2>1. PassOK
    <3>1. CASE Goto("statefulset") /\ UNCHANGED <<faults, status>>
      BY <3>1, GotoType DEF PCs, PassOK, TypeOK
    <3>2. CASE FailStep("workloadReady")
      BY <3>2, FailStepType
    <3> QED
      BY <1>6, <3>1, <3>2 DEF ApplyPVC
  <2>2. pvc' \in {"none", "owned", "preserved"} /\ queued' \in BOOLEAN
    BY <1>6 DEF ApplyPVC, TypeOK, PassOK
  <2> QED
    BY <1>6, <2>1, <2>2 DEF ApplyPVC, TypeOK, outside, copies, PassOK
<1>7. CASE ApplyService
  <2>1. PassOK
    <3>1. CASE Goto("networkpolicy") /\ UNCHANGED <<faults, status>>
      BY <3>1, GotoType DEF PCs, PassOK, TypeOK
    <3>2. CASE FailStep("workloadReady")
      BY <3>2, FailStepType
    <3> QED
      BY <1>7, <3>1, <3>2 DEF ApplyService
  <2>2. net' \in SUBSET Kinds /\ queued' \in BOOLEAN
    BY <1>7 DEF ApplyService, TypeOK, Kinds
  <2> QED
    BY <1>7, <2>1, <2>2 DEF ApplyService, TypeOK, outside, copies, PassOK
<1>8. CASE ApplyNetworkPolicy
  <2>1. PassOK
    <3>1. CASE Goto("observe") /\ UNCHANGED <<faults, status>>
      BY <3>1, GotoType DEF PCs, PassOK, TypeOK
    <3>2. CASE FailStep("workloadReady")
      BY <3>2, FailStepType
    <3> QED
      BY <1>8, <3>1, <3>2 DEF ApplyNetworkPolicy
  <2>2. net' \in SUBSET Kinds
    BY <1>8 DEF ApplyNetworkPolicy, TypeOK, Kinds
  <2> QED
    BY <1>8, <2>1, <2>2 DEF ApplyNetworkPolicy, TypeOK, outside, copies, PassOK
<1>9. CASE ApplyStatefulSet
  <2>1. PassOK
    <3>1. CASE /\ rec' = [rec EXCEPT !.pc = "service", !.drift = statefulSetTemplateHash # rec.hash]
               /\ UNCHANGED <<timer, faults, status>>
      BY <3>1 DEF TypeOK, Recs, PCs, PassOK
    <3>2. CASE FailStep("workloadReady")
      BY <3>2, FailStepType
    <3> QED
      BY <1>9, <3>1, <3>2 DEF ApplyStatefulSet, BuildStatefulSet
  <2>2. sts' \in StatefulSets
    <3>1. statefulSetTemplateHash \in ConfigOrNone
      BY DEF statefulSetTemplateHash, TypeOK, StatefulSets, Recs
    <3>2. \/ sts' = sts
          \/ sts' = [exists |-> TRUE, replicas |-> 1, hash |-> statefulSetTemplateHash]
      BY <1>9 DEF ApplyStatefulSet, BuildStatefulSet
    <3>3. [exists |-> TRUE, replicas |-> 1, hash |-> statefulSetTemplateHash] \in StatefulSets
      BY <3>1 DEF StatefulSets
    <3> QED
      BY <3>2, <3>3 DEF TypeOK
  <2>3. pod' \in Pods
    BY <1>9 DEF ApplyStatefulSet, BuildStatefulSet, TypeOK, Pods
  <2> QED
    BY <1>9, <2>1, <2>2, <2>3 DEF ApplyStatefulSet, BuildStatefulSet, TypeOK, outside, copies, PassOK
<1>10. CASE ComputeWorkloadStatus
  <2>1. PassOK
    <3>1. CASE /\ rec' = [rec EXCEPT !.pc = "patch", !.ready = pod.phase = "ready"]
               /\ UNCHANGED <<timer, status, faults>>
      BY <3>1 DEF TypeOK, Recs, PCs, PassOK
    <3>2. CASE failReconcile("workloadReady", "ReconcileError") /\ UNCHANGED faults
      BY <3>2, FailReconcileType DEF PassOK, TypeOK, ConfigReasons
    <3>3. CASE FailStep("workloadReady")
      BY <3>3, FailStepType
    <3> QED
      BY <1>10, <3>1, <3>2, <3>3 DEF ComputeWorkloadStatus
  <2> QED
    BY <1>10, <2>1 DEF ComputeWorkloadStatus, TypeOK, objects, outside, copies, PassOK
<1>11. CASE PatchSuccess
  <2>1. lost' \in BOOLEAN
    BY <1>11 DEF PatchSuccess, TypeOK, Current
  <2>2. PassOK
    <3>1. CASE RetryStep
      BY <3>1, RetryStepType
    <3>2. CASE ~RetryStep
      <4>1. PICK w \in WorkloadReasons :
              /\ patchTradeBotStatus([beta.status EXCEPT !.configResolved = "AsExpected",
                    !.workloadReady = w, !.ready = rec.ready, !.drift = rec.drift,
                    !.applied = rec.hash])
              /\ UNCHANGED faults
        BY <1>11, <3>2 DEF PatchSuccess, WorkloadReasons
      <4>2. rec.ready \in BOOLEAN /\ rec.drift \in BOOLEAN /\ rec.hash \in ConfigOrNone
        BY DEF TypeOK, Recs
      <4>3. [beta.status EXCEPT !.configResolved = "AsExpected", !.workloadReady = w,
               !.ready = rec.ready, !.drift = rec.drift, !.applied = rec.hash] \in Statuses
        BY <4>2 DEF TypeOK, Statuses, ConfigReasons
      <4>4. status' \in Statuses
        BY <4>1, <4>3, PatchType
      <4>5. \/ Return(TRUE)
            \/ /\ rec' = [rec EXCEPT !.pc = "state", !.reach = beta.status.reachable = "True",
                                     !.obs = beta.status.botState]
               /\ UNCHANGED timer
        BY <1>11, <3>2 DEF PatchSuccess
      <4>6. rec' \in Recs /\ timer' \in BOOLEAN
        BY <4>5, ReturnType DEF TypeOK, Statuses, Recs, PCs
      <4> QED
        BY <4>1, <4>4, <4>6 DEF PassOK, TypeOK
    <3> QED
      BY <3>1, <3>2
  <2> QED
    BY <1>11, <2>1, <2>2 DEF PatchSuccess, TypeOK, objects, outside, copies, PassOK
<1>0. ASSUME NEW r \in StateReasons, NEW q \in BOOLEAN, RecordState(r, q) PROVE PassOK
  <2>1. [beta.status EXCEPT !.stateReconciled = r] \in Statuses
    BY DEF TypeOK, Statuses
  <2>2. status' \in Statuses
    BY <1>0, <2>1, PatchType DEF RecordState
  <2>3. ASSUME NEW new PROVE (q \/ ~Accepts(new)) \in BOOLEAN
    BY DEF Accepts
  <2>4. rec' \in Recs /\ timer' \in BOOLEAN
    BY <1>0, <2>3, ReturnType DEF RecordState
  <2> QED
    BY <1>0, <2>2, <2>4 DEF PassOK, TypeOK, RecordState
<1>12. CASE ReconcileState
  <2>0. defaultRequeueAfter \in BOOLEAN
    BY DEF defaultRequeueAfter
  <2>1. PassOK
    <3>1. ASSUME NEW r \in StateReasons, RecordState(r, defaultRequeueAfter) PROVE PassOK
      BY <1>0, <2>0, <3>1
    <3>2. CASE /\ rec' = [rec EXCEPT !.pc = "call", !.want = beta.spec.state]
               /\ UNCHANGED <<timer, status, faults>>
      BY <3>2 DEF TypeOK, Specs, Recs, PCs, PassOK
    <3>3. CASE RetryStep
      BY <3>3, RetryStepType
    <3>4. CASE Return(defaultRequeueAfter) /\ UNCHANGED <<status, faults>>
      BY <2>0, <3>4, ReturnType DEF PassOK, TypeOK
    <3> QED
      BY <1>12, <3>1, <3>2, <3>3, <3>4 DEF ReconcileState, StateReasons
  <2> QED
    BY <1>12, <2>1 DEF ReconcileState, TypeOK, objects, outside, copies, PassOK
<1>13. CASE StateCall
  <2>1. pod' \in Pods
    BY <1>13 DEF StateCall, TypeOK, Pods, Recs
  <2>2. rec' \in Recs
    BY <1>13 DEF StateCall, Goto, TypeOK, Recs, PCs
  <2>3. faults' \in 0..MaxFaults
    BY <1>13, BoundsAssumption DEF StateCall, Fault, TypeOK
  <2> QED
    BY <1>13, <2>1, <2>2, <2>3 DEF StateCall, TypeOK, outside, copies
<1>14. CASE StateConfirm
  <2>1. CASE RetryStep
    BY <1>14, <2>1, RetryStepType DEF StateConfirm, TypeOK, objects, outside, copies, PassOK
  <2>2. CASE ~RetryStep
    <3>1. (rec.changed \/ defaultRequeueAfter) \in BOOLEAN
      BY DEF defaultRequeueAfter
    <3>2. PassOK
      BY <1>0, <1>14, <2>2, <3>1 DEF StateConfirm, StateReasons
    <3> QED
      BY <1>14, <3>2 DEF StateConfirm, TypeOK, objects, outside, copies, PassOK
  <2> QED
    BY <2>1, <2>2
<1>15. CASE Finalize
  <2>1. sts' \in StatefulSets
    BY <1>15 DEF Finalize, TypeOK, StatefulSets
  <2>2. PassOK
    <3>1. CASE /\ rec' = [rec EXCEPT !.pc = "preserve",
                                     !.unseen = ~stsSeen.exists /\ sts.exists]
               /\ UNCHANGED <<timer, faults, status>>
      BY <3>1 DEF PCs, PassOK, TypeOK, Recs, StatefulSets
    <3>2. CASE Return(TRUE) /\ UNCHANGED <<faults, status>>
      BY <3>2, ReturnType DEF PassOK, TypeOK
    <3>3. CASE RetryStep
      BY <3>3, RetryStepType
    <3> QED
      BY <1>15, <3>1, <3>2, <3>3 DEF Finalize
  <2> QED
    BY <1>15, <2>1, <2>2 DEF Finalize, TypeOK, outside, copies, PassOK
<1>16. CASE PreservePVC
  <2>1. faults' \in 0..MaxFaults
    BY <1>16, BoundsAssumption DEF PreservePVC, Fault, TypeOK
  <2>2. rec' \in Recs /\ timer' \in BOOLEAN
    BY <1>16, GotoType DEF PreservePVC, PCs
  <2>3. pvc' \in {"none", "owned", "preserved"}
    BY <1>16 DEF PreservePVC, TypeOK
  <2> QED
    BY <1>16, <2>1, <2>2, <2>3 DEF PreservePVC, TypeOK, outside, copies
<1>17. CASE RemoveFinalizer
  <2>1. spec' \in Specs
    BY <1>17 DEF RemoveFinalizer, TypeOK, Specs
  <2>2. PassOK
    <3>1. ASSUME NEW r \in BOOLEAN, Return(r), UNCHANGED <<faults, status>> PROVE PassOK
      BY <3>1, ReturnType DEF PassOK, TypeOK
    <3>2. CASE RetryStep
      BY <3>2, RetryStepType
    <3> QED
      BY <1>17, <3>1, <3>2 DEF RemoveFinalizer
  <2> QED
    BY <1>17, <2>1, <2>2 DEF RemoveFinalizer, TypeOK, objects, outside, copies, PassOK
<1> QED
  BY <1>1, <1>2, <1>3, <1>4, <1>5, <1>6, <1>7, <1>8, <1>9, <1>10, <1>11, <1>12, <1>13, <1>14, <1>15, <1>16, <1>17 DEF Reconcile

\* Every step of the queue, the user, the cluster and the poller does so too.
LEMMA EnvironmentType ==
  ASSUME TypeOK,
         \/ TimerFires \/ InformerSync \/ AlphaSync \/ BetaSync \/ OperatorRestart
         \/ User \/ Cluster \/ GracePasses \/ PollRead \/ PollWrite
  PROVE  TypeOK'
<1>1. CASE TimerFires
  BY <1>1 DEF TimerFires, TypeOK, objects, outside, copies
<1>2. CASE InformerSync
  BY <1>2 DEF InformerSync, TypeOK, objects, outside, copies
<1>3. CASE OperatorRestart
  <2>1. rec' \in Recs /\ poll' \in Polls
    BY <1>3 DEF OperatorRestart, Recs, IdleRec, PCs, RunStates, ConfigOrNone, Polls, NoPoll
  <2>2. faults' \in 0..MaxFaults
    BY <1>3, BoundsAssumption DEF OperatorRestart, Fault, TypeOK
  <2>3. timer' \in BOOLEAN /\ queued' \in BOOLEAN
    BY <1>3 DEF OperatorRestart, TypeOK, Specs
  <2>4. specSeen' \in Specs /\ beta' \in [spec: Specs, status: Statuses]
    BY <1>3 DEF OperatorRestart, TypeOK
  <2> QED
    BY <1>3, <2>1, <2>2, <2>3, <2>4 DEF OperatorRestart, TypeOK, objects, copies
<1>13. CASE AlphaSync
  BY <1>13 DEF AlphaSync, TypeOK, objects, outside, copies
<1>14. CASE BetaSync
  <2>1. beta' \in [spec: Specs, status: Statuses]
    BY <1>14 DEF BetaSync, TypeOK
  <2> QED
    BY <1>14, <2>1 DEF BetaSync, TypeOK, objects, outside, copies
<1>4. CASE User
  <2>1. edits' \in 0..MaxEdits
    <3>1. Edit
      BY <1>4 DEF User, EditSpec, EditConfig, SupplySecret, DeleteTradeBot,
                  DeleteService, RolloutRestart
    <3> QED
      BY <3>1, BoundsAssumption DEF Edit, TypeOK
  <2>2. CASE EditSpec
    <3>1. spec' \in Specs
      <4>1. spec \in Specs /\ spec.generation + 1 \in Nat
        BY DEF TypeOK, Specs
      <4>2. ASSUME NEW b \in BOOLEAN PROVE [spec EXCEPT !.preserve = b] \in Specs
        BY <4>1 DEF Specs
      <4>3. ASSUME NEW s \in RunStates, NEW a \in BOOLEAN, NEW q \in BOOLEAN,
                   NEW g \in Nat
            PROVE  [spec EXCEPT !.state = s, !.auto = a, !.preserve = q,
                                !.generation = g] \in Specs
        BY <4>1 DEF Specs
      <4>4. CASE spec' = [spec EXCEPT !.preserve = ~@]
        <5>1. (~spec.preserve) \in BOOLEAN
          OBVIOUS
        <5> QED
          BY <4>2, <4>4, <5>1
      <4>5. CASE spec' # [spec EXCEPT !.preserve = ~@]
        <5>1. PICK s \in RunStates, a \in BOOLEAN, q \in BOOLEAN :
                spec' = [spec EXCEPT !.state = s, !.auto = a, !.preserve = q,
                                     !.generation = @ + 1]
          BY <2>2, <4>5 DEF EditSpec
        <5>2. PICK g \in Nat : g = spec.generation + 1
          BY <4>1
        <5>3. spec' = [spec EXCEPT !.state = s, !.auto = a, !.preserve = q,
                                   !.generation = g]
          BY <5>1, <5>2
        <5> QED
          BY <4>3, <5>3
      <4> QED
        BY <4>4, <4>5
    <3> QED
      BY <2>1, <2>2, <3>1 DEF EditSpec, TypeOK, unedited, copies
  <2>3. CASE EditConfig
    BY <2>1, <2>3 DEF EditConfig, TypeOK, unedited, copies
  <2>4. CASE SupplySecret
    BY <2>1, <2>4 DEF SupplySecret, TypeOK, unedited, copies, CfgStates
  <2>5. CASE DeleteTradeBot
    <3>1. spec' \in Specs
      <4>1. spec \in Specs /\ spec.generation + 1 \in Nat /\ spec.finalizer \in BOOLEAN
        BY DEF TypeOK, Specs
      <4>2. ASSUME NEW f \in BOOLEAN, NEW g \in Nat
            PROVE  [spec EXCEPT !.deleting = f, !.exists = f, !.generation = g] \in Specs
        BY <4>1 DEF Specs
      <4> QED
        BY <2>5, <4>1, <4>2 DEF DeleteTradeBot
    <3> QED
      BY <2>1, <2>5, <3>1 DEF DeleteTradeBot, TypeOK, unedited, copies
  <2>6. CASE DeleteService
    BY <2>1, <2>6 DEF DeleteService, TypeOK, unedited, copies
  <2>7. CASE RolloutRestart
    <3>1. pod' \in Pods
      BY <2>7 DEF RolloutRestart, TypeOK, Pods
    <3> QED
      BY <2>1, <2>7, <3>1 DEF RolloutRestart, TypeOK, unedited, copies
  <2> QED
    BY <1>4, <2>2, <2>3, <2>4, <2>5, <2>6, <2>7 DEF User
<1>5. CASE PodStart
  <2>1. pod' \in Pods
    BY <1>5 DEF PodStart, Pods
  <2> QED
    BY <1>5, <2>1 DEF PodStart, TypeOK, outside, copies
<1>6. CASE PodReady
  <2>1. pod' \in Pods
    BY <1>6 DEF PodReady, TypeOK, Pods
  <2> QED
    BY <1>6, <2>1 DEF PodReady, TypeOK, outside, copies
<1>7. CASE PodStop
  <2>1. pod' \in Pods
    BY <1>7 DEF PodStop, Pods, NoPod, RunStates
  <2> QED
    BY <1>7, <2>1 DEF PodStop, TypeOK, outside, copies
<1>8. CASE PodCrash
  <2>1. pod' \in Pods
    BY <1>8 DEF PodCrash, Pods, NoPod, RunStates
  <2>2. faults' \in 0..MaxFaults
    BY <1>8, BoundsAssumption DEF PodCrash, Fault, TypeOK
  <2> QED
    BY <1>8, <2>1, <2>2 DEF PodCrash, TypeOK, outside, copies
<1>9. CASE GarbageCollect
  <2>1. pod' \in Pods /\ sts' \in StatefulSets /\ files' \in Files
    BY <1>9 DEF GarbageCollect, Pods, NoPod, RunStates, StatefulSets,
                NoSts, Files, ConfigOrNone
  <2>2. pvc' \in {"none", "owned", "preserved"} /\ net' \in SUBSET Kinds
    BY <1>9 DEF GarbageCollect, TypeOK
  <2> QED
    BY <1>9, <2>1, <2>2 DEF GarbageCollect, TypeOK, outside, copies
<1>10. CASE GracePasses
  BY <1>10 DEF GracePasses, TypeOK, objects, copies
<1>11. CASE PollRead
  <2>1. poll' \in Polls
    <3>1. pod.trading \in RunStates
      BY DEF TypeOK, Pods
    <3>2. \/ \E up \in BOOLEAN : poll' = [busy |-> TRUE, ok |-> up,
                                          trading |-> IF up THEN pod.trading ELSE "Running"]
          \/ poll' = [NoPoll EXCEPT !.busy = TRUE]
      BY <1>11 DEF PollRead
    <3>3. [NoPoll EXCEPT !.busy = TRUE] \in Polls
      BY DEF Polls, NoPoll, RunStates
    <3>4. ASSUME NEW up \in BOOLEAN, NEW x \in RunStates
          PROVE  [busy |-> TRUE, ok |-> up, trading |-> x] \in Polls
      BY DEF Polls
    <3>5. ASSUME NEW up \in BOOLEAN
          PROVE  (IF up THEN pod.trading ELSE "Running") \in RunStates
      BY <3>1 DEF RunStates
    <3> QED
      BY <3>2, <3>3, <3>4, <3>5
  <2>2. faults' \in 0..MaxFaults
    BY <1>11, BoundsAssumption DEF PollRead, Fault, TypeOK
  <2> QED
    BY <1>11, <2>1, <2>2 DEF PollRead, TypeOK, objects, copies
<1>12. CASE PollWrite
  <2>1. poll' \in Polls
    BY <1>12 DEF PollWrite, Polls, NoPoll, RunStates
  <2>2. ASSUME NEW r \in {"True", "False"}, NEW b \in RunStates \cup {"unknown"}
        PROVE [beta.status EXCEPT !.reachable = r, !.botState = b] \in Statuses
    BY DEF TypeOK, Statuses
  <2>3. poll.trading \in RunStates /\ beta.status.botState \in RunStates \cup {"unknown"}
    BY DEF TypeOK, Polls, Statuses
  <2>4. status' \in Statuses
    BY <1>12, <2>2, <2>3, PatchType DEF PollWrite
  <2> QED
    BY <1>12, <2>1, <2>4 DEF PollWrite, TypeOK, objects, copies
<1> QED
  BY <1>1, <1>2, <1>3, <1>4, <1>5, <1>6, <1>7, <1>8, <1>9, <1>10, <1>11, <1>12,
     <1>13, <1>14 DEF Cluster

\* The state stays well typed: no pass, however it fails or is interleaved, writes a
\* reason, hash or program counter outside its set.
THEOREM TypeCorrect == Spec => []TypeOK
<1>1. TypeOK /\ [Next]_vars => TypeOK'
  <2> SUFFICES ASSUME TypeOK, [Next]_vars PROVE TypeOK'
    OBVIOUS
  <2>1. CASE UNCHANGED vars
    BY <2>1 DEF vars, TypeOK
  <2>2. CASE Next
    BY <2>2, ReconcileType, EnvironmentType DEF Next
  <2> QED
    BY <2>1, <2>2
<1> QED
  BY InitType, <1>1, PTL DEF Spec

-----------------------------------------------------------------------------
(* The inductive invariant behind the safety theorems.                     *)

Rendering == {"secret", "configmap", "pvc", "statefulset"}
Finalizing == {"finalize", "preserve", "removeFinalizer"}

\* No pass gets as far as resolving the references of a Job-mode object.
JobNeverApplied == spec.job => rec.pc \in {"idle", "addFinalizer"} \cup Finalizing

\* The hashes in play are hashes of rendered configurations, never "".
HashesRendered ==
    /\ sts.exists => sts.hash \in Configs
    /\ ~stsSeen.exists => stsSeen.hash = NoConfig
    /\ ~sts.exists => sts.hash = NoConfig
    /\ rec.pc \in Rendering => rec.hash \in Configs

\* A pod comes and goes with its StatefulSet.
PodNeedsSet == ~sts.exists => pod.phase = "none"

\* Only an object with a finalizer waits for its deletion; it goes with the finalizer.
DeletionHeld ==
    /\ spec.exists /\ spec.deleting => spec.finalizer
    /\ spec.finalizer => spec.exists

\* The v1alpha1 copy is an earlier state of the object: a deletion it shows is
\* under way, a finalizer it shows is still there unless that deletion took it
\* off, and with the same generation it is the same but for finalizer and
\* annotation.
SeenBefore ==
    /\ specSeen.job = spec.job
    /\ spec.exists => specSeen.exists
    /\ specSeen.deleting => spec.deleting
    /\ specSeen.exists /\ specSeen.deleting => specSeen.finalizer
    /\ specSeen.finalizer /\ ~specSeen.deleting => spec.exists /\ spec.finalizer
    /\ specSeen.generation <= spec.generation
    /\ specSeen.generation = spec.generation =>
         specSeen.auto = spec.auto /\ specSeen.deleting = spec.deleting

\* The v1beta1 informer knows an object that was given a finalizer.
BetaKnows == spec.finalizer /\ ~spec.job => beta.spec.exists

\* Only an object seen to be under deletion is finalized.
FinalizesDeleted == rec.pc \in Finalizing => specSeen.deleting

\* Replicas are set to zero for good: no pass that applies comes after one that
\* finalizes.
Zero(s) == s.exists /\ s.replicas = 0

ZeroIsFinal ==
    /\ Zero(sts) \/ Zero(stsSeen) =>
         specSeen.deleting /\ rec.pc \in {"idle"} \cup Finalizing
    /\ Zero(stsSeen) /\ sts.exists => sts.replicas = 0

\* Once the finalizer has decided to go on, no pod can start again, unless it did
\* not see the StatefulSet.
ScaledDown ==
    rec.pc \in {"preserve", "removeFinalizer"}
        => \/ late \/ rec.unseen
           \/ pod.phase = "none" /\ (sts.exists => sts.replicas = 0)

Inv ==
    /\ HoldsFinalizer /\ JobNeverApplied /\ JobModeNeverTrades
    /\ HashesRendered /\ PodNeedsSet
    /\ DeletionHeld /\ SeenBefore /\ BetaKnows
    /\ FinalizesDeleted /\ ZeroIsFinal /\ ScaledDown

\* A pass that ends without having touched the object, its StatefulSet, pod and files
\* leaves the invariant as it was.
LEMMA EndKeeps ==
  ASSUME Inv, rec'.pc = "idle", UNCHANGED <<spec, copies, sts, pod, files>>
  PROVE  Inv'
BY DEF Inv, HoldsFinalizer, JobNeverApplied, JobModeNeverTrades, HashesRendered,
       PodNeedsSet, DeletionHeld, SeenBefore, BetaKnows, FinalizesDeleted, ZeroIsFinal,
       Zero, ScaledDown, Rendering, Finalizing, copies

\* Where each way of ending a step leaves the program counter.
LEMMA ReturnPc == ASSUME NEW r, Return(r) PROVE rec'.pc = "idle"
BY DEF Return, IdleRec

\* Every failure ends the pass.
LEMMA FailPc ==
  ASSUME NEW c, \/ FailStep(c) \/ RetryStep \/ \E r \in ConfigReasons : failReconcile(c, r)
  PROVE  rec'.pc = "idle"
BY ReturnPc DEF FailStep, RetryStep, failReconcile

\* Going on keeps the hash the pass resolved.
LEMMA GotoPc ==
  ASSUME TypeOK, NEW p \in PCs, Goto(p)
  PROVE  rec'.pc = p /\ rec'.hash = rec.hash
BY DEF TypeOK, Goto, Recs

\* The invariant holds initially.
LEMMA InitInv == Init => Inv
<1> SUFFICES ASSUME Init PROVE Inv
  OBVIOUS
<1>1. /\ spec.exists /\ ~spec.deleting /\ (spec.finalizer => spec.job)
      /\ spec.generation = 1 /\ specSeen = spec /\ rec.pc = "idle"
  BY DEF Init, IdleRec
<1>2. ~sts.exists /\ ~stsSeen.exists /\ pod = NoPod /\ pod.phase = "none"
      /\ sts.hash = NoConfig /\ stsSeen.hash = NoConfig /\ files.config = NoConfig
  BY DEF Init, NoSts, NoPod
<1> QED
  BY <1>1, <1>2 DEF Inv, HoldsFinalizer, JobNeverApplied, JobModeNeverTrades,
     HashesRendered, PodNeedsSet, DeletionHeld, SeenBefore, BetaKnows, FinalizesDeleted,
     ZeroIsFinal, Zero, ScaledDown, Rendering, Finalizing

\* A step of Reconcile preserves the invariant.
LEMMA ReconcileInv == ASSUME TypeOK, Inv, Reconcile PROVE Inv'
<1> USE DEF HoldsFinalizer, JobNeverApplied, JobModeNeverTrades, HashesRendered,
            PodNeedsSet, DeletionHeld, SeenBefore, BetaKnows, FinalizesDeleted,
            ZeroIsFinal, Zero, ScaledDown
<1>1. CASE Fetch
  <2>0. UNCHANGED <<spec, copies, sts, pod, files, late>>
    BY <1>1 DEF Fetch, objects, outside
  <2>1. CASE rec'.pc = "idle"
    BY <2>0, <2>1, EndKeeps
  <2>2. CASE rec'.pc # "idle"
    <3>1. /\ specSeen.exists /\ (specSeen.deleting => specSeen.finalizer)
          /\ ~(specSeen.finalizer /\ ~specSeen.deleting /\ specSeen.job)
          /\ rec'.pc = CASE specSeen.deleting -> "finalize"
                        [] ~specSeen.deleting /\ ~specSeen.finalizer -> "addFinalizer"
                        [] OTHER -> "resolve"
      BY <1>1, <2>2, ReturnPc, FailPc DEF Fetch, jobMode, IdleRec, ConfigReasons
    <3>2. rec.pc = "idle"
      BY <1>1 DEF Fetch
    <3> QED
      BY <2>0, <3>1, <3>2 DEF Inv, Rendering, Finalizing, copies
  <2> QED
    BY <2>1, <2>2
<1>2. CASE AddFinalizer
  <2>1. rec'.pc = "idle" /\ UNCHANGED <<copies, sts, pod, files, late>>
    BY <1>2, ReturnPc, FailPc DEF AddFinalizer, objects, outside
  <2>2. /\ spec'.job = spec.job /\ spec'.exists = spec.exists
        /\ spec'.deleting = spec.deleting /\ spec'.auto = spec.auto
        /\ spec'.generation = spec.generation
        /\ (spec.finalizer => spec'.finalizer)
        /\ spec'.finalizer => spec.finalizer \/ (beta.spec.exists /\ spec.exists)
    <3>1. ASSUME NEW b \in BOOLEAN, spec' = [spec EXCEPT !.finalizer = @ \/ b]
          PROVE  /\ spec'.job = spec.job /\ spec'.exists = spec.exists
                 /\ spec'.deleting = spec.deleting /\ spec'.auto = spec.auto
                 /\ spec'.generation = spec.generation
                 /\ spec'.finalizer <=> (spec.finalizer \/ b)
      BY <3>1 DEF TypeOK, Specs
    <3>2. FinalizerStored \in BOOLEAN
      BY DEF FinalizerStored, Known, Current, Admitted, TypeOK, Specs
    <3>3. FinalizerStored => beta.spec.exists /\ beta.spec = spec
      BY DEF FinalizerStored, Known, Current
    <3> QED
      BY <1>2, <3>1, <3>2, <3>3 DEF AddFinalizer
  <2> QED
    BY <2>1, <2>2 DEF Inv, Rendering, Finalizing, copies
<1>3. CASE ResolveConfig
  <2>0. rec.pc = "resolve" /\ UNCHANGED <<spec, sts, pod, files, copies, late>>
    BY <1>3 DEF ResolveConfig, objects, outside
  <2>1. rec'.pc = "idle" \/ (rec'.pc = "secret" /\ rec'.hash \in Configs)
    BY <1>3, FailPc DEF ResolveConfig, TypeOK, Recs, ConfigReasons
  <2> QED
    BY <2>0, <2>1, EndKeeps DEF Inv, Rendering, Finalizing, copies
<1>4. CASE ApplySecret
  <2>0. rec.pc = "secret" /\ UNCHANGED <<spec, sts, pod, copies, late>>
    BY <1>4 DEF ApplySecret, outside
  <2>1. CASE rec'.pc = "idle" /\ UNCHANGED files
    BY <2>0, <2>1, EndKeeps
  <2>2. CASE rec'.pc = "configmap" /\ rec'.hash = rec.hash
    BY <2>0, <2>2 DEF Inv, Rendering, Finalizing, copies
  <2> QED
    BY <1>4, <2>1, <2>2, FailPc, GotoPc DEF ApplySecret, PCs
<1>5. CASE ApplyStrategyConfigMap
  <2>0. rec.pc = "configmap" /\ UNCHANGED <<spec, sts, pod, copies, late>>
    BY <1>5 DEF ApplyStrategyConfigMap, outside
  <2>1. CASE rec'.pc = "idle" /\ UNCHANGED files
    BY <2>0, <2>1, EndKeeps
  <2>2. CASE rec'.pc = "pvc" /\ rec'.hash = rec.hash
    BY <2>0, <2>2 DEF Inv, Rendering, Finalizing, copies
  <2> QED
    BY <1>5, <2>1, <2>2, FailPc, GotoPc DEF ApplyStrategyConfigMap, PCs
<1>6. CASE ApplyPVC
  <2>0. rec.pc = "pvc" /\ UNCHANGED <<spec, sts, pod, files, copies, late>>
    BY <1>6 DEF ApplyPVC, outside
  <2>1. rec'.pc = "idle" \/ (rec'.pc = "statefulset" /\ rec'.hash = rec.hash)
    BY <1>6, FailPc, GotoPc DEF ApplyPVC, PCs
  <2> QED
    BY <2>0, <2>1, EndKeeps DEF Inv, Rendering, Finalizing, copies
<1>7. CASE ApplyService
  <2>0. rec.pc = "service" /\ UNCHANGED <<spec, sts, pod, files, copies, late>>
    BY <1>7 DEF ApplyService, outside
  <2>1. rec'.pc = "idle" \/ (rec'.pc = "networkpolicy" /\ rec'.hash = rec.hash)
    BY <1>7, FailPc, GotoPc DEF ApplyService, PCs
  <2> QED
    BY <2>0, <2>1, EndKeeps DEF Inv, Rendering, Finalizing, copies
<1>8. CASE ApplyNetworkPolicy
  <2>0. rec.pc = "networkpolicy" /\ UNCHANGED <<spec, sts, pod, files, copies, late>>
    BY <1>8 DEF ApplyNetworkPolicy, outside
  <2>1. rec'.pc = "idle" \/ (rec'.pc = "observe" /\ rec'.hash = rec.hash)
    BY <1>8, FailPc, GotoPc DEF ApplyNetworkPolicy, PCs
  <2> QED
    BY <2>0, <2>1, EndKeeps DEF Inv, Rendering, Finalizing, copies
<1>9. CASE ApplyStatefulSet
  <2>0. rec.pc = "statefulset" /\ UNCHANGED <<spec, files, copies, late>>
    BY <1>9 DEF ApplyStatefulSet, BuildStatefulSet, outside
  <2>1. CASE FailStep("workloadReady") /\ UNCHANGED <<sts, pod>>
    BY <2>0, <2>1, FailPc, EndKeeps
  <2>2. CASE /\ sts' = [exists |-> TRUE, replicas |-> 1, hash |-> statefulSetTemplateHash]
             /\ rec' = [rec EXCEPT !.pc = "service",
                                   !.drift = statefulSetTemplateHash # rec.hash]
    <3>1. /\ sts'.exists /\ sts'.hash = statefulSetTemplateHash /\ sts'.replicas = 1
          /\ rec'.pc = "service"
      BY <2>2 DEF TypeOK, Recs
    <3>2. statefulSetTemplateHash \in Configs
      BY <2>0 DEF Inv, statefulSetTemplateHash, Rendering, TypeOK, StatefulSets, ConfigOrNone
    <3> QED
      BY <2>0, <3>1, <3>2 DEF Inv, Rendering, Finalizing, copies
  <2> QED
    BY <1>9, <2>1, <2>2 DEF ApplyStatefulSet, BuildStatefulSet
<1>10. CASE ComputeWorkloadStatus
  <2>0. rec.pc = "observe" /\ UNCHANGED <<spec, sts, pod, files, copies, late>>
    BY <1>10 DEF ComputeWorkloadStatus, objects, outside
  <2>1. rec'.pc \in {"idle", "patch"}
    BY <1>10, FailPc, ReturnPc DEF ComputeWorkloadStatus, ConfigReasons, TypeOK, Recs
  <2> QED
    BY <2>0, <2>1, EndKeeps DEF Inv, Rendering, Finalizing, copies
<1>11. CASE PatchSuccess
  <2>0. rec.pc = "patch" /\ UNCHANGED <<spec, sts, pod, files, copies, late>>
    BY <1>11 DEF PatchSuccess, objects, outside
  <2>1. rec'.pc \in {"idle", "state"}
    BY <1>11, FailPc, ReturnPc DEF PatchSuccess, TypeOK, Recs
  <2> QED
    BY <2>0, <2>1, EndKeeps DEF Inv, Rendering, Finalizing, copies
<1>12. CASE ReconcileState
  <2>0. rec.pc = "state" /\ UNCHANGED <<spec, sts, pod, files, copies, late>>
    BY <1>12 DEF ReconcileState, objects, outside
  <2>1. rec'.pc \in {"idle", "call"}
    BY <1>12, FailPc, ReturnPc DEF ReconcileState, RecordState, TypeOK, Recs
  <2> QED
    BY <2>0, <2>1, EndKeeps DEF Inv, Rendering, Finalizing, copies
<1>13. CASE StateCall
  <2>0. rec.pc = "call" /\ UNCHANGED <<spec, sts, files, copies, late>>
    BY <1>13 DEF StateCall, outside
  <2>1. rec'.pc = "confirm" /\ pod'.phase = pod.phase
    BY <1>13 DEF StateCall, Goto, TypeOK, Recs, Pods
  <2> QED
    BY <2>0, <2>1 DEF Inv, Rendering, Finalizing, copies
<1>14. CASE StateConfirm
  <2>1. rec'.pc = "idle" /\ UNCHANGED <<spec, sts, pod, files, copies, late>>
    BY <1>14, FailPc, ReturnPc DEF StateConfirm, RecordState, objects, outside
  <2> QED
    BY <2>1, EndKeeps
<1>15. CASE Finalize
  <2>0. rec.pc = "finalize" /\ UNCHANGED <<spec, copies, files, pod, late>>
    BY <1>15 DEF Finalize, outside
  <2>1. sts'.exists = sts.exists /\ sts'.hash = sts.hash /\ (sts.replicas = 0 => sts'.replicas = 0)
    BY <1>15 DEF Finalize, TypeOK, StatefulSets
  <2>2. \/ rec'.pc = "idle"
        \/ /\ rec'.pc = "preserve"
           /\ rec'.unseen = (~stsSeen.exists /\ sts.exists)
           /\ ~stsSeen.exists \/ (stsSeen.replicas = 0 /\ pod.phase = "none") \/ late
    BY <1>15, FailPc, ReturnPc DEF Finalize, scaledDown, TypeOK, Recs
  <2> QED
    BY <2>0, <2>1, <2>2 DEF Inv, Rendering, Finalizing, copies
<1>16. CASE PreservePVC
  <2>1. /\ rec.pc = "preserve" /\ rec'.pc = "removeFinalizer" /\ rec'.unseen = rec.unseen
        /\ UNCHANGED <<spec, copies, sts, pod, files, late>>
    BY <1>16 DEF PreservePVC, Goto, outside, TypeOK, Recs
  <2> QED
    BY <2>1 DEF Inv, Rendering, Finalizing, copies
<1>17. CASE RemoveFinalizer
  <2>1. /\ rec.pc = "removeFinalizer" /\ rec'.pc = "idle"
        /\ UNCHANGED <<copies, sts, pod, files, late>>
    BY <1>17, FailPc, ReturnPc DEF RemoveFinalizer, objects, outside
  <2>2. /\ spec'.job = spec.job /\ spec'.deleting = spec.deleting /\ spec'.auto = spec.auto
        /\ spec'.generation = spec.generation
        /\ (spec'.exists => spec.exists) /\ (spec'.finalizer => spec.finalizer)
        /\ spec'.exists => spec'.finalizer = spec.finalizer
        /\ ~spec'.exists => ~spec'.finalizer \/ spec' = spec
    BY <1>17 DEF RemoveFinalizer, TypeOK, Specs
  <2>3. specSeen.deleting
    BY <2>1 DEF Inv, Finalizing
  <2> QED
    BY <2>1, <2>2, <2>3 DEF Inv, Rendering, Finalizing, copies
<1> QED
  BY <1>1, <1>2, <1>3, <1>4, <1>5, <1>6, <1>7, <1>8, <1>9, <1>10, <1>11, <1>12, <1>13, <1>14, <1>15, <1>16, <1>17 DEF Reconcile

\* So does a step of anything else.
LEMMA EnvironmentInv ==
  ASSUME TypeOK, Inv,
         \/ TimerFires \/ InformerSync \/ AlphaSync \/ BetaSync \/ OperatorRestart
         \/ User \/ Cluster \/ GracePasses \/ PollRead \/ PollWrite
  PROVE  Inv'
<1> USE DEF HoldsFinalizer, JobNeverApplied, JobModeNeverTrades, HashesRendered,
            PodNeedsSet, DeletionHeld, SeenBefore, BetaKnows, FinalizesDeleted,
            ZeroIsFinal, Zero, ScaledDown
<1>1. CASE TimerFires \/ PollRead \/ PollWrite
  <2>1. UNCHANGED <<spec, sts, pod, files, copies, late, rec>>
    BY <1>1 DEF TimerFires, PollRead, PollWrite, objects, outside
  <2> QED
    BY <2>1 DEF Inv, Rendering, Finalizing, copies
<1>2. CASE InformerSync
  <2>1. stsSeen' = sts /\ UNCHANGED <<spec, specSeen, beta, sts, pod, files, late, rec>>
    BY <1>2 DEF InformerSync, objects, outside
  <2> QED
    BY <2>1 DEF Inv, Rendering, Finalizing, copies
<1>3. CASE OperatorRestart
  <2>1. /\ rec'.pc = "idle" /\ UNCHANGED <<spec, sts, pod, files>>
        /\ specSeen' = spec /\ beta'.spec = spec /\ stsSeen' = sts
    BY <1>3 DEF OperatorRestart, IdleRec, objects
  <2>2. spec.generation <= spec.generation
    BY DEF TypeOK, Specs
  <2>3. spec.finalizer => spec.exists
    BY <2>1 DEF Inv
  <2> QED
    BY <2>1, <2>2, <2>3 DEF Inv, Rendering, Finalizing
<1>10. CASE AlphaSync
  <2>1. specSeen' = spec /\ UNCHANGED <<spec, beta, stsSeen, sts, pod, files, late, rec>>
    BY <1>10 DEF AlphaSync, objects, outside
  <2>2. spec.generation <= spec.generation
    BY DEF TypeOK, Specs
  <2> QED
    BY <2>1, <2>2 DEF Inv, Rendering, Finalizing
<1>11. CASE BetaSync
  <2>1. /\ beta'.spec = spec
        /\ UNCHANGED <<spec, specSeen, stsSeen, sts, pod, files, late, rec>>
    BY <1>11 DEF BetaSync, objects, outside
  <2> QED
    BY <2>1 DEF Inv, Rendering, Finalizing
<1>4. CASE GracePasses
  <2>1. late' = TRUE /\ UNCHANGED <<spec, sts, pod, files, copies, rec>>
    BY <1>4 DEF GracePasses, objects
  <2> QED
    BY <2>1 DEF Inv, Rendering, Finalizing, copies
<1>5. CASE User
  <2>1. CASE EditSpec \/ DeleteTradeBot
    <3>1. UNCHANGED <<sts, pod, files, copies, late, rec>>
      BY <2>1 DEF EditSpec, DeleteTradeBot, unedited
    <3>2. /\ spec'.job = spec.job /\ spec'.finalizer = spec.finalizer
          /\ spec.exists /\ spec.finalizer => spec'.exists
          /\ spec.exists /\ ~spec.deleting /\ (spec'.deleting => spec.finalizer)
          /\ spec'.generation = spec.generation + 1
             \/ (/\ spec'.generation = spec.generation /\ spec'.auto = spec.auto
                 /\ spec'.deleting = spec.deleting)
      BY <2>1 DEF EditSpec, DeleteTradeBot, TypeOK, Specs, Convertible
    <3>3. specSeen.generation \in Nat /\ spec.generation \in Nat
      BY DEF TypeOK, Specs
    <3> QED
      BY <3>1, <3>2, <3>3 DEF Inv, Rendering, Finalizing, copies
  <2>2. CASE EditConfig \/ SupplySecret \/ DeleteService
    <3>1. UNCHANGED <<spec, sts, pod, files, copies, late, rec>>
      BY <2>2 DEF EditConfig, SupplySecret, DeleteService, unedited
    <3> QED
      BY <3>1 DEF Inv, Rendering, Finalizing, copies
  <2>3. CASE RolloutRestart
    <3>1. UNCHANGED <<spec, sts, files, copies, late, rec>>
      BY <2>3 DEF RolloutRestart, unedited
    <3>2. pod.phase # "none" /\ pod'.phase = pod.phase
      BY <2>3 DEF RolloutRestart, TypeOK, Pods
    <3> QED
      BY <3>1, <3>2 DEF Inv, Rendering, Finalizing, copies, NoPod
  <2> QED
    BY <1>5, <2>1, <2>2, <2>3 DEF User
<1>6. CASE PodStart
  <2>1. /\ sts.exists /\ sts.replicas = 1
        /\ UNCHANGED <<spec, sts, files, copies, late, rec>>
    BY <1>6 DEF PodStart, outside
  <2> QED
    BY <2>1 DEF Inv, Rendering, Finalizing, copies
<1>7. CASE PodReady
  <2>1. /\ pod.phase # "none" /\ pod'.phase = "ready"
        /\ UNCHANGED <<spec, sts, files, copies, late, rec>>
    BY <1>7 DEF PodReady, outside, TypeOK, Pods
  <2> QED
    BY <2>1 DEF Inv, Rendering, Finalizing, copies, NoPod
<1>8. CASE PodStop \/ PodCrash
  <2>1. pod' = NoPod /\ UNCHANGED <<spec, sts, files, copies, late, rec>>
    BY <1>8 DEF PodStop, PodCrash, outside
  <2> QED
    BY <2>1 DEF Inv, Rendering, Finalizing, copies, NoPod
<1>9. CASE GarbageCollect
  <2>1. /\ ~spec.exists /\ sts' = NoSts /\ pod' = NoPod /\ files'.config = NoConfig
        /\ UNCHANGED <<spec, copies, late, rec>>
    BY <1>9 DEF GarbageCollect, outside
  <2> QED
    BY <2>1 DEF Inv, Rendering, Finalizing, copies, NoPod, NoSts
<1> QED
  BY <1>1, <1>2, <1>3, <1>4, <1>5, <1>6, <1>7, <1>8, <1>9, <1>10, <1>11 DEF Cluster

\* TypeOK and Inv together are inductive.
THEOREM Invariance == Spec => [](TypeOK /\ Inv)
<1>1. TypeOK /\ Inv /\ [Next]_vars => Inv'
  <2> SUFFICES ASSUME TypeOK, Inv, [Next]_vars PROVE Inv'
    OBVIOUS
  <2>1. CASE UNCHANGED vars
    BY <2>1 DEF vars, Inv, HoldsFinalizer, JobNeverApplied, JobModeNeverTrades,
       HashesRendered, PodNeedsSet, DeletionHeld, SeenBefore, BetaKnows,
       FinalizesDeleted, ZeroIsFinal, Zero, ScaledDown
  <2>2. CASE Next
    BY <2>2, ReconcileInv, EnvironmentInv DEF Next
  <2> QED
    BY <2>1, <2>2
<1> QED
  BY InitInv, TypeCorrect, <1>1, PTL DEF Spec
-----------------------------------------------------------------------------
(* The safety theorems.                                                    *)

\* Whenever the user deletes a TradeBot, no pass works on behalf of an object that the
\* API server has dropped.
THEOREM FinalizerHeld == Spec => []HoldsFinalizer
<1>1. Inv => HoldsFinalizer
  BY DEF Inv
<1> QED
  BY Invariance, <1>1, PTL

\* A stored one-shot TradeBot never gets a StatefulSet, a pod or a config Secret.
THEOREM JobModeSafe == Spec => []JobModeNeverTrades
<1>1. Inv => JobModeNeverTrades
  BY DEF Inv
<1> QED
  BY Invariance, <1>1, PTL

\* Under updateStrategy Manual, only a pass whose copy of the StatefulSet is out of date
\* changes the config hash of an existing StatefulSet's pod template.
THEOREM ManualSafe == Spec => ManualNeverRestarts
<1>1. TypeOK /\ Inv /\ [Next]_vars
        => [sts.exists /\ sts'.exists /\ sts'.hash # sts.hash
              => rec.auto \/ stsSeen.hash # sts.hash]_vars
  <2> SUFFICES ASSUME TypeOK, Inv, Next, sts.exists, sts'.exists, sts'.hash # sts.hash
               PROVE  rec.auto \/ stsSeen.hash # sts.hash
    OBVIOUS
  <2>1. ~GarbageCollect
    BY DEF GarbageCollect, NoSts
  <2>2. ~Finalize
    BY DEF Finalize, TypeOK, StatefulSets
  <2>3. ApplyStatefulSet
    BY <2>1, <2>2 DEF Next, Reconcile, Fetch, AddFinalizer, ResolveConfig, ApplySecret,
         ApplyStrategyConfigMap, ApplyPVC, ApplyService, ApplyNetworkPolicy,
         ComputeWorkloadStatus, PatchSuccess, ReconcileState, StateCall, StateConfirm,
         PreservePVC, RemoveFinalizer, TimerFires, InformerSync, AlphaSync, BetaSync,
         OperatorRestart, User, EditSpec, EditConfig, SupplySecret, DeleteTradeBot,
         DeleteService, RolloutRestart, Cluster, PodStart, PodReady, PodStop, PodCrash,
         GracePasses, PollRead, PollWrite, objects, outside, unedited
  <2>4. sts'.hash = statefulSetTemplateHash
    BY <2>3 DEF ApplyStatefulSet, BuildStatefulSet
  <2>5. sts.hash \in Configs /\ (~stsSeen.exists => stsSeen.hash = NoConfig)
    BY DEF Inv, HashesRendered
  <2> QED
    BY <2>4, <2>5, ConfigsAssumption DEF statefulSetTemplateHash
<1> QED
  BY Invariance, <1>1, PTL DEF Spec, ManualNeverRestarts

\* Deletion takes the finalizer off only once the pod is gone or the grace period is
\* over, unless the pass did not see the StatefulSet, however late the informers are.
THEOREM DeletionSafe == Spec => FinalizerWaitsForPod
<1>1. TypeOK /\ Inv /\ [Next]_vars
        => [spec.finalizer /\ ~spec'.finalizer
              => pod.phase = "none" \/ late \/ rec.unseen]_vars
  <2> SUFFICES ASSUME TypeOK, Inv, Next, spec.finalizer, ~spec'.finalizer
               PROVE  pod.phase = "none" \/ late \/ rec.unseen
    OBVIOUS
  <2>1. ~AddFinalizer
    BY DEF AddFinalizer, TypeOK, Specs
  <2>2. ~EditSpec /\ ~DeleteTradeBot
    BY DEF EditSpec, DeleteTradeBot, TypeOK, Specs
  <2>3. RemoveFinalizer
    BY <2>1, <2>2 DEF Next, Reconcile, Fetch, ResolveConfig, ApplySecret,
         ApplyStrategyConfigMap, ApplyPVC, ApplyStatefulSet, ApplyService,
         ApplyNetworkPolicy, ComputeWorkloadStatus, PatchSuccess, ReconcileState,
         StateCall, StateConfirm, Finalize, PreservePVC, TimerFires, InformerSync,
         AlphaSync, BetaSync, OperatorRestart, User, EditConfig, SupplySecret,
         DeleteService, RolloutRestart, Cluster, PodStart, PodReady, PodStop, PodCrash,
         GarbageCollect, GracePasses, PollRead, PollWrite, objects, outside, unedited
  <2> QED
    BY <2>3 DEF RemoveFinalizer, Inv, ScaledDown
<1> QED
  BY Invariance, <1>1, PTL DEF Spec, FinalizerWaitsForPod

\* How a step may change Ready and the two conditions Phase is derived from: not at
\* all, by recording a failure, or by the success path's patch.
StatusStep ==
    \/ /\ status'.ready = status.ready
       /\ status'.configResolved = status.configResolved
       /\ status'.workloadReady = status.workloadReady
    \/ /\ status'.ready = FALSE
       /\ \/ status'.configResolved \notin {"unset", "AsExpected"}
          \/ status'.workloadReady = "ReconcileError"
    \/ /\ status'.configResolved = "AsExpected"
       /\ status'.workloadReady = "WorkloadHealthy" <=> status'.ready

\* failReconcile records the failure it was called with.
LEMMA FailStatus ==
  ASSUME TypeOK, NEW c, NEW r, failReconcile(c, r),
         \/ c = "configResolved" /\ r \notin {"unset", "AsExpected"}
         \/ c = "workloadReady" /\ r = "ReconcileError"
  PROVE  StatusStep
<1>1. CASE UNCHANGED status
  BY <1>1 DEF StatusStep
<1>2. CASE status' = Stamped([status EXCEPT ![c] = r, !.ready = FALSE])
  BY <1>2 DEF StatusStep, TypeOK, Statuses, Stamped
<1> QED
  BY <1>1, <1>2, PatchStored DEF failReconcile

\* Every step writes the status in one of the ways StatusStep lists.
LEMMA StatusSteps == ASSUME TypeOK, Next PROVE StatusStep
<1>1. CASE UNCHANGED status
  BY <1>1 DEF StatusStep
<1>2. ASSUME NEW c \in {"configResolved", "workloadReady"}, FailStep(c) PROVE StatusStep
  BY <1>1, <1>2, FailStatus DEF FailStep
<1>3. CASE RetryStep
  BY <1>1, <1>3 DEF RetryStep
<1>4. CASE Fetch
  BY <1>1, <1>4, FailStatus DEF Fetch
<1>5. CASE ResolveConfig
  BY <1>1, <1>2, <1>5, FailStatus DEF ResolveConfig
<1>6. CASE ComputeWorkloadStatus
  BY <1>1, <1>2, <1>6, FailStatus DEF ComputeWorkloadStatus
<1>7. CASE ApplySecret \/ ApplyStrategyConfigMap \/ ApplyPVC \/ ApplyStatefulSet
             \/ ApplyService \/ ApplyNetworkPolicy
  BY <1>1, <1>2, <1>7 DEF ApplySecret, ApplyStrategyConfigMap, ApplyPVC,
     ApplyStatefulSet, ApplyService, ApplyNetworkPolicy
<1>8. CASE PatchSuccess
  <2>1. ASSUME NEW w, w = IF rec.ready THEN "WorkloadHealthy" ELSE "WorkloadProgressing",
               patchTradeBotStatus([beta.status EXCEPT !.configResolved = "AsExpected",
                            !.workloadReady = w, !.ready = rec.ready,
                            !.drift = rec.drift, !.applied = rec.hash])
        PROVE StatusStep
    <3>1. CASE status' = Stamped([status EXCEPT !.configResolved = "AsExpected",
                            !.workloadReady = w, !.ready = rec.ready,
                            !.drift = rec.drift, !.applied = rec.hash])
      BY <2>1, <3>1 DEF StatusStep, TypeOK, Statuses, Recs, Stamped
    <3> QED
      BY <1>1, <2>1, <3>1, PatchStored
  <2> QED
    BY <1>1, <1>3, <1>8, <2>1 DEF PatchSuccess
<1>9. CASE ReconcileState \/ StateConfirm
  <2>1. ASSUME NEW r, NEW q, RecordState(r, q) PROVE StatusStep
    <3>1. CASE status' = Stamped([status EXCEPT !.stateReconciled = r])
      BY <3>1 DEF StatusStep, TypeOK, Statuses, Stamped
    <3> QED
      BY <1>1, <2>1, <3>1, PatchStored DEF RecordState
  <2> QED
    BY <1>1, <1>3, <1>9, <2>1 DEF ReconcileState, StateConfirm
<1>10. CASE PollWrite
  <2>1. ASSUME NEW r, NEW b,
               status' = Stamped([status EXCEPT !.reachable = r, !.botState = b])
        PROVE StatusStep
    BY <2>1 DEF StatusStep, TypeOK, Statuses, Stamped
  <2> QED
    BY <1>1, <1>10, <2>1, PollStored
<1>11. CASE AddFinalizer \/ Finalize \/ RemoveFinalizer
  BY <1>1, <1>3, <1>11 DEF AddFinalizer, Finalize, RemoveFinalizer
<1>12. CASE \/ StateCall \/ PreservePVC \/ TimerFires
            \/ InformerSync \/ AlphaSync \/ BetaSync \/ OperatorRestart
            \/ User \/ Cluster \/ GracePasses \/ PollRead
  BY <1>1, <1>12 DEF StateCall, PreservePVC, TimerFires, InformerSync, AlphaSync, BetaSync,
     OperatorRestart, User, EditSpec, EditConfig, SupplySecret, DeleteTradeBot, DeleteService,
     RolloutRestart, Cluster, PodStart, PodReady, PodStop, PodCrash, GarbageCollect,
     GracePasses, PollRead, outside, unedited, copies
<1> QED
  BY <1>4, <1>5, <1>6, <1>7, <1>8, <1>9, <1>10, <1>11, <1>12 DEF Next, Reconcile

\* status.phase and the Ready condition never contradict each other.
THEOREM PhaseCorrect == Spec => []PhaseMatchesReady
<1> USE DEF PhaseMatchesReady, deriveTradeBotPhase
<1>1. Init => PhaseMatchesReady
  BY DEF Init
<1>2. TypeOK /\ PhaseMatchesReady /\ [Next]_vars => PhaseMatchesReady'
  <2> SUFFICES ASSUME TypeOK, PhaseMatchesReady, [Next]_vars PROVE PhaseMatchesReady'
    OBVIOUS
  <2>1. CASE UNCHANGED vars
    BY <2>1 DEF vars
  <2>2. CASE Next
    BY <2>2, StatusSteps DEF StatusStep
  <2> QED
    BY <2>1, <2>2
<1> QED
  BY <1>1, <1>2, TypeCorrect, PTL DEF Spec

-----------------------------------------------------------------------------
(* At rest.  What a pass has done so far stands, unless the key is already  *)
(* back in the queue or on its way there.                                   *)

\* Nothing but the pass in progress, if there is one, looks after the TradeBot: the
\* key is not queued, not about to be, and no new generation is on its way.
Unattended ==
    ~queued /\ ~timer /\ Convertible /\ specSeen.generation = spec.generation

\* The steps that come after each write of a pass.
Patched == {"state", "call", "confirm"}
Observed == {"patch"} \cup Patched
Routed == {"networkpolicy", "observe"} \cup Observed
SetApplied == {"service"} \cup Routed
Claimed == {"statefulset"} \cup SetApplied
Scripted == {"pvc"} \cup Claimed
Configured == {"configmap"} \cup Scripted
Resolved == {"secret"} \cup Configured

\* The pass at hand is the one the object calls for.
RightPass ==
    /\ spec.deleting <=> rec.pc \in Finalizing
    /\ rec.pc # "addFinalizer" => spec.finalizer
    /\ rec.pc \in {"resolve"} \cup Resolved => rec.auto = spec.auto

\* What the pass resolved is still what the references give.
Fresh ==
    /\ rec.pc \in {"idle"} \cup Resolved => cfgState = "ok"
    /\ rec.pc \in Resolved => rec.hash = cfg

\* The objects applied so far are still there as they were applied.
Applied ==
    /\ rec.pc \in {"idle"} \cup Configured => files.config = cfg
    /\ rec.pc \in {"idle"} \cup Scripted => files.script = cfg
    /\ rec.pc \in {"idle"} \cup Claimed => pvc = "owned"
    /\ rec.pc \in {"idle"} \cup SetApplied =>
         /\ sts.exists /\ sts.replicas = 1
         /\ spec.auto => sts.hash = cfg
    /\ rec.pc \in {"idle"} \cup Routed => "service" \in net

\* What the pass observed still holds, and so does what it wrote to status, if it did.
Reported ==
    /\ rec.pc \in SetApplied => (rec.drift <=> sts.hash # cfg)
    /\ rec.pc \in Observed => (rec.ready <=> pod.phase = "ready")
    /\ rec.pc = "idle" => pod.phase = "ready"
    /\ rec.pc \in {"idle"} \cup Patched /\ ~lost =>
         /\ status.applied = cfg
         /\ status.configResolved = "AsExpected"
         /\ status.drift <=> sts.hash # cfg
         /\ status.observedGeneration = spec.generation
         /\ rec.ready \/ rec.pc = "idle" =>
              status.workloadReady = "WorkloadHealthy" /\ status.ready

\* The inductive invariant of the resting state.
OnTrack == Unattended => RightPass /\ Fresh /\ Applied /\ Reported

\* Every way of failing, and every RequeueAfter, keeps the key attended.
LEMMA Requeued ==
  ASSUME NEW c, \/ FailStep(c) \/ RetryStep \/ Return(TRUE)
                \/ \E r \in ConfigReasons : failReconcile(c, r)
  PROVE  ~Unattended'
BY DEF FailStep, RetryStep, Return, failReconcile, Unattended

\* The initial state is attended: the first list enqueues the key.
LEMMA InitOnTrack == Init => OnTrack
BY DEF Init, OnTrack, Unattended

\* A pass starts on the object as it is, but for a finalizer or an annotation.
LEMMA FetchOnTrack ==
  ASSUME TypeOK, Inv, OnTrack, Fetch, Unattended'
  PROVE  (RightPass /\ Fresh /\ Applied /\ Reported)'
<1>1. Convertible /\ specSeen.generation = spec.generation /\ UNCHANGED spec
  BY DEF Unattended, Convertible, Fetch, copies
<1>2. /\ specSeen.exists /\ ~specSeen.job /\ specSeen.deleting = spec.deleting
      /\ specSeen.auto = spec.auto /\ (specSeen.deleting => specSeen.finalizer)
      /\ spec.deleting => spec.finalizer
      /\ specSeen.finalizer /\ ~specSeen.deleting => spec.finalizer
  BY <1>1 DEF Inv, DeletionHeld, SeenBefore, Convertible
<1>4. /\ rec'.pc = CASE specSeen.deleting -> "finalize"
                     [] ~specSeen.deleting /\ ~specSeen.finalizer -> "addFinalizer"
                     [] OTHER -> "resolve"
      /\ rec'.auto = specSeen.auto
  BY <1>2 DEF Fetch, IdleRec, jobMode
<1> QED
  BY <1>1, <1>2, <1>4 DEF RightPass, Fresh, Applied, Reported, Finalizing, Resolved,
     Configured, Scripted, Claimed, SetApplied, Routed, Observed, Patched

\* A step that leaves a pass unattended and goes on found it unattended.
LEMMA StillUnattended ==
  ASSUME TypeOK, OnTrack, Unattended', timer => timer', queued => queued',
         UNCHANGED <<spec, specSeen>>
  PROVE  Unattended /\ RightPass /\ Fresh /\ Applied /\ Reported
BY DEF OnTrack, Unattended, Convertible, TypeOK

\* Going on keeps everything the pass has learnt.
LEMMA GotoKeeps ==
  ASSUME TypeOK, NEW p \in PCs, Goto(p)
  PROVE  /\ rec'.pc = p /\ UNCHANGED timer
         /\ rec'.hash = rec.hash /\ rec'.auto = rec.auto
         /\ rec'.drift = rec.drift /\ rec'.ready = rec.ready
BY DEF TypeOK, Goto, Recs

\* A pending requeue outlives the pass.
LEMMA TimerStays == ASSUME NEW r, Return(r), timer PROVE timer'
BY DEF Return

\* Nothing the report says is changed, but the generation may be brought up to date.
KeepsReport ==
    /\ status'.configResolved = status.configResolved
    /\ status'.applied = status.applied /\ status'.drift = status.drift
    /\ status'.ready = status.ready /\ status'.workloadReady = status.workloadReady
    /\ \/ status'.observedGeneration = status.observedGeneration
       \/ status'.observedGeneration = spec.generation

\* Recording a reason in StateReconciled leaves the report alone.
LEMMA RecordKeeps ==
  ASSUME TypeOK, NEW x, NEW q, RecordState(x, q)
  PROVE  KeepsReport
<1>1. CASE status' = Stamped([status EXCEPT !.stateReconciled = x]) /\ beta.spec = spec
  BY <1>1 DEF KeepsReport, Stamped, TypeOK, Statuses
<1> QED
  BY <1>1, PatchStored DEF RecordState, KeepsReport

\* A reason that cannot be recorded brings the key back; else the pass ends as asked for.
LEMMA RecordReturns ==
  ASSUME NEW x, NEW q, RecordState(x, q), Unattended'
  PROVE  Return(q)
BY DEF RecordState, Return, Unattended

\* A pass that resolves and applies stays on track.
LEMMA ApplyOnTrack ==
  ASSUME TypeOK, OnTrack, Unattended',
         \/ ResolveConfig \/ ApplySecret \/ ApplyStrategyConfigMap \/ ApplyPVC
         \/ ApplyStatefulSet \/ ApplyService \/ ApplyNetworkPolicy
  PROVE  (RightPass /\ Fresh /\ Applied /\ Reported)'
<1> USE DEF RightPass, Fresh, Applied, Reported, Finalizing, Resolved, Configured,
            Scripted, Claimed, SetApplied, Routed, Observed, Patched
<1>1. CASE ResolveConfig
  <2>1. /\ rec.pc = "resolve" /\ cfgState = "ok" /\ UNCHANGED <<timer, queued>>
        /\ rec' = [rec EXCEPT !.pc = "secret", !.hash = cfg]
        /\ UNCHANGED <<spec, specSeen, lost, cfg, cfgState>>
    BY <1>1, Requeued DEF ResolveConfig, ConfigReasons, outside, copies
  <2>2. rec'.pc = "secret" /\ rec'.hash = cfg /\ rec'.auto = rec.auto
    BY <2>1 DEF TypeOK, Recs
  <2> QED
    BY <2>1, <2>2, StillUnattended
<1>2. CASE ApplySecret
  <2>1. /\ rec.pc = "secret" /\ Goto("configmap")
        /\ files' = [files EXCEPT !.config = rec.hash] /\ (queued => queued')
        /\ UNCHANGED <<spec, specSeen, lost, cfg, cfgState>>
    BY <1>2, Requeued DEF ApplySecret, outside, copies
  <2>2. files'.config = rec.hash
    BY <2>1 DEF TypeOK, Files
  <2> QED
    BY <2>1, <2>2, GotoKeeps, StillUnattended DEF PCs
<1>3. CASE ApplyStrategyConfigMap
  <2>1. /\ rec.pc = "configmap" /\ Goto("pvc")
        /\ files' = [files EXCEPT !.script = rec.hash] /\ (queued => queued')
        /\ UNCHANGED <<spec, specSeen, lost, cfg, cfgState>>
    BY <1>3, Requeued DEF ApplyStrategyConfigMap, outside, copies
  <2>2. files'.script = rec.hash /\ files'.config = files.config
    BY <2>1 DEF TypeOK, Files
  <2> QED
    BY <2>1, <2>2, GotoKeeps, StillUnattended DEF PCs
<1>4. CASE ApplyPVC
  <2>1. /\ rec.pc = "pvc" /\ Goto("statefulset")
        /\ pvc' = "owned" /\ (queued => queued')
        /\ UNCHANGED <<spec, specSeen, lost, cfg, cfgState, files>>
    BY <1>4, Requeued DEF ApplyPVC, outside, copies
  <2> QED
    BY <2>1, GotoKeeps, StillUnattended DEF PCs
<1>5. CASE ApplyStatefulSet
  <2>1. /\ rec.pc = "statefulset" /\ UNCHANGED <<timer, queued>>
        /\ sts' = BuildStatefulSet(statefulSetTemplateHash)
        /\ rec' = [rec EXCEPT !.pc = "service",
                              !.drift = statefulSetTemplateHash # rec.hash]
        /\ UNCHANGED <<spec, specSeen, lost, cfg, cfgState, files, pvc>>
    BY <1>5, Requeued DEF ApplyStatefulSet, outside, copies
  <2>2. /\ rec'.pc = "service" /\ rec'.hash = rec.hash /\ rec'.auto = rec.auto
        /\ rec'.drift = (statefulSetTemplateHash # rec.hash)
    BY <2>1 DEF TypeOK, Recs
  <2>3. sts'.exists /\ sts'.replicas = 1 /\ sts'.hash = statefulSetTemplateHash
    BY <2>1 DEF BuildStatefulSet
  <2>4. rec.auto => statefulSetTemplateHash = rec.hash
    BY DEF statefulSetTemplateHash
  <2> QED
    BY <2>1, <2>2, <2>3, <2>4, StillUnattended
<1>6. CASE ApplyService
  <2>1. /\ rec.pc = "service" /\ Goto("networkpolicy")
        /\ "service" \in net' /\ (queued => queued')
        /\ UNCHANGED <<spec, specSeen, lost, cfg, cfgState, files, pvc, sts>>
    BY <1>6, Requeued DEF ApplyService, outside, copies
  <2> QED
    BY <2>1, GotoKeeps, StillUnattended DEF PCs
<1>7. CASE ApplyNetworkPolicy
  <2>1. /\ rec.pc = "networkpolicy" /\ Goto("observe")
        /\ net \subseteq net' /\ UNCHANGED queued
        /\ UNCHANGED <<spec, specSeen, lost, cfg, cfgState, files, pvc, sts>>
    BY <1>7, Requeued DEF ApplyNetworkPolicy, outside, copies
  <2> QED
    BY <2>1, GotoKeeps, StillUnattended DEF PCs
<1> QED
  BY <1>1, <1>2, <1>3, <1>4, <1>5, <1>6, <1>7

\* A pass that reports and enforces spec.state stays on track: it ends without a requeue
\* only when the bot was ready.
LEMMA ReportOnTrack ==
  ASSUME TypeOK, OnTrack, Unattended',
         \/ ComputeWorkloadStatus \/ PatchSuccess
         \/ ReconcileState \/ StateCall \/ StateConfirm
  PROVE  (RightPass /\ Fresh /\ Applied /\ Reported)'
<1> USE DEF RightPass, Fresh, Applied, Reported, Finalizing, Resolved, Configured,
            Scripted, Claimed, SetApplied, Routed, Observed, Patched
<1>1. CASE ComputeWorkloadStatus
  <2>1. /\ rec.pc = "observe" /\ UNCHANGED <<timer, queued>>
        /\ rec' = [rec EXCEPT !.pc = "patch", !.ready = pod.phase = "ready"]
        /\ UNCHANGED <<spec, specSeen, lost, cfg, cfgState, files, sts, pod, pvc, net>>
    BY <1>1, Requeued DEF ComputeWorkloadStatus, ConfigReasons, objects, outside, copies
  <2>2. /\ rec'.pc = "patch" /\ rec'.ready = (pod.phase = "ready")
        /\ rec'.hash = rec.hash /\ rec'.auto = rec.auto /\ rec'.drift = rec.drift
    BY <2>1 DEF TypeOK, Recs
  <2> QED
    BY <2>1, <2>2, StillUnattended
<1>2. CASE PatchSuccess
  <2> DEFINE w == IF rec.ready THEN "WorkloadHealthy" ELSE "WorkloadProgressing"
             new == [beta.status EXCEPT !.configResolved = "AsExpected",
                       !.workloadReady = w, !.ready = rec.ready,
                       !.drift = rec.drift, !.applied = rec.hash]
  <2>1. /\ rec.pc = "patch" /\ UNCHANGED <<timer, queued>>
        /\ patchTradeBotStatus(new) /\ Accepts(new) /\ lost' = ~Current
        /\ rec' = [rec EXCEPT !.pc = "state",
              !.reach = beta.status.reachable = "True", !.obs = beta.status.botState]
        /\ UNCHANGED <<spec, specSeen, cfg, cfgState, files, sts, pod, pvc, net>>
    BY <1>2, Requeued DEF PatchSuccess, objects, outside, copies
  <2>2. /\ rec'.pc = "state" /\ rec'.ready = rec.ready
        /\ rec'.hash = rec.hash /\ rec'.auto = rec.auto /\ rec'.drift = rec.drift
    BY <2>1 DEF TypeOK, Recs
  <2>3. Unattended /\ RightPass /\ Fresh /\ Applied /\ Reported
    BY <2>1, StillUnattended
  <2>5. ~lost' => status' = Stamped(new) /\ beta.spec.generation = spec.generation
    <3> SUFFICES ASSUME ~lost' PROVE status' = Stamped(new) /\ beta.spec = spec
      OBVIOUS
    <3>1. Known /\ Current
      BY <2>1 DEF Accepts
    <3> QED
      BY <2>1, <3>1 DEF patchTradeBotStatus, Current
  <2>4. ~lost' =>
          /\ status'.configResolved = "AsExpected" /\ status'.applied = rec.hash
          /\ status'.drift = rec.drift /\ status'.ready = rec.ready
          /\ status'.observedGeneration = spec.generation
          /\ rec.ready => status'.workloadReady = "WorkloadHealthy"
    BY <2>5 DEF Stamped, TypeOK, Statuses
  <2> QED
    BY <2>1, <2>2, <2>3, <2>4
<1>3. CASE ReconcileState
  <2>0. /\ rec.pc = "state" /\ UNCHANGED queued
        /\ UNCHANGED <<spec, specSeen, lost, cfg, cfgState, files, sts, pod, pvc, net>>
    BY <1>3 DEF ReconcileState, objects, outside, copies
  <2>5. timer => timer'
    BY <1>3, TimerStays DEF ReconcileState, RetryStep, RecordState
  <2>1. Unattended /\ RightPass /\ Fresh /\ Applied /\ Reported
    BY <2>0, <2>5, StillUnattended
  <2>2. KeepsReport
    BY <1>3, RecordKeeps DEF ReconcileState, RetryStep, KeepsReport
  <2>3. CASE rec' = [rec EXCEPT !.pc = "call", !.want = beta.spec.state]
    <3>1. /\ rec'.pc = "call" /\ rec'.ready = rec.ready
          /\ rec'.hash = rec.hash /\ rec'.auto = rec.auto /\ rec'.drift = rec.drift
      BY <2>3 DEF TypeOK, Recs
    <3> QED
      BY <2>0, <2>1, <2>2, <3>1 DEF KeepsReport
  <2>4. CASE Return(defaultRequeueAfter)
    <3>1. rec.ready /\ rec'.pc = "idle"
      BY <2>4, Requeued, ReturnPc DEF Unattended, Return, defaultRequeueAfter, TypeOK, Recs
    <3> QED
      BY <2>0, <2>1, <2>2, <3>1 DEF KeepsReport
  <2>6. ASSUME NEW x, RecordState(x, defaultRequeueAfter)
        PROVE  Return(defaultRequeueAfter)
    BY <2>6, RecordReturns
  <2> QED
    BY <1>3, <2>3, <2>4, <2>6, Requeued DEF ReconcileState
<1>4. CASE StateCall
  <2>1. /\ rec.pc = "call" /\ UNCHANGED <<timer, queued, status>>
        /\ UNCHANGED <<spec, specSeen, lost, cfg, cfgState, files, sts, pvc, net>>
    BY <1>4 DEF StateCall, outside, copies
  <2>2. pod'.phase = pod.phase
    BY <1>4 DEF StateCall, TypeOK, Pods
  <2>3. /\ rec'.pc = "confirm" /\ rec'.ready = rec.ready
        /\ rec'.hash = rec.hash /\ rec'.auto = rec.auto /\ rec'.drift = rec.drift
    BY <1>4 DEF StateCall, Goto, TypeOK, Recs
  <2> QED
    BY <2>1, <2>2, <2>3, StillUnattended
<1>5. CASE StateConfirm
  <2>1. /\ rec.pc = "confirm" /\ UNCHANGED queued
        /\ Return(rec.changed \/ defaultRequeueAfter)
        /\ UNCHANGED <<spec, specSeen, lost, cfg, cfgState, files, sts, pod, pvc, net>>
    BY <1>5, Requeued, RecordReturns DEF StateConfirm, objects, outside, copies
  <2>2. rec.ready /\ rec'.pc = "idle" /\ (timer => timer')
    BY <2>1, ReturnPc DEF Unattended, Return, defaultRequeueAfter, TypeOK, Recs
  <2>3. KeepsReport
    BY <1>5, RecordKeeps DEF StateConfirm, RetryStep, KeepsReport
  <2> QED
    BY <2>1, <2>2, <2>3, StillUnattended DEF KeepsReport
<1> QED
  BY <1>1, <1>2, <1>3, <1>4, <1>5

\* A finalizing pass stays on track: it goes on, comes back, or the object is gone.
LEMMA FinalizeOnTrack ==
  ASSUME TypeOK, Inv, OnTrack, Unattended',
         AddFinalizer \/ Finalize \/ PreservePVC \/ RemoveFinalizer
  PROVE  (RightPass /\ Fresh /\ Applied /\ Reported)'
<1> USE DEF RightPass, Fresh, Applied, Reported, Finalizing, Resolved, Configured,
            Scripted, Claimed, SetApplied, Routed, Observed, Patched
<1>1. ~AddFinalizer
  BY Requeued DEF AddFinalizer
<1>2. CASE Finalize
  <2>1. /\ rec.pc = "finalize" /\ UNCHANGED <<spec, specSeen, queued, timer>>
        /\ rec' = [rec EXCEPT !.pc = "preserve",
                              !.unseen = ~stsSeen.exists /\ sts.exists]
    BY <1>2, Requeued DEF Finalize, copies
  <2>2. rec'.pc = "preserve"
    BY <2>1 DEF TypeOK, Recs
  <2> QED
    BY <2>1, <2>2, StillUnattended
<1>3. CASE PreservePVC
  <2>1. /\ rec.pc = "preserve" /\ Goto("removeFinalizer")
        /\ UNCHANGED <<spec, specSeen, queued>>
    BY <1>3 DEF PreservePVC, copies
  <2> QED
    BY <2>1, GotoKeeps, StillUnattended DEF PCs
<1>4. ~RemoveFinalizer
  <2>1. ASSUME spec' = [spec EXCEPT !.exists = FALSE, !.finalizer = FALSE] PROVE FALSE
    BY <2>1 DEF Unattended, Convertible, TypeOK, Specs
  <2>2. ASSUME rec.pc = "removeFinalizer", ~beta.spec.exists, UNCHANGED spec PROVE FALSE
    BY <2>2 DEF Inv, FinalizesDeleted, SeenBefore, DeletionHeld, BetaKnows, Finalizing,
       Unattended, Convertible
  <2> QED
    BY <2>1, <2>2, Requeued DEF RemoveFinalizer
<1> QED
  BY <1>1, <1>2, <1>3, <1>4

\* Whatever changes under a pass, or under a TradeBot at rest, enqueues the key or is a
\* new generation to deliver; the poller, an annotation and a supplied credential change
\* nothing the pass relies on.
LEMMA EnvironmentOnTrack ==
  ASSUME TypeOK, Inv, OnTrack, Unattended',
         \/ TimerFires \/ InformerSync \/ AlphaSync \/ BetaSync \/ OperatorRestart
         \/ User \/ Cluster \/ GracePasses \/ PollRead \/ PollWrite
  PROVE  (RightPass /\ Fresh /\ Applied /\ Reported)'
<1> USE DEF RightPass, Fresh, Applied, Reported
<1>1. ~TimerFires /\ ~InformerSync
  BY DEF TimerFires, InformerSync, Unattended
<1>2. ~Cluster
  BY DEF Cluster, PodStart, PodReady, PodStop, PodCrash, GarbageCollect, Unattended
<1>3. ~OperatorRestart
  BY DEF OperatorRestart, Unattended, Convertible
<1>4. CASE User
  <2>1. ASSUME NEW s, spec' = s, s.generation = spec.generation + 1, UNCHANGED specSeen
        PROVE  FALSE
    BY <2>1 DEF Unattended, Inv, SeenBefore, TypeOK, Specs
  <2>2. CASE EditSpec
    <3>1. spec' = [spec EXCEPT !.preserve = ~@]
      <4>1. ASSUME NEW s \in RunStates, NEW a \in BOOLEAN, NEW q \in BOOLEAN,
                   spec' = [spec EXCEPT !.state = s, !.auto = a, !.preserve = q,
                                        !.generation = @ + 1]
            PROVE  FALSE
        <5>1. [spec EXCEPT !.state = s, !.auto = a, !.preserve = q,
                           !.generation = @ + 1].generation = spec.generation + 1
          BY DEF TypeOK, Specs
        <5> QED
          BY <2>1, <2>2, <4>1, <5>1 DEF EditSpec, unedited, copies
      <4> QED
        BY <2>2, <4>1 DEF EditSpec
    <3>2. /\ spec'.generation = spec.generation /\ spec'.auto = spec.auto
          /\ spec'.deleting = spec.deleting /\ spec'.finalizer = spec.finalizer
          /\ spec'.exists = spec.exists /\ spec'.job = spec.job
      BY <3>1 DEF TypeOK, Specs
    <3>3. UNCHANGED <<specSeen, status, timer, queued, rec, lost, files, sts, pod, pvc,
                      net, cfg, cfgState>>
      BY <2>2 DEF EditSpec, unedited, copies
    <3>4. RightPass /\ Fresh /\ Applied /\ Reported
      BY <3>2, <3>3 DEF OnTrack, Unattended, Convertible
    <3> QED
      BY <3>2, <3>3, <3>4
  <2>3. ~DeleteTradeBot
    <3>1. ASSUME DeleteTradeBot PROVE FALSE
      <4>1. [spec EXCEPT !.deleting = spec.finalizer, !.exists = spec.finalizer,
                         !.generation = @ + 1].generation = spec.generation + 1
        BY DEF TypeOK, Specs
      <4> QED
        BY <2>1, <3>1, <4>1 DEF DeleteTradeBot, unedited, copies
    <3> QED
      BY <3>1
  <2>4. CASE SupplySecret
    <3>1. /\ cfgState' = "ok"
          /\ UNCHANGED <<spec, specSeen, status, timer, queued, rec, lost, files, sts, pod,
                         pvc, net, cfg>>
      BY <2>4 DEF SupplySecret, unedited, copies
    <3>2. RightPass /\ Fresh /\ Applied /\ Reported
      BY <3>1, StillUnattended
    <3> QED
      BY <3>1, <3>2
  <2>5. ~EditConfig /\ ~DeleteService /\ ~RolloutRestart
    BY DEF EditConfig, DeleteService, RolloutRestart, Unattended
  <2> QED
    BY <1>4, <2>2, <2>3, <2>4, <2>5 DEF User
<1>5. CASE GracePasses \/ PollRead \/ BetaSync \/ AlphaSync
  <2>1. UNCHANGED <<spec, status, timer, rec, lost, files, sts, pod, pvc, net, cfg, cfgState>>
    BY <1>5 DEF GracePasses, PollRead, BetaSync, AlphaSync, objects, outside
  <2>2. Unattended
    <3>1. CASE GracePasses \/ PollRead \/ BetaSync
      BY <3>1 DEF GracePasses, PollRead, BetaSync, Unattended, Convertible, copies
    <3>2. CASE AlphaSync
      <4>1. ~queued /\ [specSeen EXCEPT !.finalizer = spec.finalizer] = spec
        BY <3>2 DEF AlphaSync, Unattended
      <4>2. specSeen.generation = spec.generation
        BY <4>1 DEF TypeOK, Specs
      <4> QED
        BY <3>2, <4>1, <4>2 DEF AlphaSync, Unattended, Convertible
    <3> QED
      BY <1>5, <3>1, <3>2
  <2> QED
    BY <2>1, <2>2 DEF OnTrack
<1>6. CASE PollWrite
  <2>1. UNCHANGED <<spec, specSeen, timer, queued, rec, lost, files, sts, pod, pvc, net, cfg,
                    cfgState>>
    BY <1>6 DEF PollWrite, objects, copies
  <2>2. RightPass /\ Fresh /\ Applied /\ Reported
    BY <2>1, StillUnattended
  <2>3. KeepsReport
    <3>1. ASSUME NEW a, NEW b, beta.spec = spec,
                 status' = Stamped([status EXCEPT !.reachable = a, !.botState = b])
          PROVE KeepsReport
      BY <3>1 DEF KeepsReport, Stamped, TypeOK, Statuses
    <3> QED
      BY <1>6, <3>1, PollStored DEF KeepsReport
  <2> QED
    BY <2>1, <2>2, <2>3 DEF KeepsReport
<1> QED
  BY <1>1, <1>2, <1>3, <1>4, <1>5, <1>6

\* OnTrack is inductive, given the type invariant and Inv.
THEOREM OnTrackInvariance == Spec => []OnTrack
<1>1. TypeOK /\ Inv /\ OnTrack /\ [Next]_vars => OnTrack'
  <2> SUFFICES ASSUME TypeOK, Inv, OnTrack, [Next]_vars PROVE OnTrack'
    OBVIOUS
  <2>1. CASE UNCHANGED vars
    BY <2>1 DEF vars, OnTrack, Unattended, Convertible, RightPass, Fresh, Applied, Reported
  <2>2. CASE Next
    <3>1. ASSUME Unattended' PROVE (RightPass /\ Fresh /\ Applied /\ Reported)'
      BY <2>2, <3>1, FetchOnTrack, ApplyOnTrack, ReportOnTrack, FinalizeOnTrack,
         EnvironmentOnTrack DEF Next, Reconcile
    <3> QED
      BY <3>1 DEF OnTrack
  <2> QED
    BY <2>1, <2>2
<1> QED
  BY InitOnTrack, Invariance, <1>1, PTL DEF Spec

\* When the controller has nothing left to do for a TradeBot, the cluster is what the spec
\* asks for, whatever edits, failures, restarts and informer lag came before: no remainder
\* of a pass is left that nothing re-queues.  So is the status, unless the last report was
\* skipped because it equalled a late copy (PatchStatus in shared/utils.go).
THEOREM ConvergedCorrect == Spec => []Converged
<1>1. TypeOK /\ OnTrack => Converged
  <2> SUFFICES ASSUME TypeOK, OnTrack, Quiescent, Convertible
               PROVE  /\ spec.finalizer /\ ~spec.deleting
                      /\ cfgState = "ok"
                      /\ files = [config |-> cfg, script |-> cfg]
                      /\ sts.exists /\ sts.replicas = 1 /\ pod.phase = "ready"
                      /\ spec.auto => sts.hash = cfg
                      /\ pvc = "owned" /\ "service" \in net
                      /\ ~lost =>
                           /\ status.applied = cfg
                           /\ status.configResolved = "AsExpected"
                           /\ status.workloadReady = "WorkloadHealthy" /\ status.ready
                           /\ status.drift = (sts.hash # cfg)
                           /\ status.observedGeneration = spec.generation
    BY DEF Converged
  <2>1. rec.pc = "idle" /\ RightPass /\ Fresh /\ Applied /\ Reported
    BY DEF OnTrack, Unattended, Quiescent
  <2>2. files = [config |-> cfg, script |-> cfg]
    BY <2>1 DEF Applied, TypeOK, Files
  <2>3. ~lost => status.drift = (sts.hash # cfg)
    BY <2>1 DEF Reported, TypeOK, Statuses
  <2> QED
    BY <2>1, <2>2, <2>3 DEF RightPass, Fresh, Applied, Reported, Finalizing
<1> QED
  BY <1>1, OnTrackInvariance, TypeCorrect, PTL

\* The safety half of DeletionCompletes: a TradeBot under deletion is always in the queue,
\* on its way there, with a pass that finalizes it (finalizers.go), or news that the
\* informer has yet to deliver, so no edit, fault, restart or grace period strands its
\* finalizer.
THEOREM DeletionAttended ==
    Spec => [](spec.deleting /\ Convertible
                 => queued \/ timer \/ rec.pc \in Finalizing \/ specSeen # spec)
<1>1. OnTrack => (spec.deleting /\ Convertible
                    => queued \/ timer \/ rec.pc \in Finalizing \/ specSeen # spec)
  BY DEF OnTrack, Unattended, RightPass
<1> QED
  BY <1>1, OnTrackInvariance, PTL
=============================================================================
