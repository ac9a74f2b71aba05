--------------------------- MODULE BacktestProofs ---------------------------
(***************************************************************************)
(* Proofs about Backtest, for any number of runs of a name and every bound, *)
(* however far the informers are behind.  Inv says which run the objects    *)
(* belong to and what an old copy can still say of them, Recorded what the  *)
(* status claims, OverInv that the key of an unfinished run is never lost.  *)
(***************************************************************************)
EXTENDS Backtest, TLAPS

\* What every step of Reconcile leaves behind, whichever way it ends.
PassOK ==
    /\ rec' \in Recs /\ timer' \in BOOLEAN
    /\ status' \in Statuses /\ faults' \in 0..MaxFaults

-----------------------------------------------------------------------------
(* Type correctness of a pass.                                             *)

\* Run 0 stands for none.
LEMMA RunTypes == 0 \in 0..MaxRuns /\ 1 \in Runs /\ \A r \in Runs : r \in 0..MaxRuns /\ r # 0
BY BacktestAssumption DEF Runs

\* The values that stand for an absent object are typed.
LEMMA NoJobType == NoJob \in Jobs
<1>1. 0 \in 0..1 /\ 0 \in 0..(jobBackoffLimit + 1)
  BY DEF jobBackoffLimit
<1> QED
  BY <1>1, RunTypes DEF NoJob, Jobs

\* So is a Job whose counts are updated.
LEMMA JobUpdates ==
  ASSUME NEW j \in Jobs, NEW a \in 0..1, NEW n \in 0..1, NEW f \in 0..(jobBackoffLimit + 1)
  PROVE  /\ [j EXCEPT !.active = a] \in Jobs
         /\ [j EXCEPT !.active = a, !.succeeded = n] \in Jobs
         /\ [j EXCEPT !.active = a, !.failed = f] \in Jobs
BY DEF Jobs

\* So are no pod, no ConfigMap, no object and the empty status.
LEMMA NothingType == NoPod \in Pods /\ NoCM \in Maps /\ Absent \in Owners /\ NewStatus \in Statuses
BY RunTypes DEF NoPod, Pods, NoCM, Maps, Absent, Owners, NewStatus, Statuses, Workloads

\* The initial state is typed.
LEMMA InitType == Init => TypeOK
<1> SUFFICES ASSUME Init PROVE TypeOK
  OBVIOUS
<1>1. bt \in Backtests /\ btSeen \in Backtests /\ refs \in Refs
  BY RunTypes DEF Init, Backtests
<1>2. status \in Statuses /\ statusSeen \in Statuses
  BY RunTypes DEF Init, NewStatus, Statuses, Workloads
<1>3. owner \in [Inputs -> Owners] /\ pvcSeen \in Owners /\ rbac \in BOOLEAN
  BY RunTypes DEF Init, Absent, Owners
<1>4. job \in Jobs /\ jobSeen \in Jobs
  BY RunTypes DEF Init, NoJob, Jobs, jobBackoffLimit
<1>5. pod \in Pods /\ cm \in Maps
  BY RunTypes DEF Init, NoPod, Pods, NoCM, Maps
<1>6. rec \in Recs
  BY RunTypes DEF Init, IdleRec, Recs, PCs, Workloads, Outcomes
<1>7. queued \in BOOLEAN /\ timer \in BOOLEAN /\ lost \in BOOLEAN /\ ended \in BOOLEAN
  BY DEF Init
<1>8. faults \in 0..MaxFaults /\ edits \in 0..MaxEdits
  BY BacktestAssumption DEF Init
<1> QED
  BY <1>1, <1>2, <1>3, <1>4, <1>5, <1>6, <1>7, <1>8 DEF TypeOK

\* Return, Goto, failReconcile, RetryStep and FailStep keep their variables typed, and
\* all but Goto end the pass.
LEMMA ReturnType ==
  ASSUME TypeOK, NEW r \in BOOLEAN, Return(r)
  PROVE  rec' \in Recs /\ timer' \in BOOLEAN /\ rec' = IdleRec
BY RunTypes DEF TypeOK, Return, IdleRec, Recs, PCs, Workloads, Outcomes

\* Goto moves the program counter and nothing else of the pass.
LEMMA GotoType ==
  ASSUME TypeOK, NEW p \in PCs, Goto(p)
  PROVE  /\ rec' \in Recs /\ timer' \in BOOLEAN
         /\ rec'.pc = p /\ rec'.run = rec.run /\ rec'.recorded = rec.recorded
         /\ rec'.retain = rec.retain /\ rec'.fresh = rec.fresh /\ rec'.unseen = rec.unseen
BY DEF TypeOK, Goto, Recs

\* The count of faults stays within its bound.
LEMMA FaultType == ASSUME TypeOK, Fault PROVE faults' \in 0..MaxFaults
BY BacktestAssumption DEF TypeOK, Fault

\* failReconcile writes a reason its condition can have.
LEMMA FailReconcileType ==
  ASSUME TypeOK, NEW c \in {"config", "workload", "results"},
         NEW r \in {"ReconcileError", "ReferenceNotFound"},
         c # "config" => r = "ReconcileError", failReconcile(c, r)
  PROVE  rec' \in Recs /\ timer' \in BOOLEAN /\ status' \in Statuses /\ rec' = IdleRec
<1>1. CASE c = "config"
  <2>1. status' \in Statuses
    BY <1>1 DEF TypeOK, failReconcile, Statuses
  <2> QED
    BY <2>1, ReturnType DEF failReconcile
<1>2. CASE c = "workload"
  <2>1. status' \in Statuses
    BY <1>2 DEF TypeOK, failReconcile, Statuses, Workloads
  <2> QED
    BY <2>1, ReturnType DEF failReconcile
<1>3. CASE c = "results"
  <2>1. status' \in Statuses
    BY <1>3 DEF TypeOK, failReconcile, Statuses
  <2> QED
    BY <2>1, ReturnType DEF failReconcile
<1> QED
  BY <1>1, <1>2, <1>3

\* A returned error ends the pass.
LEMMA RetryStepType == ASSUME TypeOK, RetryStep PROVE PassOK /\ rec' = IdleRec
<1>1. Return(TRUE) /\ status' \in Statuses /\ faults' \in 0..MaxFaults
  BY FaultType DEF TypeOK, RetryStep
<1> QED
  BY <1>1, ReturnType DEF PassOK

\* So does a recorded one.
LEMMA FailStepType ==
  ASSUME TypeOK, NEW c \in {"config", "workload", "results"}, FailStep(c)
  PROVE  PassOK /\ rec' = IdleRec
<1>1. CASE Fault /\ failReconcile(c, "ReconcileError")
  BY <1>1, FaultType, FailReconcileType DEF PassOK
<1>2. CASE RetryStep
  BY <1>2, RetryStepType
<1> QED
  BY <1>1, <1>2 DEF FailStep

-----------------------------------------------------------------------------
(* The inductive invariant.                                                *)

Creating == {"refs", "secret", "configmap", "pvc", "rbac", "job"}

\* A pass with a current copy goes by the outcome the API server has, and a pass gets
\* as far as creating things only when its copy has none.
Remembers ==
    /\ rec.fresh /\ rec.pc \in {"checkJob"} \cup Creating => rec.recorded = status.workload
    /\ rec.pc \in Creating => ~recordedOutcome(rec.recorded)

\* A copy of the Backtest that makes a pass work for it.
Live(b) == b.exists /\ b.finalizer /\ ~b.deleting

\* What an old copy can still say: it is of this run or an earlier one, of this run
\* since the finalizer was set, and one with the finalizer and without a deletion is of
\* an object that has not gone.
SeenBefore ==
    /\ rec.run <= btSeen.run /\ btSeen.run <= bt.run
    /\ bt.finalizer => btSeen.run = bt.run
    /\ btSeen.run = bt.run => btSeen.retain = bt.retain /\ (btSeen.deleting => bt.deleting)
    /\ Live(btSeen) => bt.exists /\ bt.finalizer /\ btSeen.run = bt.run

\* A pass that finalizes does so for a deletion that can be seen.
FinalizesDeleted ==
    rec.pc \in {"finalize", "removeFinalizer"} =>
        /\ ~Live(bt) /\ ~Live(btSeen)
        /\ rec.run = bt.run => rec.retain = bt.retain

\* The results claim belongs to a run that holds the finalizer, or to none any more, and
\* a Retain finalization has let go of it before the finalizer comes off, or missed it.
ClaimFits ==
    /\ owner["pvc"].run <= bt.run
    /\ owner["pvc"].run # 0 => owner["pvc"].exists
    /\ bt.exists /\ ~bt.finalizer => owner["pvc"].run # bt.run
    /\ rec.pc = "removeFinalizer" /\ rec.retain /\ rec.run = bt.run
         => owner["pvc"].run # bt.run \/ rec.unseen

\* A Job by this name belongs to a run that has begun.
JobFits == job.run <= bt.run /\ (job.exists <=> job.run # 0)

\* Only an object with the finalizer can be seen being deleted.
DeletingHolds ==
    /\ bt.exists /\ bt.deleting => bt.finalizer
    /\ btSeen.exists /\ btSeen.deleting => btSeen.finalizer

\* A pod belongs to the unfinished Job of its run, or that run is over.
PodFits ==
    pod.phase # "none" =>
        /\ pod.run \in 1..bt.run
        /\ \/ job.run = pod.run /\ job.failed <= jobBackoffLimit /\ job.succeeded = 0
           \/ job.run # pod.run /\ (pod.run < bt.run \/ ~bt.exists)

Inv ==
    /\ TypeOK /\ HoldsRun /\ Remembers /\ SeenBefore /\ FinalizesDeleted
    /\ ClaimFits /\ JobFits /\ PodFits /\ DeletingHolds

\* The initial state has the invariant.
LEMMA InitInv == Init => Inv
<1> SUFFICES ASSUME Init PROVE Inv
  OBVIOUS
<1>1. /\ rec.pc = "idle" /\ rec.run = 0 /\ pod.phase = "none" /\ job.run = 0
      /\ owner["pvc"].run = 0 /\ ~job.exists
  BY DEF Init, IdleRec, NoPod, NoJob, Absent, Inputs
<1>2. bt.run = 1 /\ btSeen = bt /\ ~bt.deleting /\ ~bt.finalizer
  BY DEF Init
<1> QED
  BY <1>1, <1>2, InitType
     DEF Inv, HoldsRun, Remembers, SeenBefore, FinalizesDeleted, Live, Attending, ClaimFits,
         JobFits, PodFits, DeletingHolds, Creating

\* Runs are numbers, and the first is 1.
LEMMA RunNat ==
  ASSUME TypeOK PROVE bt.run \in Nat /\ btSeen.run \in Nat /\ bt.run # 0 /\ btSeen.run # 0
BY BacktestAssumption DEF TypeOK, Backtests, Runs

\* A step that ends a pass and touches neither the Backtest nor what it owns.
LEMMA EndKeeps ==
  ASSUME Inv, TypeOK', rec' = IdleRec, UNCHANGED <<bt, owner, job, pod>>,
         btSeen' \in {btSeen, bt}
  PROVE  Inv'
<1>1. rec'.pc = "idle" /\ rec'.run = 0 /\ bt.run \in Nat /\ btSeen.run \in Nat
  BY RunNat DEF IdleRec, Inv
<1>2. SeenBefore' /\ FinalizesDeleted' /\ DeletingHolds'
  BY <1>1 DEF Inv, SeenBefore, FinalizesDeleted, DeletingHolds, Live
<1> QED
  BY <1>1, <1>2 DEF Inv, HoldsRun, Remembers, Attending, ClaimFits, JobFits, PodFits, Creating

\* A step that moves a pass on inside the part that only reads.
LEMMA MoveKeeps ==
  ASSUME Inv, TypeOK', rec.pc \notin Attending,
         rec'.pc \in {"observe", "adopt", "patch"}, rec'.run = rec.run,
         UNCHANGED <<bt, btSeen, owner, job, pod>>
  PROVE  Inv'
<1>1. HoldsRun' /\ Remembers' /\ SeenBefore' /\ FinalizesDeleted'
  BY DEF Inv, HoldsRun, Remembers, SeenBefore, FinalizesDeleted, Attending, Creating, Live
<1> QED
  BY <1>1 DEF Inv, ClaimFits, JobFits, PodFits, DeletingHolds

\* A step that moves a pass on towards the Job.
LEMMA CreateKeeps ==
  ASSUME Inv, TypeOK', rec.pc \in Creating, rec'.pc \in Creating, rec'.run = rec.run,
         rec'.recorded = rec.recorded, rec'.fresh = rec.fresh,
         UNCHANGED <<bt, btSeen, job, pod, status>>,
         \/ owner'["pvc"] = owner["pvc"]
         \/ owner'["pvc"].run = bt.run /\ owner'["pvc"].exists
  PROVE  Inv'
<1>1. bt.exists /\ bt.finalizer /\ rec.run = bt.run /\ bt.run \in Runs
  BY DEF Inv, HoldsRun, Attending, Creating, TypeOK, Backtests
<1>2. HoldsRun' /\ Remembers' /\ SeenBefore' /\ FinalizesDeleted'
  BY <1>1 DEF Inv, HoldsRun, Remembers, SeenBefore, FinalizesDeleted, Live, Attending,
     Creating, recordedOutcome
<1>3. ClaimFits'
  BY <1>1 DEF Inv, ClaimFits, Creating, Runs
<1> QED
  BY <1>2, <1>3 DEF Inv, JobFits, PodFits, DeletingHolds

\* What a pass reports is a status.
LEMMA ReportedType == ASSUME TypeOK PROVE Reported \in Statuses
<1> DEFINE w == IF rec.outcome = "Running" THEN "Progressing" ELSE rec.outcome
           v == IF rec.results = "unset" THEN statusSeen.results ELSE rec.results
           m == IF rec.summary = 0 THEN statusSeen.summary ELSE rec.summary
           f == deriveBacktestPhase(rec.outcome)
<1>1. w \in Workloads
  BY DEF TypeOK, Recs, Outcomes, Workloads
<1>2. v \in {"unset", "AsExpected", "ResultsUnavailable", "ReconcileError"}
  BY DEF TypeOK, Recs, Statuses
<1>3. m \in 0..MaxRuns
  BY DEF TypeOK, Recs, Statuses
<1>4. f \in {"", "Pending", "Running", "Succeeded", "Failed", "Error"}
  BY DEF TypeOK, Recs, Outcomes, deriveBacktestPhase
<1>5. Reported = [config |-> "AsExpected", workload |-> w, results |-> v, summary |-> m,
                  phase |-> f]
  BY DEF Reported
<1> HIDE DEF w, v, m, f
<1> QED
  BY <1>1, <1>2, <1>3, <1>4, <1>5 DEF Statuses

\* Every step of Reconcile keeps the invariant.
LEMMA ReconcileInv == ASSUME Inv, Reconcile PROVE Inv'
<1> USE DEF cluster, seen, past
<1>0. TypeOK
  BY DEF Inv
<1>1. CASE Fetch
  <2>1. rec' \in Recs
    <3>1. /\ btSeen.run \in 0..MaxRuns /\ statusSeen.workload \in Workloads
          /\ btSeen.retain \in BOOLEAN
      BY <1>0, RunTypes DEF TypeOK, Backtests, Statuses
    <3>2. IdleRec \in Recs
      BY RunTypes DEF IdleRec, Recs, PCs, Workloads, Outcomes
    <3>3. ASSUME NEW p \in PCs, NEW c \in BOOLEAN, NEW f \in BOOLEAN
          PROVE [IdleRec EXCEPT !.pc = p, !.run = btSeen.run, !.retain = btSeen.retain,
                                !.fresh = c, !.recorded = statusSeen.workload,
                                !.filled = f] \in Recs
      BY <3>1, <3>2 DEF Recs
    <3>4. Current \in BOOLEAN /\ (statusSeen.summary # 0) \in BOOLEAN
      BY DEF Current
    <3> QED
      BY <1>1, <3>2, <3>3, <3>4 DEF Fetch, PCs
  <2>2. TypeOK'
    BY <1>0, <1>1, <2>1 DEF Fetch, TypeOK
  <2>3. CASE rec' = IdleRec
    BY <1>1, <2>2, <2>3, EndKeeps DEF Fetch
  <2>4. CASE rec' # IdleRec
    <3>1. /\ btSeen.exists
          /\ rec'.run = btSeen.run /\ rec'.recorded = statusSeen.workload
          /\ rec'.retain = btSeen.retain /\ rec'.fresh = Current
          /\ rec'.pc = CASE btSeen.deleting -> "finalize"
                         [] ~btSeen.deleting /\ ~btSeen.finalizer -> "addFinalizer"
                         [] OTHER -> "checkJob"
      BY <1>1, <2>4 DEF Fetch, IdleRec
    <3>2. HoldsRun'
      BY <1>1, <3>1 DEF Fetch, Inv, HoldsRun, SeenBefore, Live, Attending
    <3>3. Remembers'
      <4>1. rec'.fresh => statusSeen = status
        BY <3>1 DEF Current
      <4>2. UNCHANGED status /\ rec'.pc \notin Creating
        BY <1>1, <3>1 DEF Fetch, Creating
      <4> QED
        BY <3>1, <4>1, <4>2 DEF Remembers
    <3>4. SeenBefore'
      <4>1. btSeen.run \in Nat /\ bt.run \in Nat
        BY <1>0, RunNat
      <4> QED
        BY <1>1, <3>1, <4>1 DEF Fetch, Inv, SeenBefore, Live
    <3>5. FinalizesDeleted'
      <4>1. btSeen.deleting => ~Live(bt)
        BY DEF Inv, SeenBefore, Live
      <4> QED
        BY <1>1, <3>1, <4>1 DEF Fetch, Inv, SeenBefore, FinalizesDeleted, Live
    <3>6. ClaimFits' /\ JobFits' /\ PodFits' /\ DeletingHolds'
      BY <1>1, <3>1 DEF Fetch, Inv, ClaimFits, JobFits, PodFits, DeletingHolds
    <3> QED
      BY <2>2, <3>2, <3>3, <3>4, <3>5, <3>6 DEF Inv
  <2> QED
    BY <2>3, <2>4
<1>2. CASE AddFinalizer
  <2>1. PassOK /\ rec' = IdleRec
    <3>1. CASE Return(TRUE) /\ UNCHANGED <<status, faults>>
      BY <1>0, <3>1, ReturnType DEF PassOK, TypeOK
    <3> QED
      BY <1>0, <1>2, <3>1, RetryStepType DEF AddFinalizer
  <2>2. /\ bt' \in Backtests
        /\ bt'.exists = bt.exists /\ bt'.run = bt.run /\ bt'.deleting = bt.deleting
        /\ bt'.retain = bt.retain /\ (bt.finalizer => bt'.finalizer)
        /\ bt'.finalizer => bt.finalizer \/ rec.run = bt.run
    <3>1. CASE UNCHANGED bt
      BY <1>0, <3>1 DEF TypeOK, Backtests
    <3>2. CASE bt' = [bt EXCEPT !.finalizer = @ \/ Updatable]
      <4>1. PICK f \in BOOLEAN : f = (bt.finalizer \/ Updatable)
        OBVIOUS
      <4>2. bt' = [bt EXCEPT !.finalizer = f]
        BY <3>2, <4>1
      <4>3. bt' \in Backtests /\ bt'.finalizer = f /\ bt'.exists = bt.exists
            /\ bt'.run = bt.run /\ bt'.deleting = bt.deleting /\ bt'.retain = bt.retain
        BY <1>0, <4>2 DEF TypeOK, Backtests
      <4> QED
        BY <4>1, <4>3 DEF Updatable
    <3> QED
      BY <1>2, <3>1, <3>2 DEF AddFinalizer
  <2>3. TypeOK'
    BY <1>0, <1>2, <2>1, <2>2 DEF AddFinalizer, TypeOK, PassOK
  <2>4. rec'.pc = "idle" /\ rec'.run = 0 /\ rec.pc = "addFinalizer"
    BY <1>2, <2>1 DEF IdleRec, AddFinalizer
  <2>5. SeenBefore'
    <3>1. bt.run \in Nat /\ btSeen.run \in Nat /\ rec.run \in Nat
      BY <1>0, RunNat, BacktestAssumption DEF TypeOK, Recs
    <3>2. bt'.finalizer => btSeen.run = bt.run
      BY <2>2, <3>1 DEF Inv, SeenBefore
    <3> QED
      BY <1>2, <2>2, <2>4, <3>1, <3>2 DEF AddFinalizer, Inv, SeenBefore, Live
  <2>6. HoldsRun' /\ Remembers' /\ FinalizesDeleted'
    BY <2>4 DEF HoldsRun, Remembers, FinalizesDeleted, Attending, Creating
  <2>7. ClaimFits' /\ JobFits' /\ PodFits' /\ DeletingHolds'
    BY <1>2, <2>2, <2>4 DEF AddFinalizer, Inv, ClaimFits, JobFits, PodFits, DeletingHolds
  <2> QED
    BY <2>3, <2>5, <2>6, <2>7 DEF Inv
<1>3. CASE CheckJob
  <2>1. CASE FailStep("config")
    <3>1. TypeOK' /\ rec' = IdleRec
      BY <1>0, <1>3, <2>1, FailStepType DEF CheckJob, TypeOK, PassOK
    <3> QED
      BY <1>3, <3>1, EndKeeps DEF CheckJob
  <2>2. CASE Goto("observe") /\ UNCHANGED <<status, faults>>
    <3>1. TypeOK' /\ rec'.pc = "observe" /\ rec'.run = rec.run
      BY <1>0, <1>3, <2>2, GotoType DEF CheckJob, TypeOK, PCs
    <3> QED
      BY <1>3, <3>1, MoveKeeps DEF CheckJob, Attending
  <2>3. CASE Goto("refs") /\ ~recordedOutcome(rec.recorded) /\ UNCHANGED <<status, faults>>
    <3>1. /\ TypeOK' /\ rec'.pc = "refs" /\ rec'.run = rec.run
          /\ rec'.recorded = rec.recorded /\ rec'.fresh = rec.fresh
      BY <1>0, <1>3, <2>3, GotoType DEF CheckJob, TypeOK, PCs
    <3>2. HoldsRun' /\ Remembers'
      BY <1>3, <2>3, <3>1
         DEF CheckJob, Inv, HoldsRun, Remembers, Attending, Creating, recordedOutcome
    <3>3. SeenBefore' /\ FinalizesDeleted'
      BY <1>3, <3>1 DEF CheckJob, Inv, SeenBefore, FinalizesDeleted, Live
    <3> QED
      BY <1>3, <3>1, <3>2, <3>3
         DEF CheckJob, Inv, ClaimFits, JobFits, PodFits, DeletingHolds
  <2> QED
    BY <1>3, <2>1, <2>2, <2>3 DEF CheckJob
<1>4. CASE ResolveRefs
  <2>1. CASE Goto("secret") /\ UNCHANGED <<status, faults>>
    <3>1. /\ TypeOK' /\ rec'.pc = "secret" /\ rec'.run = rec.run
          /\ rec'.recorded = rec.recorded /\ rec'.fresh = rec.fresh
      BY <1>0, <1>4, <2>1, GotoType DEF ResolveRefs, TypeOK, PCs
    <3> QED
      BY <1>4, <2>1, <3>1, CreateKeeps DEF ResolveRefs, Creating
  <2>2. ASSUME NEW r \in {"ReferenceNotFound", "ReconcileError"},
               failReconcile("config", r), UNCHANGED faults
        PROVE  Inv'
    <3>1. TypeOK' /\ rec' = IdleRec
      BY <1>0, <1>4, <2>2, FailReconcileType DEF ResolveRefs, TypeOK
    <3> QED
      BY <1>4, <3>1, EndKeeps DEF ResolveRefs
  <2>3. CASE FailStep("config")
    <3>1. TypeOK' /\ rec' = IdleRec
      BY <1>0, <1>4, <2>3, FailStepType DEF ResolveRefs, TypeOK, PassOK
    <3> QED
      BY <1>4, <3>1, EndKeeps DEF ResolveRefs
  <2> QED
    BY <1>4, <2>1, <2>2, <2>3 DEF ResolveRefs
<1>5. ASSUME NEW k \in Inputs, NEW n \in Creating, n \in PCs, k \in Creating, ApplyOwned(k, n)
      PROVE  Inv'
  <2>1. CASE /\ owner' = [owner EXCEPT ![k] = [exists |-> TRUE, run |-> rec.run]]
             /\ queued' = (queued \/ (k # "pvc" /\ owner' # owner))
             /\ Goto(n) /\ UNCHANGED <<status, faults>>
    <3>1. rec.run \in 0..MaxRuns /\ rec.run = bt.run
      BY <1>0, <1>5 DEF TypeOK, Recs, ApplyOwned, Inv, HoldsRun, Attending, Creating
    <3>2. owner' \in [Inputs -> Owners]
      BY <1>0, <2>1, <3>1 DEF TypeOK, Owners
    <3>3. \/ owner'["pvc"] = owner["pvc"]
          \/ owner'["pvc"].run = bt.run /\ owner'["pvc"].exists
      BY <1>0, <2>1, <3>1 DEF TypeOK, Inputs
    <3>4. rec' \in Recs /\ timer' \in BOOLEAN /\ rec'.pc = n /\ rec'.run = rec.run
          /\ rec'.recorded = rec.recorded /\ rec'.fresh = rec.fresh
      BY <1>0, <1>5, <2>1, GotoType
    <3>6. queued' \in BOOLEAN
      <4>1. (queued \/ (k # "pvc" /\ owner' # owner)) \in BOOLEAN
        OBVIOUS
      <4> QED
        BY <2>1, <4>1
    <3>5. TypeOK'
      BY <1>0, <1>5, <2>1, <3>2, <3>4, <3>6 DEF ApplyOwned, TypeOK
    <3> QED
      BY <1>5, <2>1, <3>3, <3>4, <3>5, CreateKeeps DEF ApplyOwned
  <2>2. CASE FailStep("config") /\ UNCHANGED <<owner, queued>>
    <3>1. TypeOK' /\ rec' = IdleRec
      BY <1>0, <1>5, <2>2, FailStepType DEF ApplyOwned, TypeOK, PassOK
    <3> QED
      BY <1>5, <2>2, <3>1, EndKeeps DEF ApplyOwned
  <2> QED
    BY <1>5, <2>1, <2>2 DEF ApplyOwned
<1>6. CASE ApplyConfigSecret \/ ApplyStrategyConfigMap \/ ApplyResultsPVC
  BY <1>5, <1>6 DEF ApplyConfigSecret, ApplyStrategyConfigMap, ApplyResultsPVC, Creating,
                    Inputs, PCs
<1>7. CASE EnsureSidecarRBAC
  <2>1. CASE rbac' = TRUE /\ Goto("job") /\ UNCHANGED <<status, faults>>
    <3>1. /\ TypeOK' /\ rec'.pc = "job" /\ rec'.run = rec.run
          /\ rec'.recorded = rec.recorded /\ rec'.fresh = rec.fresh
      BY <1>0, <1>7, <2>1, GotoType DEF EnsureSidecarRBAC, TypeOK, PCs
    <3> QED
      BY <1>7, <2>1, <3>1, CreateKeeps DEF EnsureSidecarRBAC, Creating
  <2>2. CASE FailStep("config") /\ UNCHANGED rbac
    <3>1. TypeOK' /\ rec' = IdleRec
      BY <1>0, <1>7, <2>2, FailStepType DEF EnsureSidecarRBAC, TypeOK, PassOK
    <3> QED
      BY <1>7, <3>1, EndKeeps DEF EnsureSidecarRBAC
  <2> QED
    BY <1>7, <2>1, <2>2 DEF EnsureSidecarRBAC
<1>8. CASE ApplyJob
  <2>1. CASE /\ job' = [(IF job.exists THEN job ELSE NoJob)
                          EXCEPT !.exists = TRUE, !.run = rec.run]
             /\ pod' = IF job.exists /\ pod.run = job.run
                       THEN [pod EXCEPT !.run = rec.run] ELSE pod
             /\ Goto("observe") /\ UNCHANGED <<status, faults>>
    <3>1. rec' \in Recs /\ timer' \in BOOLEAN /\ rec'.pc = "observe" /\ rec'.run = rec.run
      BY <1>0, <2>1, GotoType DEF PCs
    <3>2. bt.run \in 0..MaxRuns /\ bt.run # 0 /\ bt.exists /\ bt.finalizer /\ rec.run = bt.run
      BY <1>0, <1>8, RunTypes DEF TypeOK, Backtests, ApplyJob, Inv, HoldsRun, Attending
    <3>3. job' \in Jobs /\ pod' \in Pods
      BY <1>0, <2>1, <3>2, NoJobType DEF TypeOK, Jobs, Pods
    <3>4. TypeOK'
      BY <1>0, <1>8, <2>1, <3>1, <3>3 DEF ApplyJob, TypeOK
    <3>5. /\ job'.run = bt.run /\ job'.exists
          /\ job.exists => job'.failed = job.failed /\ job'.succeeded = job.succeeded
      BY <1>0, <2>1, <3>2, NoJobType DEF TypeOK, Jobs
    <3>6. JobFits'
      BY <1>0, <1>8, <3>2, <3>5 DEF ApplyJob, JobFits, TypeOK, Backtests, Runs
    <3>7. PodFits'
      <4>1. CASE job.exists /\ pod.run = job.run
        <5>1. pod'.phase = pod.phase /\ pod'.run = bt.run
          BY <1>0, <2>1, <3>2, <4>1 DEF TypeOK, Pods
        <5>2. bt.run \in 1..bt.run
          BY <1>0, <3>2 DEF TypeOK, Backtests, Runs
        <5> QED
          BY <1>8, <3>5, <4>1, <5>1, <5>2 DEF ApplyJob, Inv, PodFits
      <4>2. CASE ~(job.exists /\ pod.run = job.run)
        <5>1. pod' = pod
          BY <2>1, <4>2
        <5>2. pod.phase # "none" => pod.run \in 1..bt.run /\ pod.run < bt.run
          BY <3>2, <4>2 DEF Inv, PodFits, JobFits
        <5> QED
          BY <1>8, <3>2, <3>5, <5>1, <5>2 DEF ApplyJob, PodFits
      <4> QED
        BY <4>1, <4>2
    <3>8. HoldsRun' /\ Remembers' /\ SeenBefore' /\ FinalizesDeleted'
      BY <1>8, <3>1, <3>2
         DEF ApplyJob, Inv, HoldsRun, Remembers, SeenBefore, FinalizesDeleted, Live,
             Attending, Creating
    <3>9. ClaimFits' /\ DeletingHolds'
      BY <1>8, <3>1 DEF ApplyJob, Inv, ClaimFits, DeletingHolds
    <3> QED
      BY <3>4, <3>6, <3>7, <3>8, <3>9 DEF Inv
  <2>2. CASE failReconcile("config", "ReconcileError") /\ UNCHANGED <<job, pod, faults>>
    <3>1. TypeOK' /\ rec' = IdleRec
      BY <1>0, <1>8, <2>2, FailReconcileType DEF ApplyJob, TypeOK
    <3> QED
      BY <1>8, <2>2, <3>1, EndKeeps DEF ApplyJob
  <2>3. CASE FailStep("config") /\ UNCHANGED <<job, pod>>
    <3>1. TypeOK' /\ rec' = IdleRec
      BY <1>0, <1>8, <2>3, FailStepType DEF ApplyJob, TypeOK, PassOK
    <3> QED
      BY <1>8, <2>3, <3>1, EndKeeps DEF ApplyJob
  <2> QED
    BY <1>8, <2>1, <2>2, <2>3 DEF ApplyJob
<1>9. CASE ComputeWorkloadStatus
  <2>1. ASSUME NEW o \in Outcomes, Observed(o) PROVE Inv'
    <3>1. rec' \in Recs
      BY <1>0, <2>1 DEF Observed, TypeOK, Recs, PCs
    <3>2. TypeOK'
      BY <1>0, <1>9, <2>1, <3>1 DEF ComputeWorkloadStatus, Observed, TypeOK
    <3>3. rec'.pc \in {"adopt", "patch"} /\ rec'.run = rec.run
      BY <1>0, <2>1 DEF Observed, TypeOK, Recs
    <3> QED
      BY <1>9, <3>2, <3>3, MoveKeeps DEF ComputeWorkloadStatus, Attending
  <2>2. CASE failReconcile("workload", "ReconcileError") /\ UNCHANGED faults
    <3>1. TypeOK' /\ rec' = IdleRec
      BY <1>0, <1>9, <2>2, FailReconcileType DEF ComputeWorkloadStatus, TypeOK
    <3> QED
      BY <1>9, <3>1, EndKeeps DEF ComputeWorkloadStatus
  <2>3. CASE FailStep("workload")
    <3>1. TypeOK' /\ rec' = IdleRec
      BY <1>0, <1>9, <2>3, FailStepType DEF ComputeWorkloadStatus, TypeOK, PassOK
    <3> QED
      BY <1>9, <3>1, EndKeeps DEF ComputeWorkloadStatus
  <2>4. workloadOf(jobSeen) \in Outcomes
    BY <1>0 DEF TypeOK, Jobs, workloadOf, Outcomes, jobBackoffLimit
  <2>5. recordedOutcome(rec.recorded) => rec.recorded \in Outcomes
    BY DEF recordedOutcome, Outcomes
  <2> QED
    BY <1>9, <2>1, <2>2, <2>3, <2>4, <2>5 DEF ComputeWorkloadStatus
<1>10. CASE AdoptAndParseResults
  <2>1. CASE rec' = [rec EXCEPT !.pc = "patch", !.requeue = TRUE]
             /\ UNCHANGED <<timer, status, faults, cm, queued>>
    <3>1. TypeOK' /\ rec'.pc = "patch" /\ rec'.run = rec.run
      BY <1>0, <1>10, <2>1 DEF AdoptAndParseResults, TypeOK, Recs, PCs
    <3> QED
      BY <1>10, <3>1, MoveKeeps DEF AdoptAndParseResults, Attending
  <2>2. CASE /\ cm' = ensureOwned
             /\ queued' = (queued \/ cm' # cm)
             /\ rec' = [rec EXCEPT !.pc = "patch",
                 !.results = IF cm.data = "results" THEN "AsExpected" ELSE "ResultsUnavailable",
                 !.summary = IF cm.data = "results" THEN cm.run ELSE 0]
             /\ UNCHANGED <<timer, status, faults>>
    <3>1. rec.run \in 0..MaxRuns /\ cm.run \in 0..MaxRuns
      BY <1>0 DEF TypeOK, Recs, Maps
    <3>2. cm' \in Maps
      BY <1>0, <2>2, <3>1 DEF TypeOK, Maps, ensureOwned
    <3>3. rec' \in Recs /\ rec'.pc = "patch" /\ rec'.run = rec.run
      <4> DEFINE x == IF cm.data = "results" THEN "AsExpected" ELSE "ResultsUnavailable"
                 y == IF cm.data = "results" THEN cm.run ELSE 0
      <4>1. x \in {"unset", "AsExpected", "ResultsUnavailable"} /\ y \in 0..MaxRuns
        BY <3>1, RunTypes
      <4>2. rec' = [rec EXCEPT !.pc = "patch", !.results = x, !.summary = y]
        BY <2>2
      <4> HIDE DEF x, y
      <4> QED
        BY <1>0, <4>1, <4>2 DEF TypeOK, Recs, PCs
    <3>4. TypeOK'
      BY <1>0, <1>10, <2>2, <3>2, <3>3 DEF AdoptAndParseResults, TypeOK
    <3> QED
      BY <1>10, <3>3, <3>4, MoveKeeps DEF AdoptAndParseResults, Attending
  <2>3. CASE failReconcile("results", "ReconcileError") /\ UNCHANGED <<faults, cm, queued>>
    <3>1. TypeOK' /\ rec' = IdleRec
      BY <1>0, <1>10, <2>3, FailReconcileType DEF AdoptAndParseResults, TypeOK
    <3> QED
      BY <1>10, <3>1, EndKeeps DEF AdoptAndParseResults
  <2>4. CASE FailStep("results") /\ UNCHANGED <<cm, queued>>
    <3>1. TypeOK' /\ rec' = IdleRec
      BY <1>0, <1>10, <2>4, FailStepType DEF AdoptAndParseResults, TypeOK, PassOK
    <3> QED
      BY <1>10, <3>1, EndKeeps DEF AdoptAndParseResults
  <2> QED
    BY <1>10, <2>1, <2>2, <2>3, <2>4 DEF AdoptAndParseResults
<1>11. CASE PatchSuccess
  <2>1. CASE RetryStep /\ UNCHANGED past
    <3>1. TypeOK' /\ rec' = IdleRec
      BY <1>0, <1>11, <2>1, RetryStepType DEF PatchSuccess, TypeOK, PassOK, past
    <3> QED
      BY <1>11, <3>1, EndKeeps DEF PatchSuccess
  <2>2. CASE Return(TRUE) /\ UNCHANGED <<status, faults, past>>
    <3>1. TypeOK' /\ rec' = IdleRec
      BY <1>0, <1>11, <2>2, ReturnType DEF PatchSuccess, TypeOK, past
    <3> QED
      BY <1>11, <3>1, EndKeeps DEF PatchSuccess
  <2>3. CASE /\ \/ status' = Reported /\ lost' = FALSE
                   /\ ended' = (Reported.workload \in {"Succeeded", "Failed"})
                \/ lost' = TRUE /\ UNCHANGED <<status, ended>>
             /\ Return(rec.outcome \in {"Progressing", "Running"} \/ rec.requeue)
             /\ UNCHANGED faults
    <3>1. status' \in Statuses
      BY <1>0, <2>3, ReportedType DEF TypeOK
    <3>2. lost' \in BOOLEAN /\ ended' \in BOOLEAN
      <4>1. (Reported.workload \in {"Succeeded", "Failed"}) \in BOOLEAN
        OBVIOUS
      <4> QED
        BY <1>0, <2>3, <4>1 DEF TypeOK
    <3> DEFINE q == rec.outcome \in {"Progressing", "Running"} \/ rec.requeue
    <3>3. q \in BOOLEAN /\ Return(q)
      BY <2>3
    <3> HIDE DEF q
    <3>4. rec' \in Recs /\ timer' \in BOOLEAN /\ rec' = IdleRec
      BY <1>0, <3>3, ReturnType
    <3>5. TypeOK'
      BY <1>0, <1>11, <2>3, <3>1, <3>2, <3>4 DEF PatchSuccess, TypeOK
    <3> QED
      BY <1>11, <3>4, <3>5, EndKeeps DEF PatchSuccess
  <2> QED
    BY <1>11, <2>1, <2>2, <2>3 DEF PatchSuccess
<1>12. CASE FinalizeBacktest
  <2>1. CASE RetryStep /\ UNCHANGED owner
    <3>1. TypeOK' /\ rec' = IdleRec
      BY <1>0, <1>12, <2>1, RetryStepType DEF FinalizeBacktest, TypeOK, PassOK
    <3> QED
      BY <1>12, <2>1, <3>1, EndKeeps DEF FinalizeBacktest
  <2>2. CASE Return(TRUE) /\ UNCHANGED <<owner, status, faults>>
    <3>1. TypeOK' /\ rec' = IdleRec
      BY <1>0, <1>12, <2>2, ReturnType DEF FinalizeBacktest, TypeOK
    <3> QED
      BY <1>12, <2>2, <3>1, EndKeeps DEF FinalizeBacktest
  <2>3. ASSUME rec' \in Recs, UNCHANGED <<timer, status, faults>>,
               rec'.pc = "removeFinalizer", rec'.run = rec.run, rec'.retain = rec.retain,
               \/ UNCHANGED owner
               \/ owner["pvc"].exists /\ owner' = [owner EXCEPT !["pvc"].run = 0],
               rec.retain /\ rec.run = bt.run /\ owner'["pvc"].run = bt.run
                 => rec'.unseen \/ ~owner["pvc"].exists
        PROVE  Inv'
    <3>1. owner' \in [Inputs -> Owners]
      BY <1>0, <2>3, RunTypes DEF TypeOK, Inputs, Owners
    <3>2. TypeOK'
      BY <1>0, <1>12, <2>3, <3>1 DEF FinalizeBacktest, TypeOK
    <3>3. UNCHANGED <<bt, btSeen, job, pod>> /\ rec.pc = "finalize"
      BY <1>12 DEF FinalizeBacktest
    <3>4. bt.run \in Nat /\ bt.run # 0
      BY <1>0, RunNat
    <3>5. \/ UNCHANGED owner
          \/ owner'["pvc"].run = 0 /\ owner'["pvc"].exists = owner["pvc"].exists
      BY <1>0, <2>3 DEF TypeOK, Inputs, Owners
    <3>6. ClaimFits'
      BY <2>3, <3>3, <3>4, <3>5 DEF Inv, ClaimFits
    <3>7. HoldsRun' /\ Remembers' /\ SeenBefore' /\ FinalizesDeleted'
      BY <2>3, <3>3 DEF Inv, HoldsRun, Remembers, SeenBefore, FinalizesDeleted, Live,
         Attending, Creating
    <3>8. JobFits' /\ PodFits' /\ DeletingHolds'
      BY <3>3 DEF Inv, JobFits, PodFits, DeletingHolds
    <3> QED
      BY <3>2, <3>6, <3>7, <3>8 DEF Inv
  <2>4. CASE ~rec.retain /\ Goto("removeFinalizer") /\ UNCHANGED <<status, owner, faults>>
    BY <1>0, <2>3, <2>4, GotoType DEF PCs, Goto
  <2>5. CASE rec.retain /\ PreserveClaim /\ UNCHANGED <<status, faults>>
    <3>1. CASE /\ ~pvcSeen.exists
               /\ rec' = [rec EXCEPT !.pc = "removeFinalizer", !.unseen = owner["pvc"].exists]
               /\ UNCHANGED <<owner, timer>>
      <4>1. owner["pvc"].exists \in BOOLEAN
        BY <1>0 DEF TypeOK, Inputs, Owners
      <4>2. /\ rec' \in Recs /\ rec'.pc = "removeFinalizer" /\ rec'.run = rec.run
            /\ rec'.retain = rec.retain /\ rec'.unseen = owner["pvc"].exists
        BY <1>0, <3>1, <4>1 DEF TypeOK, Recs, PCs
      <4> QED
        BY <2>3, <2>5, <3>1, <4>2
    <3>2. CASE /\ pvcSeen.exists /\ pvcSeen = owner["pvc"]
               /\ owner' = IF pvcSeen.run = rec.run
                           THEN [owner EXCEPT !["pvc"].run = 0] ELSE owner
               /\ Goto("removeFinalizer")
      <4>1. /\ rec' \in Recs /\ rec'.pc = "removeFinalizer" /\ rec'.run = rec.run
            /\ rec'.retain = rec.retain /\ UNCHANGED timer
        BY <1>0, <3>2, GotoType DEF PCs, Goto
      <4>2. CASE pvcSeen.run = rec.run
        <5>1. owner' = [owner EXCEPT !["pvc"].run = 0] /\ owner["pvc"].exists
          BY <3>2, <4>2
        <5>2. owner'["pvc"].run = 0
          BY <1>0, <5>1 DEF TypeOK, Inputs, Owners
        <5>3. owner'["pvc"].run # bt.run
          BY <1>0, <5>2, RunNat
        <5> QED
          BY <2>3, <2>5, <4>1, <5>1, <5>3
      <4>3. CASE pvcSeen.run # rec.run
        BY <2>3, <2>5, <3>2, <4>1, <4>3
      <4> QED
        BY <4>2, <4>3
    <3>3. CASE Return(TRUE) /\ UNCHANGED owner
      BY <2>2, <2>5, <3>3
    <3> QED
      BY <2>5, <3>1, <3>2, <3>3 DEF PreserveClaim
  <2> QED
    BY <1>12, <2>1, <2>4, <2>5 DEF FinalizeBacktest
<1>13. CASE RemoveFinalizer
  <2>1. CASE RetryStep /\ UNCHANGED bt
    <3>1. TypeOK' /\ rec' = IdleRec
      BY <1>0, <1>13, <2>1, RetryStepType DEF RemoveFinalizer, TypeOK, PassOK
    <3> QED
      BY <1>13, <2>1, <3>1, EndKeeps DEF RemoveFinalizer
  <2>2. CASE Return(TRUE) /\ UNCHANGED <<bt, status, faults>>
    <3>1. TypeOK' /\ rec' = IdleRec
      BY <1>0, <1>13, <2>2, ReturnType DEF RemoveFinalizer, TypeOK
    <3> QED
      BY <1>13, <2>2, <3>1, EndKeeps DEF RemoveFinalizer
  <2>3. CASE /\ bt' = [bt EXCEPT !.exists = FALSE, !.finalizer = FALSE]
             /\ Return(FALSE) /\ UNCHANGED <<status, faults>>
    <3>1. rec' \in Recs /\ timer' \in BOOLEAN /\ rec' = IdleRec
      BY <1>0, <2>3, ReturnType
    <3>2. /\ bt' \in Backtests /\ ~bt'.exists /\ bt'.run = bt.run /\ ~bt'.finalizer
          /\ bt'.deleting = bt.deleting /\ bt'.retain = bt.retain
      BY <1>0, <2>3 DEF TypeOK, Backtests
    <3>3. TypeOK'
      BY <1>0, <1>13, <2>3, <3>1, <3>2 DEF RemoveFinalizer, TypeOK
    <3>4. rec'.pc = "idle" /\ rec'.run = 0 /\ rec.pc = "removeFinalizer"
      BY <1>13, <3>1 DEF IdleRec, RemoveFinalizer
    <3>5. SeenBefore'
      <4>1. btSeen.run \in Nat
        BY <1>0, RunNat
      <4> QED
        BY <1>13, <3>2, <3>4, <4>1
           DEF RemoveFinalizer, Inv, SeenBefore, FinalizesDeleted, Live
    <3>6. HoldsRun' /\ Remembers' /\ FinalizesDeleted'
      BY <3>4 DEF HoldsRun, Remembers, FinalizesDeleted, Attending, Creating
    <3>7. ClaimFits' /\ JobFits' /\ PodFits' /\ DeletingHolds'
      BY <1>13, <3>2, <3>4 DEF RemoveFinalizer, Inv, ClaimFits, JobFits, PodFits, DeletingHolds
    <3> QED
      BY <3>3, <3>5, <3>6, <3>7 DEF Inv
  <2> QED
    BY <1>13, <2>1, <2>2, <2>3 DEF RemoveFinalizer
<1> QED
  BY <1>1, <1>2, <1>3, <1>4, <1>6, <1>7, <1>8, <1>9, <1>10, <1>11, <1>12, <1>13 DEF Reconcile

-----------------------------------------------------------------------------
(* The queue, the user and the cluster.                                    *)

\* The steps that leave the Backtest, the Job and the claim alone.
LEMMA QueueInv ==
  ASSUME Inv, \/ TimerFires \/ InformerSync \/ ClaimSync \/ ObjectSync
              \/ OperatorRestart \/ EditRefs
  PROVE  Inv'
<1> USE DEF cluster, seen
<1>0. TypeOK
  BY DEF Inv
<1>1. CASE TimerFires \/ InformerSync \/ ClaimSync \/ ObjectSync \/ EditRefs
  <2>1. TypeOK'
    <3>1. CASE TimerFires
      BY <1>0, <3>1 DEF TypeOK, TimerFires, past
    <3>2. CASE InformerSync
      BY <1>0, <3>2 DEF TypeOK, InformerSync, past
    <3>3. CASE ClaimSync
      <4>1. pvcSeen' \in Owners
        BY <1>0, <3>3 DEF TypeOK, ClaimSync, Inputs
      <4> QED
        BY <1>0, <3>3, <4>1 DEF TypeOK, ClaimSync, past
    <3>4. CASE ObjectSync
      <4>1. (queued \/ ~SameButFinalizer(btSeen, bt)) \in BOOLEAN
        OBVIOUS
      <4>2. queued' \in BOOLEAN
        BY <3>4, <4>1 DEF ObjectSync
      <4> QED
        BY <1>0, <3>4, <4>2 DEF TypeOK, ObjectSync, past
    <3>5. CASE EditRefs
      <4>1. edits' \in 0..MaxEdits
        BY <1>0, <3>5, BacktestAssumption DEF TypeOK, EditRefs, Edit
      <4>2. refs' \in Refs
        BY <3>5 DEF EditRefs
      <4> QED
        BY <1>0, <3>5, <4>1, <4>2 DEF TypeOK, EditRefs, past
    <3> QED
      BY <1>1, <3>1, <3>2, <3>3, <3>4, <3>5
  <2>2. UNCHANGED <<bt, status, rec, owner, job, pod>> /\ btSeen' \in {btSeen, bt}
    BY <1>1 DEF TimerFires, InformerSync, ClaimSync, ObjectSync, EditRefs
  <2>3. SeenBefore' /\ FinalizesDeleted' /\ DeletingHolds'
    <3>1. bt.run \in Nat /\ btSeen.run \in Nat /\ rec.run \in Nat
      BY <1>0, RunNat, BacktestAssumption DEF TypeOK, Recs
    <3> QED
      BY <2>2, <3>1 DEF Inv, SeenBefore, FinalizesDeleted, DeletingHolds, Live
  <2> QED
    BY <2>1, <2>2, <2>3 DEF Inv, HoldsRun, Remembers, ClaimFits, JobFits, PodFits
<1>2. CASE OperatorRestart
  <2>1. rec' \in Recs /\ rec' = IdleRec
    BY <1>2, RunTypes DEF OperatorRestart, IdleRec, Recs, PCs, Workloads, Outcomes
  <2>2. faults' \in 0..MaxFaults /\ pvcSeen' \in Owners
    BY <1>0, <1>2, FaultType DEF OperatorRestart, TypeOK, Inputs
  <2>3. TypeOK'
    BY <1>0, <1>2, <2>1, <2>2 DEF TypeOK, OperatorRestart, past
  <2> QED
    BY <1>2, <2>1, <2>3, EndKeeps DEF OperatorRestart
<1> QED
  BY <1>1, <1>2

\* Deleting the Backtest and creating the name again.
LEMMA UserInv == ASSUME Inv, DeleteBacktest \/ CreateAgain PROVE Inv'
<1> USE DEF cluster, seen
<1>0. TypeOK
  BY DEF Inv
<1>n. bt.run \in Nat /\ btSeen.run \in Nat /\ rec.run \in Nat
  BY <1>0, RunNat, BacktestAssumption DEF TypeOK, Recs
<1>1. CASE DeleteBacktest
  <2>1. /\ bt' \in Backtests
        /\ bt'.run = bt.run /\ bt'.retain = bt.retain /\ bt'.finalizer = bt.finalizer
        /\ bt'.exists = bt.finalizer /\ bt'.deleting = bt.finalizer
    BY <1>0, <1>1 DEF TypeOK, Backtests, DeleteBacktest
  <2>2. edits' \in 0..MaxEdits
    BY <1>0, <1>1, BacktestAssumption DEF TypeOK, DeleteBacktest, Edit
  <2>3. TypeOK'
    BY <1>0, <1>1, <2>1, <2>2 DEF TypeOK, DeleteBacktest, past
  <2>4. bt.exists /\ ~bt.deleting /\ UNCHANGED <<btSeen, rec, status, owner, job, pod>>
    BY <1>1 DEF DeleteBacktest
  <2>5. HoldsRun' /\ Remembers' /\ DeletingHolds'
    BY <2>1, <2>4 DEF Inv, HoldsRun, Remembers, DeletingHolds
  <2>6. SeenBefore'
    <3>1. btSeen.run = bt.run => ~btSeen.deleting
      BY <2>4 DEF Inv, SeenBefore
    <3> QED
      BY <2>1, <2>4, <3>1 DEF Inv, SeenBefore, Live
  <2>7. FinalizesDeleted'
    BY <2>1, <2>4 DEF Inv, FinalizesDeleted, Live
  <2>8. ClaimFits' /\ JobFits' /\ PodFits'
    BY <2>1, <2>4 DEF Inv, ClaimFits, JobFits, PodFits
  <2> QED
    BY <2>3, <2>5, <2>6, <2>7, <2>8 DEF Inv
<1>2. CASE CreateAgain
  <2>1. PICK r \in BOOLEAN :
          bt' = [exists |-> TRUE, deleting |-> FALSE, finalizer |-> FALSE,
                 retain |-> r, run |-> bt.run + 1]
    BY <1>2 DEF CreateAgain
  <2>2. bt.run + 1 \in Runs
    BY <1>2, <1>n, BacktestAssumption DEF CreateAgain, Runs
  <2>3. TypeOK'
    <3>1. bt' \in Backtests
      BY <2>1, <2>2 DEF Backtests
    <3> QED
      BY <1>0, <1>2, <3>1, NothingType DEF TypeOK, CreateAgain
  <2>4. rec.pc \in Attending /\ ~Live(btSeen)
    BY <1>2 DEF CreateAgain, Inv, HoldsRun, SeenBefore
  <2>5. HoldsRun' /\ Remembers' /\ DeletingHolds'
    BY <1>2, <2>1, <2>4
       DEF CreateAgain, Inv, HoldsRun, Remembers, DeletingHolds, Attending, Creating
  <2>6. SeenBefore'
    BY <1>2, <1>n, <2>1, <2>4 DEF CreateAgain, Inv, SeenBefore, Live
  <2>7. FinalizesDeleted'
    <3>1. rec.run # bt.run + 1
      BY <1>n DEF Inv, SeenBefore
    <3> QED
      BY <1>2, <2>1, <2>4, <3>1 DEF CreateAgain, FinalizesDeleted, Live
  <2>8. ClaimFits'
    <3>1. owner["pvc"].run \in Nat /\ owner["pvc"].run <= bt.run /\ rec.run # bt.run + 1
      BY <1>0, <1>n, BacktestAssumption DEF TypeOK, Owners, Inputs, Inv, ClaimFits, SeenBefore
    <3> QED
      BY <1>2, <1>n, <2>1, <3>1 DEF CreateAgain, Inv, ClaimFits
  <2>9. JobFits'
    <3>1. job.run \in Nat
      BY <1>0, BacktestAssumption DEF TypeOK, Jobs
    <3> QED
      BY <1>2, <1>n, <2>1, <3>1 DEF CreateAgain, Inv, JobFits
  <2>10. PodFits'
    <3>1. pod.run \in Nat
      BY <1>0, BacktestAssumption DEF TypeOK, Pods
    <3> QED
      BY <1>2, <1>n, <2>1, <3>1 DEF CreateAgain, Inv, PodFits
  <2> QED
    BY <2>3, <2>5, <2>6, <2>7, <2>8, <2>9, <2>10 DEF Inv
<1> QED
  BY <1>1, <1>2

\* The Job controller, the pod, its sidecar, the TTL controller and the collector.
LEMMA ClusterInv == ASSUME Inv, Cluster \/ ReapJob PROVE Inv'
<1> USE DEF running, seen, past
<1>0. TypeOK
  BY DEF Inv
<1>r. UNCHANGED <<bt, btSeen, status, rec>>
        => HoldsRun' /\ Remembers' /\ DeletingHolds' /\ SeenBefore' /\ FinalizesDeleted'
  BY DEF Inv, HoldsRun, Remembers, DeletingHolds, SeenBefore, FinalizesDeleted, Live
<1>c. UNCHANGED <<bt, rec, owner>> => ClaimFits'
  BY DEF Inv, ClaimFits
<1>1. CASE PodStart
  <2>1. job' \in Jobs /\ job'.run = job.run /\ job'.exists = job.exists
        /\ job'.failed = job.failed /\ job'.succeeded = job.succeeded
    <3>1. job' = [job EXCEPT !.active = 1] /\ job \in Jobs /\ 1 \in 0..1
      BY <1>0, <1>1 DEF PodStart, TypeOK
    <3>2. job' \in Jobs
      BY <3>1, JobUpdates, NoJobType DEF NoJob, Jobs
    <3> QED
      BY <3>1, <3>2 DEF Jobs
  <2>2. pod' \in Pods /\ pod'.run = job.run
    BY <1>0, <1>1 DEF PodStart, TypeOK, Jobs, Pods
  <2>3. TypeOK'
    BY <1>0, <1>1, <2>1, <2>2 DEF PodStart, TypeOK
  <2>4. JobFits'
    BY <1>1, <2>1 DEF PodStart, Inv, JobFits
  <2>5. PodFits'
    <3>1. job.run \in 1..bt.run
      BY <1>0, <1>1, BacktestAssumption DEF PodStart, Inv, JobFits, TypeOK, Jobs, Backtests, Runs
    <3>2. job.failed <= jobBackoffLimit /\ job.succeeded = 0
      BY <1>0, <1>1 DEF PodStart, Finished, TypeOK, Jobs, jobBackoffLimit
    <3> QED
      BY <1>1, <2>1, <2>2, <3>1, <3>2 DEF PodStart, PodFits
  <2> QED
    BY <1>1, <1>r, <1>c, <2>3, <2>4, <2>5 DEF PodStart, Inv
<1>2. CASE MainExits
  <2>1. pod' \in Pods /\ pod'.run = pod.run
    BY <1>0, <1>2 DEF MainExits, TypeOK, Pods
  <2>2. TypeOK'
    BY <1>0, <1>2, <2>1 DEF MainExits, TypeOK
  <2>3. JobFits' /\ PodFits'
    BY <1>2, <2>1 DEF MainExits, Inv, JobFits, PodFits
  <2> QED
    BY <1>2, <1>r, <1>c, <2>2, <2>3 DEF MainExits, Inv
<1>3. CASE CollectResults
  <2>1. pod' \in Pods /\ pod'.run = pod.run /\ pod.phase # "none"
    BY <1>0, <1>3 DEF CollectResults, TypeOK, Pods
  <2>2. cm' \in Maps
    <3>1. pod.run \in 0..MaxRuns
      BY <1>0 DEF TypeOK, Pods
    <3>2. ASSUME NEW d \in {"results", "error"}
          PROVE  [exists |-> TRUE, run |-> pod.run, data |-> d, owner |-> 0] \in Maps
      BY <3>1, RunTypes DEF Maps
    <3> QED
      BY <1>0, <1>3, <3>2 DEF CollectResults, TypeOK
  <2>3. faults' \in 0..MaxFaults
    BY <1>0, <1>3, FaultType DEF CollectResults, TypeOK
  <2>4. TypeOK'
    BY <1>0, <1>3, <2>1, <2>2, <2>3 DEF CollectResults, TypeOK
  <2>5. JobFits' /\ PodFits'
    BY <1>3, <2>1 DEF CollectResults, Inv, JobFits, PodFits
  <2> QED
    BY <1>3, <1>r, <1>c, <2>4, <2>5 DEF CollectResults, Inv
<1>4. CASE PodDone
  <2>1. pod' \in Pods /\ pod'.phase = "none"
    BY <1>4, NothingType DEF PodDone, NoPod
  <2>2. job' \in Jobs
    <3>1. CASE job.run # pod.run
      BY <1>0, <1>4, <3>1 DEF PodDone, TypeOK
    <3>2. CASE job.run = pod.run
      <4>1. job.failed + 1 \in 0..(jobBackoffLimit + 1)
        BY <1>0, <1>4, <3>2 DEF PodDone, Inv, PodFits, TypeOK, Jobs, jobBackoffLimit
      <4>2. job \in Jobs /\ 0 \in 0..1 /\ 1 \in 0..1
        BY <1>0 DEF TypeOK
      <4>3. /\ [job EXCEPT !.active = 0, !.failed = job.failed + 1] \in Jobs
            /\ [job EXCEPT !.active = 0, !.succeeded = 1] \in Jobs
        BY <4>1, <4>2, JobUpdates
      <4> QED
        BY <1>4, <3>2, <4>3 DEF PodDone
    <3> QED
      BY <3>1, <3>2
  <2>3. job'.run = job.run /\ job'.exists = job.exists
    BY <1>0, <1>4 DEF PodDone, TypeOK, Jobs
  <2>4. TypeOK'
    BY <1>0, <1>4, <2>1, <2>2 DEF PodDone, TypeOK
  <2>5. JobFits' /\ PodFits'
    BY <1>4, <2>1, <2>3 DEF PodDone, Inv, JobFits, PodFits
  <2> QED
    BY <1>4, <1>r, <1>c, <2>4, <2>5 DEF PodDone, Inv
<1>5. CASE ReapJob
  <2>1. job' \in Jobs /\ job'.run = 0 /\ ~job'.exists
    BY <1>5, NoJobType DEF ReapJob, NoJob
  <2>2. TypeOK'
    BY <1>0, <1>5, <2>1 DEF ReapJob, TypeOK
  <2>3. JobFits'
    BY <1>0, <1>5, <2>1 DEF ReapJob, JobFits, TypeOK, Backtests, Runs
  <2>4. PodFits'
    <3>1. job.succeeded > 0 \/ job.failed > jobBackoffLimit
      BY <1>5 DEF ReapJob, Finished
    <3>2. pod.phase # "none" => job.run # pod.run
      BY <1>0, <3>1 DEF Inv, PodFits, TypeOK, Jobs, jobBackoffLimit
    <3> QED
      BY <1>5, <2>1, <3>2 DEF ReapJob, Inv, PodFits
  <2> QED
    BY <1>5, <1>r, <1>c, <2>2, <2>3, <2>4 DEF ReapJob, Inv
<1>6. CASE GarbageCollect
  <2>1. ASSUME NEW k \in Inputs, owner' = [owner EXCEPT ![k] = Absent],
               queued' = (queued \/ k # "pvc"), UNCHANGED <<job, pod, cm>>
        PROVE  Inv'
    <3>1. owner' \in [Inputs -> Owners]
      BY <1>0, <2>1, NothingType DEF TypeOK
    <3>2. owner'["pvc"] = owner["pvc"] \/ owner'["pvc"].run = 0
      BY <1>0, <2>1 DEF TypeOK, Inputs, Absent
    <3>5. queued' \in BOOLEAN
      <4>1. (queued \/ k # "pvc") \in BOOLEAN
        OBVIOUS
      <4> QED
        BY <2>1, <4>1
    <3>3. TypeOK'
      BY <1>0, <1>6, <2>1, <3>1, <3>5 DEF GarbageCollect, TypeOK
    <3>4. ClaimFits'
      <4>1. bt.run \in Nat /\ bt.run # 0
        BY <1>0, BacktestAssumption DEF TypeOK, Backtests, Runs
      <4> QED
        BY <1>6, <3>2, <4>1 DEF GarbageCollect, Inv, ClaimFits
    <3> QED
      BY <1>6, <1>r, <2>1, <3>3, <3>4 DEF GarbageCollect, Inv, JobFits, PodFits
  <2>2. CASE /\ Gone(job.run) /\ job' = NoJob
             /\ pod' = IF pod.phase = "running" THEN [pod EXCEPT !.phase = "exitedBad"] ELSE pod
             /\ UNCHANGED <<owner, cm, queued>>
    <3>1. job' \in Jobs /\ job'.run = 0 /\ ~job'.exists
      BY <2>2, NoJobType DEF NoJob
    <3>2. pod' \in Pods /\ pod'.run = pod.run /\ (pod'.phase = "none" <=> pod.phase = "none")
      BY <1>0, <2>2 DEF TypeOK, Pods
    <3>3. TypeOK'
      BY <1>0, <1>6, <2>2, <3>1, <3>2 DEF GarbageCollect, TypeOK
    <3>4. JobFits'
      BY <1>0, <1>6, <3>1 DEF GarbageCollect, JobFits, TypeOK, Backtests, Runs
    <3>5. PodFits'
      <4>1. pod.phase # "none" =>
              pod.run \in 1..bt.run /\ pod.run # 0 /\ (pod.run < bt.run \/ ~bt.exists)
        BY <1>0, <2>2, BacktestAssumption DEF Inv, PodFits, Gone, TypeOK, Backtests, Runs
      <4> QED
        BY <1>6, <3>1, <3>2, <4>1 DEF GarbageCollect, PodFits
    <3> QED
      BY <1>6, <1>r, <1>c, <2>2, <3>3, <3>4, <3>5 DEF GarbageCollect, Inv
  <2>3. CASE cm' = NoCM /\ queued' = TRUE /\ UNCHANGED <<owner, job, pod>>
    <3>1. TypeOK'
      BY <1>0, <1>6, <2>3, NothingType DEF GarbageCollect, TypeOK
    <3> QED
      BY <1>6, <1>r, <1>c, <2>3, <3>1 DEF GarbageCollect, Inv, JobFits, PodFits
  <2> QED
    BY <1>6, <2>1, <2>2, <2>3 DEF GarbageCollect
<1> QED
  BY <1>1, <1>2, <1>3, <1>4, <1>5, <1>6 DEF Cluster

-----------------------------------------------------------------------------
(* The theorems.                                                           *)

\* The inductive invariant holds of every state the Backtest controller reaches.
THEOREM Invariance == Spec => []Inv
<1>1. Inv /\ [Next]_vars => Inv'
  <2>1. ASSUME Inv, Next PROVE Inv'
    BY <2>1, ReconcileInv, QueueInv, UserInv, ClusterInv DEF Next
  <2>2. ASSUME Inv, UNCHANGED vars PROVE Inv'
    <3>1. TypeOK'
      BY <2>2 DEF Inv, TypeOK, vars
    <3> QED
      BY <2>2, <3>1
         DEF vars, Inv, HoldsRun, Remembers, SeenBefore, FinalizesDeleted, Live, ClaimFits,
             JobFits, PodFits, DeletingHolds
  <2> QED
    BY <2>1, <2>2
<1> QED
  BY <1>1, InitInv, PTL DEF Spec

\* Every variable of the model keeps its type, the retry count of the Job included: a
\* pod is never counted against a Job that has used up jobBackoffLimit.
THEOREM TypeCorrect == Spec => []TypeOK
<1>1. Inv => TypeOK
  BY DEF Inv
<1> QED
  BY <1>1, Invariance, PTL

\* A pass of Reconcile works on the Backtest it read, from the finalizer to the last
\* status patch, however often the name is deleted and created again.
THEOREM RunHeld == Spec => []HoldsRun
<1>1. Inv => HoldsRun
  BY DEF Inv
<1> QED
  BY <1>1, Invariance, PTL

\* An outcome that was recorded is still there, or an error has overwritten it.
OutcomeOrError ==
    ended => recordedOutcome(status.workload) \/ status.workload = "ReconcileError"

\* A pass that fails overwrites the outcome with its error or not at all.
LEMMA FailOutcome ==
  ASSUME TypeOK, OutcomeOrError, UNCHANGED ended, NEW c \in {"config", "workload", "results"},
         \/ FailStep(c) \/ RetryStep \/ UNCHANGED status
         \/ \E r \in {"ReconcileError", "ReferenceNotFound"} :
              (c = "workload" => r = "ReconcileError") /\ failReconcile(c, r)
  PROVE  OutcomeOrError'
<1>1. \/ UNCHANGED status
      \/ \E r \in {"ReconcileError", "ReferenceNotFound"} :
           /\ c = "workload" => r = "ReconcileError"
           /\ status' = IF Current /\ btSeen.exists
                        THEN [statusSeen EXCEPT ![c] = r, !.phase = "Error"] ELSE status
  BY DEF FailStep, RetryStep, failReconcile
<1>2. CASE UNCHANGED status
  BY <1>2 DEF OutcomeOrError
<1>3. ASSUME NEW r \in {"ReconcileError", "ReferenceNotFound"},
             c = "workload" => r = "ReconcileError",
             status' = [statusSeen EXCEPT ![c] = r, !.phase = "Error"], statusSeen = status
      PROVE  OutcomeOrError'
  <2>1. status'.workload = status.workload \/ status'.workload = "ReconcileError"
    BY <1>3 DEF TypeOK, Statuses
  <2> QED
    BY <2>1 DEF OutcomeOrError, recordedOutcome
<1> QED
  BY <1>1, <1>2, <1>3 DEF Current

\* Nothing else forgets an outcome that was recorded.
LEMMA EndedInv == ASSUME TypeOK, OutcomeOrError, [Next]_vars PROVE OutcomeOrError'
<1> USE DEF past
<1>1. CASE UNCHANGED <<status, ended>>
  BY <1>1 DEF OutcomeOrError
<1>2. CASE CheckJob
  BY <1>2, FailOutcome DEF CheckJob
<1>3. CASE ResolveRefs
  BY <1>3, FailOutcome DEF ResolveRefs
<1>4. ASSUME NEW k, NEW n, ApplyOwned(k, n) PROVE OutcomeOrError'
  BY <1>4, FailOutcome DEF ApplyOwned
<1>5. CASE EnsureSidecarRBAC
  BY <1>5, FailOutcome DEF EnsureSidecarRBAC
<1>6. CASE ApplyJob
  BY <1>6, FailOutcome DEF ApplyJob
<1>7. CASE ComputeWorkloadStatus
  BY <1>7, FailOutcome DEF ComputeWorkloadStatus, Observed
<1>8. CASE AdoptAndParseResults
  BY <1>8, FailOutcome DEF AdoptAndParseResults
<1>9. CASE PatchSuccess
  <2>1. CASE /\ status' = Reported
             /\ ended' = (Reported.workload \in {"Succeeded", "Failed"})
    BY <2>1 DEF OutcomeOrError, recordedOutcome
  <2> QED
    BY <1>1, <1>9, <2>1 DEF PatchSuccess, RetryStep
<1>10. CASE CreateAgain
  BY <1>10 DEF CreateAgain, OutcomeOrError
<1>11. CASE Fetch \/ AddFinalizer \/ FinalizeBacktest \/ RemoveFinalizer
  BY <1>1, <1>11 DEF Fetch, AddFinalizer, FinalizeBacktest, RemoveFinalizer, RetryStep
<1>12. CASE ~Reconcile /\ ~CreateAgain
  BY <1>1, <1>12 DEF Next, vars, Cluster, TimerFires, InformerSync, ClaimSync, ObjectSync,
     OperatorRestart, DeleteBacktest, EditRefs, PodStart, MainExits, CollectResults, PodDone,
     GarbageCollect, ReapJob, running
<1> QED
  BY <1>2, <1>3, <1>4, <1>5, <1>6, <1>7, <1>8, <1>9, <1>10, <1>11, <1>12
     DEF Reconcile, ApplyConfigSecret, ApplyStrategyConfigMap, ApplyResultsPVC

\* A run whose outcome was recorded gets its Job created again only by a pass that read
\* an old copy of the Backtest, or once a failed look at the Job (main.go:113-117) has
\* overwritten the outcome; however late the informers are, no other way leads there.
THEOREM RecordedSafe == Spec => RecordedNeverReruns
<1>1. Inv /\ OutcomeOrError /\ [Next]_vars
        => [ended /\ ~job.exists /\ job'.exists
              => ~rec.fresh \/ status.workload = "ReconcileError"]_vars
  <2> SUFFICES ASSUME Inv, OutcomeOrError, Next, ended, ~job.exists, job'.exists
               PROVE  ~rec.fresh \/ status.workload = "ReconcileError"
    BY DEF vars
  <2>1. CASE ApplyJob
    BY <2>1 DEF ApplyJob, Inv, Remembers, Creating, OutcomeOrError
  <2>2. CASE PodDone
    BY <2>2 DEF PodDone, Inv, TypeOK, Jobs
  <2>3. CASE PodStart
    BY <2>3 DEF PodStart
  <2>4. CASE GarbageCollect \/ ReapJob
    BY <2>4 DEF GarbageCollect, ReapJob, NoJob
  <2>5. CASE UNCHANGED job
    BY <2>5
  <2>6. \/ ApplyJob \/ PodDone \/ PodStart \/ GarbageCollect \/ ReapJob \/ UNCHANGED job
    <3>1. CASE Reconcile
      BY <3>1 DEF Reconcile, Fetch, AddFinalizer, CheckJob, ResolveRefs, ApplyConfigSecret,
           ApplyStrategyConfigMap, ApplyResultsPVC, ApplyOwned, EnsureSidecarRBAC,
           ComputeWorkloadStatus, AdoptAndParseResults, PatchSuccess, FinalizeBacktest,
           RemoveFinalizer, cluster
    <3>2. CASE ~Reconcile
      BY <3>2 DEF Next, Cluster, TimerFires, InformerSync, ClaimSync, ObjectSync,
           OperatorRestart, DeleteBacktest, CreateAgain, EditRefs, MainExits, CollectResults,
           cluster, running
    <3> QED
      BY <3>1, <3>2
  <2> QED
    BY <2>1, <2>2, <2>3, <2>4, <2>5, <2>6
<1>2. Init => OutcomeOrError
  BY DEF Init, OutcomeOrError
<1>3. Inv /\ OutcomeOrError /\ [Next]_vars => OutcomeOrError'
  BY EndedInv DEF Inv
<1> QED
  BY <1>1, <1>2, <1>3, Invariance, PTL DEF Spec, RecordedNeverReruns

\* Whichever calls fail, however late the informers are and wherever the operator
\* restarts, a Backtest with retentionPolicy Retain is gone only after its results claim
\* has no owner to be collected with, unless finalizeBacktest did not see that claim.
THEOREM RetainSafe == Spec => RetainKeepsClaim
<1>1. Inv /\ [Next]_vars
        => [bt.exists /\ ~bt'.exists /\ bt.retain
              => owner["pvc"].run # bt.run \/ rec.unseen]_vars
  <2> SUFFICES ASSUME Inv, Next, bt.exists, ~bt'.exists, bt.retain
               PROVE  owner["pvc"].run # bt.run \/ rec.unseen
    BY DEF vars
  <2>1. CASE RemoveFinalizer
    <3>1. rec.pc = "removeFinalizer" /\ rec.run = bt.run
      BY <2>1 DEF RemoveFinalizer, Updatable
    <3> QED
      BY <3>1 DEF Inv, ClaimFits, FinalizesDeleted
  <2>2. CASE DeleteBacktest
    BY <2>2 DEF DeleteBacktest, Inv, ClaimFits, TypeOK, Backtests
  <2>3. CASE AddFinalizer
    BY <2>3 DEF AddFinalizer, Inv, TypeOK, Backtests
  <2>4. CASE UNCHANGED bt \/ ~bt.exists
    BY <2>4
  <2>5. RemoveFinalizer \/ DeleteBacktest \/ AddFinalizer \/ UNCHANGED bt \/ ~bt.exists
    <3>1. CASE Reconcile
      BY <3>1 DEF Reconcile, Fetch, CheckJob, ResolveRefs, ApplyConfigSecret,
           ApplyStrategyConfigMap, ApplyResultsPVC, ApplyOwned, EnsureSidecarRBAC, ApplyJob,
           ComputeWorkloadStatus, AdoptAndParseResults, PatchSuccess, FinalizeBacktest
    <3>2. CASE ~Reconcile
      BY <3>2 DEF Next, Cluster, TimerFires, InformerSync, ClaimSync, ObjectSync,
           OperatorRestart, CreateAgain, EditRefs, PodStart, MainExits, CollectResults, PodDone, GarbageCollect,
           ReapJob, running
    <3> QED
      BY <3>1, <3>2
  <2> QED
    BY <2>1, <2>2, <2>3, <2>4, <2>5
<1> QED
  BY <1>1, Invariance, PTL DEF Spec, RetainKeepsClaim

-----------------------------------------------------------------------------
(* The results summary and the phase.                                      *)

\* Between reading the results and writing them, a pass holds a summary that comes from
\* a ConfigMap the Backtest owns already.
SummaryHeld ==
    rec.summary # 0 => rec.pc = "patch" /\ cm.exists /\ cm.owner = bt.run

Recorded == SummaryIsOwned /\ SummaryHeld /\ PhaseMatchesWorkload

\* How a failed pass leaves the status and itself.
LEMMA FailLeaves ==
  ASSUME TypeOK, NEW c \in {"config", "workload", "results"}, NEW r,
         failReconcile(c, r)
  PROVE  /\ status'.summary = status.summary /\ rec'.summary = 0
         /\ status' = status \/ status'.phase = "Error"
BY DEF TypeOK, failReconcile, Current, Return, IdleRec, Statuses

\* The same for a step whose call fails.
LEMMA FailStepLeaves ==
  ASSUME TypeOK, NEW c \in {"config", "workload", "results"}, FailStep(c)
  PROVE  /\ status'.summary = status.summary /\ rec'.summary = 0
         /\ status' = status \/ status'.phase = "Error"
BY FailLeaves DEF FailStep, RetryStep, Return, IdleRec

\* A step that adopts nothing and records no outcome.
LEMMA QuietRecorded ==
  ASSUME Recorded, cm' = cm, bt'.run = bt.run, bt'.exists => bt.exists,
         status'.summary = status.summary, status' = status \/ status'.phase = "Error",
         rec'.summary = 0
  PROVE  Recorded'
BY DEF Recorded, SummaryIsOwned, SummaryHeld, PhaseMatchesWorkload

\* A step of the world around the controller that leaves the results alone.
LEMMA OutsideRecorded ==
  ASSUME Recorded, UNCHANGED <<cm, status, rec>>, bt'.run = bt.run, bt'.exists => bt.exists
  PROVE  Recorded'
BY DEF Recorded, SummaryIsOwned, SummaryHeld, PhaseMatchesWorkload

\* Every step of Reconcile keeps the summary with its ConfigMap, and the phase with the
\* condition.
LEMMA ReconcileRecorded == ASSUME Inv, Recorded, Reconcile PROVE Recorded'
<1> USE DEF cluster, seen
<1>0. TypeOK
  BY DEF Inv
<1>1. rec.pc # "patch" => rec.summary = 0
  BY DEF Recorded, SummaryHeld
<1>g. ASSUME NEW p, Goto(p), rec.pc # "patch" PROVE rec'.summary = 0
  BY <1>0, <1>1, <1>g DEF Goto, TypeOK, Recs
<1>2. CASE Fetch
  <2>1. rec'.summary = 0 /\ UNCHANGED <<bt, status, cm>>
    BY <1>2 DEF Fetch, IdleRec
  <2> QED
    BY <2>1, QuietRecorded
<1>3. CASE AddFinalizer
  <2>1. rec'.summary = 0 /\ UNCHANGED <<status, cm>>
    BY <1>3 DEF AddFinalizer, RetryStep, Return, IdleRec
  <2>2. bt'.run = bt.run /\ (bt'.exists => bt.exists)
    BY <1>0, <1>3 DEF AddFinalizer, TypeOK, Backtests
  <2> QED
    BY <2>1, <2>2, QuietRecorded
<1>4. CASE CheckJob
  <2>1. UNCHANGED <<bt, cm>> /\ rec.pc = "checkJob"
    BY <1>4 DEF CheckJob
  <2>2. CASE FailStep("config")
    BY <1>0, <2>1, <2>2, FailStepLeaves, QuietRecorded
  <2>3. ASSUME NEW p, Goto(p), UNCHANGED status PROVE Recorded'
    BY <1>g, <2>1, <2>3, QuietRecorded
  <2> QED
    BY <1>4, <2>2, <2>3 DEF CheckJob
<1>5. CASE ResolveRefs
  <2>1. UNCHANGED <<bt, cm>> /\ rec.pc = "refs"
    BY <1>5 DEF ResolveRefs
  <2>2. CASE FailStep("config")
    BY <1>0, <2>1, <2>2, FailStepLeaves, QuietRecorded
  <2>3. CASE Goto("secret") /\ UNCHANGED status
    BY <1>g, <2>1, <2>3, QuietRecorded
  <2>4. ASSUME NEW r, failReconcile("config", r) PROVE Recorded'
    BY <1>0, <2>1, <2>4, FailLeaves, QuietRecorded
  <2> QED
    BY <1>5, <2>2, <2>3, <2>4 DEF ResolveRefs
<1>6. ASSUME NEW k \in Inputs, NEW n, ApplyOwned(k, n) PROVE Recorded'
  <2>1. UNCHANGED <<bt, cm>> /\ rec.pc = k /\ k # "patch"
    BY <1>6 DEF ApplyOwned, Inputs
  <2>2. CASE FailStep("config")
    BY <1>0, <2>1, <2>2, FailStepLeaves, QuietRecorded
  <2>3. CASE Goto(n) /\ UNCHANGED status
    BY <1>g, <2>1, <2>3, QuietRecorded
  <2> QED
    BY <1>6, <2>2, <2>3 DEF ApplyOwned
<1>7. CASE ApplyConfigSecret \/ ApplyStrategyConfigMap \/ ApplyResultsPVC
  BY <1>6, <1>7 DEF ApplyConfigSecret, ApplyStrategyConfigMap, ApplyResultsPVC, Inputs
<1>8. CASE EnsureSidecarRBAC
  <2>1. UNCHANGED <<bt, cm>> /\ rec.pc = "rbac"
    BY <1>8 DEF EnsureSidecarRBAC
  <2>2. CASE FailStep("config")
    BY <1>0, <2>1, <2>2, FailStepLeaves, QuietRecorded
  <2>3. CASE Goto("job") /\ UNCHANGED status
    BY <1>g, <2>1, <2>3, QuietRecorded
  <2> QED
    BY <1>8, <2>2, <2>3 DEF EnsureSidecarRBAC
<1>9. CASE ApplyJob
  <2>1. UNCHANGED <<bt, cm>> /\ rec.pc = "job"
    BY <1>9 DEF ApplyJob
  <2>2. CASE FailStep("config")
    BY <1>0, <2>1, <2>2, FailStepLeaves, QuietRecorded
  <2>3. CASE Goto("observe") /\ UNCHANGED status
    BY <1>g, <2>1, <2>3, QuietRecorded
  <2>4. CASE failReconcile("config", "ReconcileError")
    BY <1>0, <2>1, <2>4, FailLeaves, QuietRecorded
  <2> QED
    BY <1>9, <2>2, <2>3, <2>4 DEF ApplyJob
<1>10. CASE ComputeWorkloadStatus
  <2>1. UNCHANGED <<bt, cm>> /\ rec.pc = "observe"
    BY <1>10 DEF ComputeWorkloadStatus
  <2>2. CASE FailStep("workload")
    BY <1>0, <2>1, <2>2, FailStepLeaves, QuietRecorded
  <2>3. ASSUME NEW o, Observed(o) PROVE Recorded'
    <3>1. rec'.summary = rec.summary /\ status' = status
      BY <1>0, <2>3 DEF Observed, TypeOK, Recs
    <3> QED
      BY <1>1, <2>1, <3>1, QuietRecorded
  <2>4. CASE failReconcile("workload", "ReconcileError")
    BY <1>0, <2>1, <2>4, FailLeaves, QuietRecorded
  <2> QED
    BY <1>10, <2>2, <2>3, <2>4 DEF ComputeWorkloadStatus
<1>11. CASE AdoptAndParseResults
  <2>1. UNCHANGED bt /\ rec.pc = "adopt" /\ bt.exists /\ rec.run = bt.run
    BY <1>11 DEF AdoptAndParseResults, Inv, HoldsRun, Attending
  <2>2. CASE FailStep("results") /\ UNCHANGED cm
    BY <1>0, <2>1, <2>2, FailStepLeaves, QuietRecorded
  <2>3. CASE failReconcile("results", "ReconcileError") /\ UNCHANGED cm
    BY <1>0, <2>1, <2>3, FailLeaves, QuietRecorded
  <2>4. CASE /\ rec' = [rec EXCEPT !.pc = "patch", !.requeue = TRUE]
             /\ UNCHANGED <<status, cm>>
    <3>1. rec'.summary = rec.summary
      BY <1>0, <2>4 DEF TypeOK, Recs
    <3> QED
      BY <1>1, <2>1, <2>4, <3>1, QuietRecorded
  <2>5. CASE /\ cm.exists /\ cm' = ensureOwned /\ UNCHANGED status
             /\ rec' = [rec EXCEPT !.pc = "patch",
                  !.results = IF cm.data = "results" THEN "AsExpected" ELSE "ResultsUnavailable",
                  !.summary = IF cm.data = "results" THEN cm.run ELSE 0]
    <3>1. cm'.exists /\ cm'.owner = bt.run
      BY <1>0, <2>1, <2>5 DEF ensureOwned, TypeOK, Maps
    <3>2. rec'.pc = "patch"
      BY <1>0, <2>5 DEF TypeOK, Recs
    <3> QED
      BY <2>1, <2>5, <3>1, <3>2
         DEF Recorded, SummaryIsOwned, SummaryHeld, PhaseMatchesWorkload
  <2> QED
    BY <1>11, <2>2, <2>3, <2>4, <2>5 DEF AdoptAndParseResults
<1>12. CASE PatchSuccess
  <2>1. UNCHANGED <<bt, cm>> /\ rec' = IdleRec
    BY <1>12 DEF PatchSuccess, RetryStep, Return
  <2>2. CASE status' = status
    BY <2>1, <2>2, QuietRecorded DEF IdleRec
  <2>3. CASE Current /\ status' = Reported
    <3>1. /\ status'.summary = IF rec.summary = 0 THEN status.summary ELSE rec.summary
          /\ status'.phase = deriveBacktestPhase(rec.outcome)
          /\ status'.workload = IF rec.outcome = "Running" THEN "Progressing" ELSE rec.outcome
      BY <2>3 DEF Current, Reported
    <3>2. SummaryIsOwned' /\ SummaryHeld'
      BY <2>1, <3>1 DEF Recorded, SummaryIsOwned, SummaryHeld, IdleRec
    <3>3. PhaseMatchesWorkload'
      BY <1>0, <3>1 DEF PhaseMatchesWorkload, deriveBacktestPhase, TypeOK, Recs, Outcomes
    <3> QED
      BY <3>2, <3>3 DEF Recorded
  <2> QED
    BY <1>12, <2>2, <2>3 DEF PatchSuccess, RetryStep
<1>13. CASE FinalizeBacktest
  <2>1. UNCHANGED <<bt, cm, status>> /\ rec.pc = "finalize"
    BY <1>13 DEF FinalizeBacktest, RetryStep
  <2>2. rec'.summary = 0
    <3>1. CASE Return(TRUE) \/ RetryStep
      BY <3>1 DEF RetryStep, Return, IdleRec
    <3>2. CASE Goto("removeFinalizer")
      BY <1>g, <2>1, <3>2
    <3>3. CASE rec' = [rec EXCEPT !.pc = "removeFinalizer", !.unseen = owner["pvc"].exists]
      BY <1>0, <1>1, <2>1, <3>3 DEF TypeOK, Recs
    <3> QED
      BY <1>13, <3>1, <3>2, <3>3 DEF FinalizeBacktest, PreserveClaim
  <2> QED
    BY <2>1, <2>2, QuietRecorded
<1>14. CASE RemoveFinalizer
  <2>1. UNCHANGED <<cm, status>> /\ rec'.summary = 0
    BY <1>14 DEF RemoveFinalizer, RetryStep, Return, IdleRec
  <2>2. bt'.run = bt.run /\ (bt'.exists => bt.exists)
    BY <1>0, <1>14 DEF RemoveFinalizer, TypeOK, Backtests
  <2> QED
    BY <2>1, <2>2, QuietRecorded
<1> QED
  BY <1>2, <1>3, <1>4, <1>5, <1>7, <1>8, <1>9, <1>10, <1>11, <1>12, <1>13, <1>14 DEF Reconcile

\* So does everything else: users, the queue, the cluster and the collector.
LEMMA OthersRecorded ==
  ASSUME Inv, Recorded, [Next]_vars, ~Reconcile PROVE Recorded'
<1> USE DEF cluster, seen, running
<1>0. TypeOK
  BY DEF Inv
<1>1. CASE \/ UNCHANGED vars \/ TimerFires \/ InformerSync \/ ClaimSync \/ ObjectSync
           \/ EditRefs
  BY <1>1, OutsideRecorded DEF vars, TimerFires, InformerSync, ClaimSync, ObjectSync, EditRefs
<1>2. CASE OperatorRestart
  BY <1>2, QuietRecorded DEF OperatorRestart, IdleRec
<1>3. CASE DeleteBacktest
  <2>1. bt'.run = bt.run /\ bt.exists
    BY <1>0, <1>3 DEF DeleteBacktest, TypeOK, Backtests
  <2> QED
    BY <1>3, <2>1, OutsideRecorded DEF DeleteBacktest
<1>4. CASE CreateAgain
  <2>1. status' = NewStatus /\ UNCHANGED <<rec, cm>>
    BY <1>4 DEF CreateAgain
  <2>2. rec.summary = 0
    BY <1>4 DEF CreateAgain, Inv, HoldsRun, Attending, Recorded, SummaryHeld
  <2> QED
    BY <2>1, <2>2 DEF NewStatus, Recorded, SummaryIsOwned, SummaryHeld, PhaseMatchesWorkload
<1>5. CASE PodStart \/ MainExits \/ PodDone \/ ReapJob
  BY <1>5, OutsideRecorded DEF PodStart, MainExits, PodDone, ReapJob
<1>6. CASE CollectResults
  <2>1. UNCHANGED <<bt, status, rec>> /\ (cm.exists => cm' = cm)
    BY <1>6 DEF CollectResults
  <2> QED
    BY <2>1 DEF Recorded, SummaryIsOwned, SummaryHeld, PhaseMatchesWorkload
<1>7. CASE GarbageCollect
  <2>1. UNCHANGED <<bt, status, rec>> /\ (cm' = cm \/ Gone(cm.owner))
    BY <1>7 DEF GarbageCollect
  <2>2. CASE cm' = cm
    BY <2>1, <2>2, OutsideRecorded
  <2>3. CASE Gone(cm.owner)
    <3>1. rec.summary = 0 \/ bt.exists
      BY DEF Inv, HoldsRun, Attending, Recorded, SummaryHeld
    <3>2. rec.summary = 0 /\ (status.summary # 0 => ~bt.exists)
      BY <2>3, <3>1 DEF Gone, Recorded, SummaryIsOwned, SummaryHeld
    <3> QED
      BY <2>1, <3>2 DEF Recorded, SummaryIsOwned, SummaryHeld, PhaseMatchesWorkload
  <2> QED
    BY <2>1, <2>2, <2>3
<1> QED
  BY <1>1, <1>2, <1>3, <1>4, <1>5, <1>6, <1>7 DEF Next, Cluster

\* What is recorded of a run stays consistent: the invariant behind the two theorems below.
THEOREM RecordedInvariance == Spec => []Recorded
<1>1. Init => Recorded
  <2> SUFFICES ASSUME Init PROVE Recorded
    OBVIOUS
  <2>1. status.summary = 0 /\ rec.summary = 0 /\ status.phase = ""
    BY DEF Init, NewStatus, IdleRec
  <2> QED
    BY <2>1 DEF Recorded, SummaryIsOwned, SummaryHeld, PhaseMatchesWorkload
<1>2. Inv /\ Recorded /\ [Next]_vars => Recorded'
  BY ReconcileRecorded, OthersRecorded
<1> QED
  BY <1>1, <1>2, Invariance, PTL DEF Spec

\* status.results of an existing Backtest always comes with the results ConfigMap, owned by
\* that Backtest: adoption precedes the patch, and neither the sidecar of a later pod nor
\* the garbage collector can take the ConfigMap away in between or afterwards.
THEOREM SummaryOwned == Spec => []SummaryIsOwned
<1>1. Recorded => SummaryIsOwned
  BY DEF Recorded
<1> QED
  BY <1>1, RecordedInvariance, PTL

\* A Backtest whose phase says it ended has the WorkloadReady condition that says the same,
\* whatever failed since.
THEOREM PhaseMatches == Spec => []PhaseMatchesWorkload
<1>1. Recorded => PhaseMatchesWorkload
  BY DEF Recorded
<1> QED
  BY <1>1, RecordedInvariance, PTL

-----------------------------------------------------------------------------
(* At rest: the safety half of OutcomeReached and DeletionCompletes.        *)

\* Nothing but the pass in progress, if there is one, looks after the Backtest: no key
\* queued, no event on the way, none to come of the informer's catching up.
Unattended == bt.exists /\ SameButFinalizer(btSeen, bt) /\ ~queued /\ ~timer

\* When nothing will bring the key back to Reconcile, the object has its finalizer and is
\* not being deleted, and the run is over and said to be: the condition and the phase name
\* the outcome, and a run that succeeded has a verdict on its results.  What is said can
\* be older than the last pass when that one left its status write out, its copy of the
\* object being old and saying the same already (shared/utils.go:57-65).
RestIsOver ==
    Unattended /\ rec.pc = "idle" =>
        /\ bt.finalizer /\ ~bt.deleting
        /\ ~lost =>
             /\ recordedOutcome(status.workload) /\ status.phase = status.workload
             /\ status.workload = "Succeeded" => status.results # "unset"

\* The pass at hand is the one the object calls for.
RightPass ==
    Unattended =>
        /\ bt.deleting <=> rec.pc \in {"finalize", "removeFinalizer"}
        /\ rec.pc # "addFinalizer" => bt.finalizer

\* A summary, as stored, as the informer shows it of this run, as a pass read it or is
\* about to write it, comes with a verdict on the results.
SummaryHasVerdict ==
    /\ status.summary # 0 => status.results # "unset"
    /\ btSeen.run = bt.run /\ statusSeen.summary # 0 => status.results # "unset"
    /\ rec.pc \notin Attending /\ rec.filled => status.results # "unset"
    /\ rec.summary # 0 => rec.results # "unset"

\* A pass that is about to record success has seen a verdict, or comes back for it.
SuccessHasVerdict ==
    rec.pc = "patch" /\ rec.outcome = "Succeeded" =>
        rec.requeue \/ rec.filled \/ rec.results # "unset"

OverInv == RestIsOver /\ RightPass /\ SummaryHasVerdict /\ SuccessHasVerdict

\* Copies that differ in the finalizer at most agree on everything else.
LEMMA SameFields ==
  ASSUME TypeOK, SameButFinalizer(btSeen, bt)
  PROVE  /\ btSeen.exists = bt.exists /\ btSeen.deleting = bt.deleting
         /\ btSeen.run = bt.run /\ btSeen.retain = bt.retain
BY DEF TypeOK, Backtests, SameButFinalizer

\* A status patch made over a copy that is the object changes the object.
LEMMA FailPatches ==
  ASSUME NEW c, NEW q, failReconcile(c, q)
  PROVE  status' = status \/ status' = [status EXCEPT ![c] = q, !.phase = "Error"]
BY DEF failReconcile, Current

\* Every way of failing, and every RequeueAfter, keeps the key attended and the verdict.
LEMMA FailAttends ==
  ASSUME TypeOK, NEW c \in {"config", "workload", "results"},
         \/ FailStep(c) \/ RetryStep
         \/ \E q \in {"ReconcileError", "ReferenceNotFound"} : failReconcile(c, q)
  PROVE  /\ ~Unattended' /\ rec' = IdleRec /\ status'.summary = status.summary
         /\ status.results # "unset" => status'.results # "unset"
<1>1. Return(TRUE)
  BY DEF FailStep, RetryStep, failReconcile
<1>2. \/ UNCHANGED status
      \/ \E q \in {"ReconcileError", "ReferenceNotFound"} :
           status' = [status EXCEPT ![c] = q, !.phase = "Error"]
  BY FailPatches DEF FailStep, RetryStep
<1> QED
  BY <1>1, <1>2 DEF Return, Unattended, TypeOK, Statuses

\* A pass that ends there, or an idle controller, has nothing left to prove.
LEMMA EndOver ==
  ASSUME OverInv, ~Unattended', rec' = IdleRec, status'.summary = status.summary,
         status.results # "unset" => status'.results # "unset",
         bt'.run = bt.run, UNCHANGED <<btSeen, statusSeen>>
  PROVE  OverInv'
BY DEF OverInv, RestIsOver, RightPass, SummaryHasVerdict, SuccessHasVerdict, IdleRec, Attending

\* Nor has a pass that goes on before its last step.
LEMMA MoveOver ==
  ASSUME OverInv, rec.pc \notin Attending, rec'.pc \notin Attending, rec'.pc # "patch",
         rec'.filled = rec.filled, rec'.summary = rec.summary, rec'.results = rec.results,
         timer => timer', queued => queued', UNCHANGED <<bt, btSeen, status, statusSeen>>
  PROVE  OverInv'
<1>1. Unattended' => Unattended
  BY DEF Unattended, SameButFinalizer
<1> QED
  BY <1>1 DEF OverInv, RestIsOver, RightPass, SummaryHasVerdict, SuccessHasVerdict, Attending

\* The initial state is attended.
LEMMA InitOver == Init => OverInv
<1> SUFFICES ASSUME Init PROVE OverInv
  OBVIOUS
<1>1. queued /\ rec = IdleRec /\ status = NewStatus /\ statusSeen = NewStatus
  BY DEF Init
<1>2. /\ status.summary = 0 /\ statusSeen.summary = 0
      /\ rec.pc = "idle" /\ rec.summary = 0
  BY <1>1 DEF IdleRec, NewStatus
<1> QED
  BY <1>1, <1>2 DEF OverInv, RestIsOver, RightPass, SummaryHasVerdict, SuccessHasVerdict,
     Unattended, Attending

\* What Goto leaves of the pass.
LEMMA GotoOver ==
  ASSUME TypeOK, NEW p \in PCs, Goto(p)
  PROVE  /\ rec'.pc = p /\ rec'.filled = rec.filled /\ rec'.summary = rec.summary
         /\ rec'.results = rec.results /\ UNCHANGED timer
BY DEF Goto, TypeOK, Recs

\* A step of Reconcile keeps the key of an unfinished run attended.
LEMMA ReconcileOver == ASSUME Inv, OverInv, Reconcile PROVE OverInv'
<1> USE DEF cluster, seen, past
<1>0. TypeOK
  BY DEF Inv
<1>1. CASE Fetch
  <2>1. UNCHANGED <<bt, btSeen, status, statusSeen, timer>>
    BY <1>1 DEF Fetch
  <2>2. CASE ~btSeen.exists \/ (btSeen.deleting /\ ~btSeen.finalizer)
    <3>1. rec' = IdleRec
      BY <1>1, <2>2 DEF Fetch
    <3>2. ~SameButFinalizer(btSeen, bt) \/ ~bt.exists
      BY <1>0, <2>2, SameFields DEF Inv, DeletingHolds
    <3>3. ~Unattended'
      BY <2>1, <3>2 DEF Unattended, SameButFinalizer
    <3> QED
      BY <2>1, <3>1, <3>3, EndOver
  <2>3. CASE ~(~btSeen.exists \/ (btSeen.deleting /\ ~btSeen.finalizer))
    <3>1. /\ rec'.pc = CASE btSeen.deleting -> "finalize"
                         [] ~btSeen.deleting /\ ~btSeen.finalizer -> "addFinalizer"
                         [] OTHER -> "checkJob"
          /\ rec'.filled = (statusSeen.summary # 0) /\ rec'.summary = 0
      BY <1>1, <2>3 DEF Fetch, IdleRec
    <3>2. rec'.pc = "checkJob" => btSeen.run = bt.run /\ bt.finalizer
      BY <2>3, <3>1 DEF Inv, SeenBefore, Live
    <3>3. rec'.pc \notin {"idle", "patch", "removeFinalizer"}
          /\ (rec'.pc \notin Attending => rec'.pc = "checkJob")
      BY <3>1 DEF Attending
    <3>4. RightPass'
      <4>1. SUFFICES ASSUME Unattended'
                     PROVE  /\ bt.deleting <=> rec'.pc = "finalize"
                            /\ rec'.pc # "addFinalizer" => bt.finalizer
        BY <2>1, <3>3 DEF RightPass
      <4>2. SameButFinalizer(btSeen, bt) /\ bt.exists
        BY <2>1, <4>1 DEF Unattended, SameButFinalizer
      <4>3. btSeen.deleting = bt.deleting
        BY <1>0, <4>2, SameFields
      <4> QED
        BY <3>1, <3>2, <4>2, <4>3 DEF Inv, DeletingHolds
    <3>5. SummaryHasVerdict'
      <4>1. rec'.filled => statusSeen.summary # 0
        BY <3>1
      <4> QED
        BY <2>1, <3>1, <3>2, <3>3, <4>1 DEF OverInv, SummaryHasVerdict
    <3> QED
      BY <3>3, <3>4, <3>5 DEF OverInv, RestIsOver, SuccessHasVerdict
  <2> QED
    BY <2>2, <2>3
<1>2. CASE AddFinalizer
  <2>1. Return(TRUE) /\ UNCHANGED <<status, btSeen, statusSeen>>
    BY <1>2 DEF AddFinalizer, RetryStep
  <2>2. ~Unattended' /\ rec' = IdleRec
    BY <2>1 DEF Return, Unattended
  <2>3. bt'.run = bt.run
    BY <1>0, <1>2 DEF AddFinalizer, TypeOK, Backtests
  <2> QED
    BY <2>1, <2>2, <2>3, EndOver
<1>3. CASE CheckJob
  <2>1. rec.pc = "checkJob" /\ UNCHANGED <<bt, btSeen, statusSeen, queued>>
    BY <1>3 DEF CheckJob
  <2>2. CASE FailStep("config")
    BY <1>0, <2>1, <2>2, FailAttends, EndOver
  <2>3. CASE ~FailStep("config")
    <3>1. UNCHANGED status /\ (Goto("observe") \/ Goto("refs"))
      BY <1>3, <2>3 DEF CheckJob
    <3> QED
      BY <1>0, <2>1, <3>1, GotoOver, MoveOver DEF PCs, Attending
  <2> QED
    BY <2>2, <2>3
<1>4. CASE ResolveRefs
  <2>1. rec.pc = "refs" /\ UNCHANGED <<bt, btSeen, statusSeen, queued>>
    BY <1>4 DEF ResolveRefs
  <2>2. CASE Goto("secret") /\ UNCHANGED status
    BY <1>0, <2>1, <2>2, GotoOver, MoveOver DEF PCs, Attending
  <2>3. CASE ~(Goto("secret") /\ UNCHANGED status)
    <3>1. \/ FailStep("config")
          \/ \E r \in {"ReconcileError", "ReferenceNotFound"} : failReconcile("config", r)
      BY <1>4, <2>3 DEF ResolveRefs
    <3> QED
      BY <1>0, <2>1, <3>1, FailAttends, EndOver
  <2> QED
    BY <2>2, <2>3
<1>5. ASSUME NEW k \in {"secret", "configmap", "pvc"},
             NEW n \in {"configmap", "pvc", "rbac"}, ApplyOwned(k, n)
      PROVE  OverInv'
  <2>1. rec.pc = k /\ UNCHANGED <<bt, btSeen, statusSeen>>
    BY <1>5 DEF ApplyOwned
  <2>2. CASE FailStep("config")
    BY <1>0, <2>1, <2>2, FailAttends, EndOver
  <2>3. CASE ~FailStep("config")
    <3>1. UNCHANGED status /\ Goto(n) /\ (queued => queued')
      BY <1>5, <2>3 DEF ApplyOwned
    <3> QED
      BY <1>0, <2>1, <3>1, GotoOver, MoveOver DEF PCs, Attending
  <2> QED
    BY <2>2, <2>3
<1>6. CASE EnsureSidecarRBAC
  <2>1. rec.pc = "rbac" /\ UNCHANGED <<bt, btSeen, statusSeen, queued>>
    BY <1>6 DEF EnsureSidecarRBAC
  <2>2. CASE FailStep("config")
    BY <1>0, <2>1, <2>2, FailAttends, EndOver
  <2>3. CASE ~FailStep("config")
    <3>1. UNCHANGED status /\ Goto("job")
      BY <1>6, <2>3 DEF EnsureSidecarRBAC
    <3> QED
      BY <1>0, <2>1, <3>1, GotoOver, MoveOver DEF PCs, Attending
  <2> QED
    BY <2>2, <2>3
<1>7. CASE ApplyJob
  <2>1. rec.pc = "job" /\ UNCHANGED <<bt, btSeen, statusSeen, queued>>
    BY <1>7 DEF ApplyJob
  <2>2. CASE FailStep("config") \/ failReconcile("config", "ReconcileError")
    BY <1>0, <2>1, <2>2, FailAttends, EndOver
  <2>3. CASE ~(FailStep("config") \/ failReconcile("config", "ReconcileError"))
    <3>1. UNCHANGED status /\ Goto("observe")
      BY <1>7, <2>3 DEF ApplyJob
    <3> QED
      BY <1>0, <2>1, <3>1, GotoOver, MoveOver DEF PCs, Attending
  <2> QED
    BY <2>2, <2>3
<1>8. CASE ComputeWorkloadStatus
  <2>1. rec.pc = "observe" /\ UNCHANGED <<bt, btSeen, statusSeen, queued>>
    BY <1>8 DEF ComputeWorkloadStatus
  <2>2. CASE FailStep("workload") \/ failReconcile("workload", "ReconcileError")
    BY <1>0, <2>1, <2>2, FailAttends, EndOver
  <2>3. ASSUME NEW o, Observed(o) PROVE OverInv'
    <3>1. /\ rec'.outcome = o
          /\ rec'.pc = IF o = "Succeeded" /\ ~rec.filled THEN "adopt" ELSE "patch"
          /\ rec'.filled = rec.filled /\ rec'.summary = rec.summary
          /\ rec'.results = rec.results /\ rec'.requeue = rec.requeue
          /\ UNCHANGED <<timer, status>>
      BY <1>0, <2>3 DEF Observed, TypeOK, Recs
    <3> QED
      BY <2>1, <3>1 DEF OverInv, RestIsOver, RightPass, SummaryHasVerdict,
         SuccessHasVerdict, Unattended, SameButFinalizer, Attending
  <2> QED
    BY <1>8, <2>2, <2>3 DEF ComputeWorkloadStatus
<1>9. CASE AdoptAndParseResults
  <2>1. rec.pc = "adopt" /\ UNCHANGED <<bt, btSeen, statusSeen>>
    BY <1>9 DEF AdoptAndParseResults
  <2>2. CASE FailStep("results") \/ failReconcile("results", "ReconcileError")
    BY <1>0, <2>1, <2>2, FailAttends, EndOver
  <2>3. CASE ~(FailStep("results") \/ failReconcile("results", "ReconcileError"))
    <3>1. (queued => queued') /\ UNCHANGED <<timer, status>>
      <4>1. UNCHANGED queued \/ queued' = (queued \/ cm' # cm)
        BY <1>9, <2>3 DEF AdoptAndParseResults
      <4>2. UNCHANGED <<timer, status>>
        BY <1>9, <2>3 DEF AdoptAndParseResults
      <4>3. ASSUME queued PROVE queued'
        <5>1. (queued \/ cm' # cm) = TRUE
          BY <4>3
        <5> QED
          BY <4>1, <4>3, <5>1
      <4> QED
        BY <4>2, <4>3
    <3>2. /\ rec'.pc = "patch" /\ rec'.filled = rec.filled
          /\ \/ rec'.requeue /\ rec'.summary = rec.summary /\ rec'.results = rec.results
             \/ rec'.results # "unset"
      BY <1>0, <1>9, <2>3 DEF AdoptAndParseResults, TypeOK, Recs
    <3> QED
      BY <2>1, <3>1, <3>2 DEF OverInv, RestIsOver, RightPass, SummaryHasVerdict,
         SuccessHasVerdict, Unattended, SameButFinalizer, Attending
  <2> QED
    BY <2>2, <2>3
<1>10. CASE PatchSuccess
  <2>1. rec.pc = "patch" /\ UNCHANGED <<bt, btSeen, statusSeen, queued>>
    BY <1>10 DEF PatchSuccess
  <2>2. CASE RetryStep
    BY <1>0, <2>1, <2>2, FailAttends, EndOver
  <2>3. CASE Return(TRUE) /\ UNCHANGED status
    <3>1. ~Unattended' /\ rec' = IdleRec
      BY <2>3 DEF Return, Unattended
    <3> QED
      BY <2>1, <2>3, <3>1, EndOver
  <2>4. ASSUME Return(rec.outcome \in {"Progressing", "Running"} \/ rec.requeue),
               \/ Current /\ status' = Reported
               \/ lost' /\ UNCHANGED status
        PROVE  OverInv'
    <3>1. rec' = IdleRec /\ rec'.pc = "idle" /\ rec'.summary = 0
      BY <2>4 DEF Return, IdleRec
    <3>2. \/ /\ status'.workload = IF rec.outcome = "Running" THEN "Progressing" ELSE rec.outcome
             /\ status'.results = IF rec.results = "unset" THEN status.results ELSE rec.results
             /\ status'.summary = IF rec.summary = 0 THEN status.summary ELSE rec.summary
             /\ status'.phase = deriveBacktestPhase(rec.outcome)
          \/ lost' /\ UNCHANGED status
      BY <2>4 DEF Current, Reported
    <3>3. SummaryHasVerdict'
      BY <2>1, <3>1, <3>2 DEF OverInv, SummaryHasVerdict, Attending
    <3>4. SuccessHasVerdict'
      BY <3>1 DEF SuccessHasVerdict
    <3>5. ASSUME Unattended' PROVE RestIsOver' /\ RightPass'
      <4>1. rec.outcome \in {"Succeeded", "Failed"} /\ ~rec.requeue /\ Unattended
        BY <1>0, <2>1, <2>4, <3>5 DEF Return, Unattended, SameButFinalizer, TypeOK, Recs, Outcomes
      <4>2. bt.finalizer /\ ~bt.deleting
        BY <2>1, <4>1 DEF OverInv, RightPass
      <4>3. ASSUME ~lost'
            PROVE  /\ status'.workload = rec.outcome /\ status'.phase = rec.outcome
                   /\ rec.outcome = "Succeeded" => status'.results # "unset"
        BY <2>1, <3>2, <4>1, <4>3 DEF deriveBacktestPhase, OverInv, SuccessHasVerdict,
           SummaryHasVerdict, Attending
      <4> QED
        BY <2>1, <3>1, <4>1, <4>2, <4>3 DEF RestIsOver, RightPass, recordedOutcome
    <3> QED
      BY <3>3, <3>4, <3>5 DEF OverInv, RestIsOver, RightPass
  <2> QED
    BY <1>10, <2>2, <2>3, <2>4 DEF PatchSuccess
<1>11. CASE FinalizeBacktest
  <2>1. rec.pc = "finalize" /\ UNCHANGED <<bt, btSeen, statusSeen, queued, status>>
    BY <1>11 DEF FinalizeBacktest, RetryStep
  <2>2. CASE rec' = IdleRec /\ timer'
    BY <2>1, <2>2, EndOver DEF Unattended
  <2>3. CASE ~(rec' = IdleRec /\ timer')
    <3>1. /\ rec'.pc = "removeFinalizer" /\ rec'.summary = rec.summary
          /\ rec'.results = rec.results /\ UNCHANGED timer
      BY <1>0, <1>11, <2>3
         DEF FinalizeBacktest, PreserveClaim, RetryStep, Return, Goto, TypeOK, Recs
    <3> QED
      BY <2>1, <3>1 DEF OverInv, RestIsOver, RightPass, SummaryHasVerdict,
         SuccessHasVerdict, Unattended, SameButFinalizer, Attending
  <2> QED
    BY <2>2, <2>3
<1>12. CASE RemoveFinalizer
  <2>1. rec.pc = "removeFinalizer" /\ UNCHANGED <<btSeen, statusSeen, queued, status>>
    BY <1>12 DEF RemoveFinalizer, RetryStep
  <2>2. CASE Return(TRUE) /\ UNCHANGED bt
    <3>1. ~Unattended' /\ rec' = IdleRec
      BY <2>2 DEF Return, Unattended
    <3> QED
      BY <2>1, <2>2, <3>1, EndOver
  <2>3. CASE ~(Return(TRUE) /\ UNCHANGED bt)
    <3>1. /\ bt' = [bt EXCEPT !.exists = FALSE, !.finalizer = FALSE]
          /\ rec' = IdleRec
      BY <1>12, <2>3 DEF RemoveFinalizer, RetryStep, Return
    <3>2. ~Unattended' /\ bt'.run = bt.run
      BY <1>0, <3>1 DEF Unattended, TypeOK, Backtests
    <3> QED
      BY <2>1, <3>1, <3>2, EndOver
  <2> QED
    BY <2>2, <2>3
<1> QED
  BY <1>1, <1>2, <1>3, <1>4, <1>5, <1>6, <1>7, <1>8, <1>9, <1>10, <1>11, <1>12
     DEF Reconcile, ApplyConfigSecret, ApplyStrategyConfigMap, ApplyResultsPVC

\* So does every step of anything else: the user's is an event still to come, the
\* cluster's leaves the object and its status alone.
LEMMA OthersOver ==
  ASSUME Inv, OverInv,
         \/ TimerFires \/ InformerSync \/ ClaimSync \/ ObjectSync \/ OperatorRestart
         \/ DeleteBacktest \/ CreateAgain \/ EditRefs \/ Cluster \/ ReapJob
  PROVE  OverInv'
<1> USE DEF OverInv, RestIsOver, RightPass, SummaryHasVerdict, SuccessHasVerdict, past
<1>0. TypeOK
  BY DEF Inv
<1>1. CASE TimerFires \/ InformerSync \/ ClaimSync
  <2>1. ~Unattended' /\ UNCHANGED <<bt, btSeen, status, statusSeen, rec>>
    BY <1>1 DEF TimerFires, InformerSync, ClaimSync, Unattended, seen
  <2> QED
    BY <2>1
<1>2. CASE ObjectSync
  <2>1. btSeen' = bt /\ statusSeen' = status /\ UNCHANGED <<bt, status, timer, rec, lost>>
    BY <1>2 DEF ObjectSync
  <2>2. Unattended' => Unattended
    <3>1. ASSUME queued \/ ~SameButFinalizer(btSeen, bt) PROVE queued'
      <4>1. (queued \/ ~SameButFinalizer(btSeen, bt)) = TRUE
        BY <3>1
      <4>2. queued' = (queued \/ ~SameButFinalizer(btSeen, bt))
        BY <1>2 DEF ObjectSync
      <4> QED
        BY <4>1, <4>2
    <3> QED
      BY <2>1, <3>1 DEF Unattended
  <2> QED
    BY <2>1, <2>2
<1>3. CASE OperatorRestart
  <2>1. /\ ~Unattended' /\ rec'.pc = "idle" /\ rec'.summary = 0 /\ statusSeen' = status
        /\ UNCHANGED <<bt, status>>
    BY <1>3 DEF OperatorRestart, Unattended, IdleRec
  <2> QED
    BY <2>1 DEF Attending
<1>4. CASE DeleteBacktest
  <2>1. /\ UNCHANGED <<btSeen, status, statusSeen, rec>> /\ bt'.run = bt.run
        /\ ~bt.deleting /\ bt'.exists = bt.finalizer /\ bt'.deleting = bt.finalizer
    BY <1>0, <1>4 DEF DeleteBacktest, seen, TypeOK, Backtests
  <2>2. ~Unattended'
    <3>1. SUFFICES ASSUME bt'.exists, SameButFinalizer(btSeen, bt)' PROVE FALSE
      BY DEF Unattended
    <3>2. btSeen.deleting /\ btSeen.run = bt.run
      <4>1. [btSeen EXCEPT !.finalizer = bt'.finalizer] = bt'
        BY <2>1, <3>1 DEF SameButFinalizer
      <4> QED
        BY <1>0, <2>1, <3>1, <4>1 DEF TypeOK, Backtests
    <3> QED
      BY <2>1, <3>2 DEF Inv, SeenBefore
  <2> QED
    BY <2>1, <2>2
<1>5. CASE CreateAgain
  <2>1. /\ UNCHANGED <<btSeen, statusSeen, rec>> /\ bt'.run = bt.run + 1 /\ ~bt.exists
        /\ status'.summary = 0
    <3>1. UNCHANGED <<btSeen, statusSeen, rec>> /\ ~bt.exists /\ status' = NewStatus
      BY <1>5 DEF CreateAgain, seen
    <3>2. bt'.run = bt.run + 1
      BY <1>5 DEF CreateAgain
    <3> QED
      BY <3>1, <3>2 DEF NewStatus
  <2>2. btSeen.run # bt'.run
    BY <1>0, <2>1, RunNat DEF Inv, SeenBefore
  <2>3. ~Unattended'
    <3>1. SUFFICES ASSUME SameButFinalizer(btSeen, bt)' PROVE FALSE
      BY DEF Unattended
    <3>2. [btSeen EXCEPT !.finalizer = bt'.finalizer] = bt'
      BY <2>1, <3>1 DEF SameButFinalizer
    <3> QED
      BY <1>0, <2>2, <3>2 DEF TypeOK, Backtests
  <2>4. rec.pc \in Attending
    BY <2>1 DEF Inv, HoldsRun
  <2> QED
    BY <2>1, <2>2, <2>3, <2>4 DEF Attending
<1>6. CASE EditRefs \/ Cluster \/ ReapJob
  <2>1. /\ UNCHANGED <<bt, btSeen, status, statusSeen, timer, rec, lost>>
        /\ UNCHANGED queued \/ queued' \/ \E k \in Inputs : queued' = (queued \/ k # "pvc")
    BY <1>6 DEF EditRefs, Cluster, PodStart, MainExits, CollectResults, PodDone,
       GarbageCollect, ReapJob, running, seen
  <2>2. queued => queued'
    <3>1. ASSUME queued, NEW k PROVE (queued \/ k # "pvc") = TRUE
      BY <3>1
    <3> QED
      BY <2>1, <3>1
  <2> QED
    BY <2>1, <2>2 DEF Unattended, SameButFinalizer
<1> QED
  BY <1>1, <1>2, <1>3, <1>4, <1>5, <1>6

\* A Backtest that nothing looks after any more has its finalizer and is not being
\* deleted: one under deletion never loses the pass that will drop its finalizer, however
\* late the informers are and whichever calls fail.  Unless the last pass left its status
\* write out on an old copy, its run is over and says so, and no run that succeeded is
\* left without a verdict on its results.
THEOREM RestOver == Spec => []RestIsOver
<1>1. Inv /\ OverInv /\ [Next]_vars => OverInv'
  <2> SUFFICES ASSUME Inv, OverInv, [Next]_vars PROVE OverInv'
    OBVIOUS
  <2>1. CASE UNCHANGED vars
    BY <2>1 DEF vars, OverInv, RestIsOver, RightPass, SummaryHasVerdict,
       SuccessHasVerdict, Unattended, SameButFinalizer
  <2>2. CASE Next
    BY <2>2, ReconcileOver, OthersOver DEF Next
  <2> QED
    BY <2>1, <2>2
<1>2. OverInv => RestIsOver
  BY DEF OverInv
<1> QED
  BY InitOver, Invariance, <1>1, <1>2, PTL DEF Spec

=============================================================================
