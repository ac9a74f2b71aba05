----------------------------- MODULE MCBacktest -----------------------------
(* Bounds for checking Backtest.                                           *)
EXTENDS Backtest, FiniteSets

\* A fault, a second run of the name or a change to its references, not two of them
\* in one behaviour; a fault and a deletion may meet.
RefsEdited == edits = 1 /\ bt.run = 1 /\ bt.exists /\ ~bt.deleting
OneUpset ==
    /\ faults + bt.run <= 2
    /\ ~(faults = 1 /\ RefsEdited)

\* References that do not build are there from the start; missing ones come and go.
InvalidFirst == refs = "invalid" => edits = 0

\* The longer of the two ways to finalize; the other only where nothing else happens.
RetainOnly == bt.retain
MostlyRetain == bt.retain \/ (faults = 0 /\ bt.run = 1 /\ ~RefsEdited)

\* The informers that have something to deliver: Backtest, Job, results claim.
Behind ==
    {i \in {"object", "job", "claim"} :
        CASE i = "object" -> ~Current
          [] i = "job" -> jobSeen # job
          [] i = "claim" -> pvcSeen # owner["pvc"]}

\* One informer is behind at a time.
OneBehind == Cardinality(Behind) <= 1

\* As above; two where the copies meet in one decision, the
\* claim of a Backtest that is being deleted and the Job of one whose run has ended,
\* if nothing else upsets it.
FewBehind ==
    \/ OneBehind
    \/ faults = 0 /\ bt.run = 1 /\ bt.deleting /\ Behind = {"object", "claim"}
    \/ faults = 0 /\ bt.run = 1 /\ ended /\ ~job.exists /\ Behind = {"object", "job"}
=============================================================================
