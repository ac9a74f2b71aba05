---------------------------- MODULE StatusRegister ----------------------------
(***************************************************************************)
(* What the controllers take PatchStatus (controllers/shared/utils.go) to   *)
(* be: each writer has fields of its own in one status; a call sets them to *)
(* the value asked for, in one step that leaves the others' fields alone,   *)
(* or fails; and a call that reports success has stored its value.  Only    *)
(* where reads may be stale (lossy) may a call report success for a value   *)
(* that is not there.                                                       *)
(***************************************************************************)
CONSTANTS
    Writers,    \* who calls PatchStatus for the object: a controller, the poller
    Values      \* what a writer's own fields can hold

VARIABLES
    field,      \* per writer: its fields, as stored
    want,       \* per writer: what its last call asks for
    active,     \* per writer: a call is in progress
    answer,     \* per writer: how its last call ended
    lossy       \* reads may be stale

vars == <<field, want, active, answer, lossy>>

Init ==
    /\ field \in [Writers -> Values]
    /\ want \in [Writers -> Values]
    /\ active = [w \in Writers |-> FALSE]
    /\ answer = [w \in Writers |-> "none"]
    /\ lossy \in BOOLEAN

Ask(w, v) ==
    /\ ~active[w]
    /\ active' = [active EXCEPT ![w] = TRUE]
    /\ want' = [want EXCEPT ![w] = v]
    /\ answer' = [answer EXCEPT ![w] = "none"]
    /\ UNCHANGED <<field, lossy>>

Store(w) ==
    /\ active[w]
    /\ field' = [field EXCEPT ![w] = want[w]]
    /\ UNCHANGED <<want, active, answer, lossy>>

Answer(w, a) ==
    /\ active[w]
    /\ a = "ok" => lossy \/ field[w] = want[w]
    /\ active' = [active EXCEPT ![w] = FALSE]
    /\ answer' = [answer EXCEPT ![w] = a]
    /\ UNCHANGED <<field, want, lossy>>

Next ==
    \E w \in Writers :
        \/ \E v \in Values : Ask(w, v)
        \/ Store(w)
        \/ \E a \in {"ok", "error"} : Answer(w, a)

Spec == Init /\ [][Next]_vars
===============================================================================
