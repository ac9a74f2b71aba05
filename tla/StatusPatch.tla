----------------------------- MODULE StatusPatch -----------------------------
(***************************************************************************)
(* PatchStatus (controllers/shared/utils.go) called for one object by       *)
(* several writers: read through the informer cache, let the caller set its *)
(* own fields, stamp observedGeneration, write the whole status with the    *)
(* resource version read, start over when the version has moved.  A step    *)
(* ends where a request reaches the API server or its reply the caller.     *)
(***************************************************************************)
EXTENDS Naturals

CONSTANTS
    Writers,    \* the goroutines that patch the object's status
    Values,     \* what a writer's own fields can hold
    Steps,      \* retry.DefaultBackoff.Steps: attempts of one call
    MaxCalls,   \* bound on the calls of each writer
    MaxEdits,   \* bound on edits of the object's spec
    MaxFaults   \* bound on requests or replies lost

ASSUME PatchAssumption ==
    /\ Values # {}
    /\ Steps \in Nat \ {0} /\ MaxCalls \in Nat /\ MaxEdits \in Nat /\ MaxFaults \in Nat

VARIABLES
    server,     \* the object at the API server
    cache,      \* the informer's copy of it
    call,       \* per writer: its call in progress, or how the last one ended
    lag,        \* the informer may be behind when a call reads
    faults

vars == <<server, cache, call, lag, faults>>

\* rv is metadata.resourceVersion, gen metadata.generation.
Objects == [rv: Nat, gen: 0..MaxEdits, observed: 0..MaxEdits, field: [Writers -> Values]]
Calls == [pc: {"idle", "get", "update", "reply"}, want: Values,
          left: 0..Steps, copy: Objects, answer: {"none", "ok", "error"}, made: 0..MaxCalls]

TypeOK ==
    /\ server \in Objects /\ cache \in Objects
    /\ call \in [Writers -> Calls]
    /\ lag \in BOOLEAN
    /\ faults \in 0..MaxFaults

Init ==
    /\ server \in [rv: {0}, gen: {0}, observed: {0}, field: [Writers -> Values]]
    /\ cache = server
    /\ \E v \in [Writers -> Values] :
         call = [w \in Writers |-> [pc |-> "idle", want |-> v[w], left |-> 0,
                                    copy |-> server, answer |-> "none", made |-> 0]]
    /\ lag \in BOOLEAN
    /\ faults = 0

Seen == IF lag THEN cache ELSE server

\* The writer has computed what its fields should say from the object it read
\* at the start of its pass, and calls PatchStatus.
Begin(w, v) ==
    /\ call[w].pc = "idle" /\ call[w].made < MaxCalls
    /\ call' = [call EXCEPT ![w] = [pc |-> "get", want |-> v, left |-> Steps,
                                    copy |-> Seen, answer |-> "none",
                                    made |-> @.made + 1]]
    /\ UNCHANGED <<server, cache, lag, faults>>

\* Mutant: the generation is stamped one ahead.
MutatedAhead(copy, w, v) == [copy EXCEPT !.field[w] = v, !.observed = copy.gen + 1]

\* Mutant: the caller replaces the whole status instead of its own fields.
MutatedAll(copy, w, v) == [copy EXCEPT !.field = [u \in Writers |-> v], !.observed = copy.gen]

Mutated(copy, w, v) == [copy EXCEPT !.field[w] = v, !.observed = copy.gen]

End(w, a) == call' = [call EXCEPT ![w].pc = "idle", ![w].answer = a]

\* Get, mutate, stamp the generation; nothing to write when nothing changed.
Get(w) ==
    /\ call[w].pc = "get"
    /\ LET new == Mutated(Seen, w, call[w].want)
       IN  IF new = Seen
           THEN End(w, "ok")
           ELSE call' = [call EXCEPT ![w].pc = "update", ![w].copy = new,
                                     ![w].left = call[w].left - 1]
    /\ UNCHANGED <<server, cache, lag, faults>>

\* Mutant: after a conflict the same status is sent again under the new version.
UpdateAgain(w) ==
    /\ call[w].pc = "update"
    /\ \/ /\ call[w].copy.rv = server.rv
          /\ server' = [server EXCEPT !.rv = @ + 1, !.observed = call[w].copy.observed,
                                      !.field = call[w].copy.field]
          /\ call' = [call EXCEPT ![w].pc = "reply"]
       \/ /\ call[w].copy.rv # server.rv
          /\ call' = [call EXCEPT ![w].copy.rv = server.rv]
          /\ UNCHANGED server
    /\ UNCHANGED <<cache, lag, faults>>

\* Status().Update: stored when the copy's resource version is the current one,
\* a conflict otherwise; RetryOnConflict starts over while it has steps left.
Update(w) ==
    /\ call[w].pc = "update"
    /\ \/ /\ call[w].copy.rv = server.rv
          /\ server' = [server EXCEPT !.rv = @ + 1, !.observed = call[w].copy.observed,
                                      !.field = call[w].copy.field]
          /\ call' = [call EXCEPT ![w].pc = "reply"]
       \/ /\ call[w].copy.rv # server.rv
          /\ IF call[w].left = 0 THEN End(w, "error")
                                 ELSE call' = [call EXCEPT ![w].pc = "get"]
          /\ UNCHANGED server
    /\ UNCHANGED <<cache, lag, faults>>

Reply(w) ==
    /\ call[w].pc = "reply"
    /\ End(w, "ok")
    /\ UNCHANGED <<server, cache, lag, faults>>

\* Any other error ends the call: the Get fails, the Update is refused or does
\* not arrive, or its reply is lost after the write.
Fail(w) ==
    /\ call[w].pc # "idle" /\ faults < MaxFaults
    /\ faults' = faults + 1
    /\ End(w, "error")
    /\ UNCHANGED <<server, cache, lag>>

Deliver ==
    /\ cache # server
    /\ cache' = server
    /\ UNCHANGED <<server, call, lag, faults>>

EditSpec ==
    /\ server.gen < MaxEdits
    /\ server' = [server EXCEPT !.rv = @ + 1, !.gen = @ + 1]
    /\ UNCHANGED <<cache, call, lag, faults>>

Next ==
    \/ \E w \in Writers :
          \/ \E v \in Values : Begin(w, v)
          \/ Get(w)
          \/ Update(w)
          \/ Reply(w)
          \/ Fail(w)
    \/ Deliver
    \/ EditSpec

Spec == Init /\ [][Next]_vars

-------------------------------------------------------------------------------
\* PatchStatus implements the register its callers assume: no writer's fields
\* are lost to another's read-modify-write, and with fresh reads a call that
\* returns no error has stored its value (utils.go:55-68).
Register == INSTANCE StatusRegister WITH
    field <- server.field,
    want <- [w \in Writers |-> call[w].want],
    active <- [w \in Writers |-> call[w].pc # "idle"],
    answer <- [w \in Writers |-> call[w].answer],
    lossy <- lag

Implements == Register!Spec

\* A resource version names one content: what a call or the informer holds of
\* the current version is the current object, up to the call's own changes.
VersionsNameContents ==
    /\ cache.rv <= server.rv
    /\ cache.rv = server.rv => cache = server
    /\ \A w \in Writers :
         /\ call[w].copy.rv <= server.rv
         /\ call[w].pc = "update" /\ call[w].copy.rv = server.rv
              => call[w].copy = Mutated(server, w, call[w].want)
===============================================================================
