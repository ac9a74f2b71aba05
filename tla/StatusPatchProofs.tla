-------------------------- MODULE StatusPatchProofs --------------------------
(***************************************************************************)
(* PatchStatus implements the register for any set of writers and values,   *)
(* any number of attempts and any bounds.  The argument: an object version  *)
(* names one content (VersionsNameContents), so a status that the API       *)
(* server accepts differs from the stored one in the writer's own fields    *)
(* only; and once accepted it stays until that writer writes again          *)
(* (Stored), which is what the answer "ok" claims.                          *)
(***************************************************************************)
EXTENDS StatusPatch, TLAPS

\* A call at its Get has an attempt left, so the count stays in its type.
AttemptLeft == \A w \in Writers : call[w].pc = "get" => call[w].left > 0

\* What a call waits to report as written is still there.
Stored == \A w \in Writers : call[w].pc = "reply" => server.field[w] = call[w].want

Inv == TypeOK /\ AttemptLeft /\ VersionsNameContents /\ Stored

\* What PatchStatus makes of an object of the type is one, of the same version.
LEMMA MutatedType ==
    ASSUME NEW c \in Objects, NEW w \in Writers, NEW v \in Values
    PROVE  /\ Mutated(c, w, v) \in Objects
           /\ Mutated(c, w, v).rv = c.rv
           /\ Mutated(c, w, v).gen = c.gen
           /\ Mutated(c, w, v).field = [c.field EXCEPT ![w] = v]
BY DEF Mutated, Objects

\* The object a call reads has a version that is not in the future, and if that
\* version is the current one it is the current object (r.Get, utils.go:57).
LEMMA SeenCurrent ==
    ASSUME Inv
    PROVE  /\ Seen \in Objects /\ Seen.rv <= server.rv
           /\ Seen.rv = server.rv => Seen = server
BY DEF Inv, TypeOK, VersionsNameContents, Seen, Objects

\* A step of one call that leaves the object alone keeps the versions' meaning
\* when what it leaves in the call has it.
LEMMA VersionsKept ==
    ASSUME Inv, NEW w \in Writers, NEW c \in Calls, call' = [call EXCEPT ![w] = c],
           UNCHANGED <<server, cache>>,
           c.copy.rv <= server.rv,
           c.pc = "update" /\ c.copy.rv = server.rv
             => c.copy = Mutated(server, w, c.want)
    PROVE  VersionsNameContents'
<1>1. call \in [Writers -> Calls]
    BY DEF Inv, TypeOK
<1>2. ASSUME NEW u \in Writers
      PROVE  /\ call'[u].copy.rv <= server'.rv
             /\ call'[u].pc = "update" /\ call'[u].copy.rv = server'.rv
                  => call'[u].copy = Mutated(server', u, call'[u].want)
    <2>1. CASE u = w
        BY <1>1, <2>1
    <2>2. CASE u # w
        BY <1>1, <2>2 DEF Inv, VersionsNameContents
    <2> QED BY <2>1, <2>2
<1> QED BY <1>2 DEF Inv, VersionsNameContents, Mutated

LEMMA InitInv == Init => Inv
<1> SUFFICES ASSUME Init PROVE Inv
    OBVIOUS
<1>1. server \in Objects /\ cache = server /\ server.rv = 0
    BY PatchAssumption DEF Init, Objects
<1>2. TypeOK
    BY <1>1, PatchAssumption DEF Init, TypeOK, Calls
<1>3. AttemptLeft /\ VersionsNameContents /\ Stored
    BY <1>1, PatchAssumption DEF Init, AttemptLeft, VersionsNameContents, Stored, Objects
<1> QED BY <1>2, <1>3 DEF Inv

LEMMA BeginInv ==
    ASSUME Inv, NEW w \in Writers, NEW v \in Values, Begin(w, v)
    PROVE  Inv'
<1>1. call[w] \in Calls /\ call \in [Writers -> Calls]
    BY DEF Inv, TypeOK
<1>2. Seen \in Objects /\ Seen.rv <= server.rv
    BY SeenCurrent
<1> DEFINE c == [pc |-> "get", want |-> v, left |-> Steps, copy |-> Seen,
                 answer |-> "none", made |-> call[w].made + 1]
<1>3. call' = [call EXCEPT ![w] = c]
    BY DEF Begin
<1>4. c \in Calls
    BY <1>1, <1>2, PatchAssumption DEF Calls, Begin
<1>5. TypeOK'
    BY <1>1, <1>3, <1>4 DEF Inv, TypeOK, Begin
<1>6. AttemptLeft' /\ Stored'
    BY <1>1, <1>3, PatchAssumption DEF Inv, AttemptLeft, Stored, Begin
<1>7. VersionsNameContents'
    <2>1. c.pc = "get" /\ c.copy = Seen /\ UNCHANGED <<server, cache>>
        BY DEF Begin
    <2> QED BY <1>2, <1>3, <1>4, <2>1, VersionsKept
<1> QED BY <1>5, <1>6, <1>7 DEF Inv

LEMMA EndInv ==
    ASSUME Inv, NEW w \in Writers, NEW a \in {"ok", "error"}, End(w, a),
           UNCHANGED <<server, cache, lag>>, faults' \in 0..MaxFaults
    PROVE  Inv'
<1>1. call \in [Writers -> Calls]
    BY DEF Inv, TypeOK
<1> DEFINE c == [call[w] EXCEPT !.pc = "idle", !.answer = a]
<1>2. call' = [call EXCEPT ![w] = c]
    BY <1>1 DEF End, Calls
<1>3. c \in Calls /\ c.pc = "idle" /\ c.copy = call[w].copy
    BY <1>1 DEF Calls
<1>4. TypeOK'
    BY <1>1, <1>2, <1>3 DEF Inv, TypeOK
<1>5. AttemptLeft' /\ Stored'
    BY <1>1, <1>2, <1>3 DEF Inv, AttemptLeft, Stored
<1>6. VersionsNameContents'
    <2>1. call[w].copy.rv <= server.rv
        BY DEF Inv, VersionsNameContents
    <2> QED BY <1>2, <1>3, <2>1, VersionsKept
<1> QED BY <1>4, <1>5, <1>6 DEF Inv

LEMMA GetInv ==
    ASSUME Inv, NEW w \in Writers, Get(w)
    PROVE  Inv'
<1> DEFINE new == Mutated(Seen, w, call[w].want)
<1>1. call \in [Writers -> Calls] /\ call[w].want \in Values /\ call[w].left \in 0..Steps
    BY DEF Inv, TypeOK, Calls
<1>2. CASE new = Seen
    <2>1. End(w, "ok") /\ UNCHANGED <<server, cache, lag, faults>>
        BY <1>2 DEF Get
    <2>2. faults' \in 0..MaxFaults
        BY <2>1 DEF Inv, TypeOK
    <2> QED BY <2>1, <2>2, EndInv
<1>3. CASE new # Seen
    <2> DEFINE c == [call[w] EXCEPT !.pc = "update", !.copy = new, !.left = call[w].left - 1]
    <2>1. call' = [call EXCEPT ![w] = c] /\ UNCHANGED <<server, cache, lag, faults>>
        BY <1>1, <1>3 DEF Get, Calls
    <2>2. new \in Objects /\ new.rv = Seen.rv
        BY <1>1, SeenCurrent, MutatedType
    <2>3. call[w].left - 1 \in 0..Steps
        BY <1>1, PatchAssumption DEF Inv, AttemptLeft, Get
    <2>4. c \in Calls /\ c.pc = "update" /\ c.copy = new /\ c.want = call[w].want
        BY <1>1, <2>2, <2>3 DEF Calls
    <2> HIDE DEF c
    <2>5. TypeOK'
        BY <1>1, <2>1, <2>4 DEF Inv, TypeOK
    <2>6. AttemptLeft' /\ Stored'
        BY <1>1, <2>1, <2>4 DEF Inv, AttemptLeft, Stored
    <2>7. new.rv <= server.rv
          /\ (new.rv = server.rv => new = Mutated(server, w, call[w].want))
        BY <2>2, SeenCurrent
    <2> HIDE DEF new
    <2>8. VersionsNameContents'
        BY <2>1, <2>4, <2>7, VersionsKept
    <2> QED BY <2>5, <2>6, <2>8 DEF Inv
<1> QED BY <1>2, <1>3

LEMMA UpdateInv ==
    ASSUME Inv, NEW w \in Writers, Update(w)
    PROVE  Inv'
<1>1. call \in [Writers -> Calls] /\ server \in Objects /\ cache \in Objects
    BY DEF Inv, TypeOK
<1>2. CASE call[w].copy.rv = server.rv
    <2> DEFINE c == [call[w] EXCEPT !.pc = "reply"]
               s == [server EXCEPT !.rv = server.rv + 1, !.observed = call[w].copy.observed,
                                   !.field = call[w].copy.field]
    <2>1. /\ call' = [call EXCEPT ![w] = c] /\ server' = s
          /\ UNCHANGED <<cache, lag, faults>>
        BY <1>1, <1>2 DEF Update, Calls
    <2>2. call[w].copy \in Objects /\ call[w].want \in Values
          /\ call[w].copy = Mutated(server, w, call[w].want)
        BY <1>1, <1>2 DEF Inv, VersionsNameContents, Update, Calls
    <2>3. s \in Objects /\ s.rv = server.rv + 1
          /\ s.field = [server.field EXCEPT ![w] = call[w].want]
        <3>1. call[w].copy.field = [server.field EXCEPT ![w] = call[w].want]
            BY <1>1, <2>2, MutatedType
        <3>2. /\ server.rv + 1 \in Nat /\ server.gen \in 0..MaxEdits
              /\ call[w].copy.observed \in 0..MaxEdits
              /\ call[w].copy.field \in [Writers -> Values]
            BY <1>1, <2>2 DEF Objects
        <3>3. s \in Objects /\ s.rv = server.rv + 1 /\ s.field = call[w].copy.field
            <4> DEFINE r == server.rv + 1
                       o == call[w].copy.observed
                       f == call[w].copy.field
            <4>1. r \in Nat /\ o \in 0..MaxEdits /\ f \in [Writers -> Values]
                BY <3>2
            <4> HIDE DEF r, o, f
            <4>2. LET y == [server EXCEPT !.rv = r, !.observed = o, !.field = f]
                  IN  y \in Objects /\ y.rv = r /\ y.field = f
                BY <1>1, <4>1 DEF Objects
            <4> QED BY <4>2 DEF r, o, f
        <3> QED BY <3>1, <3>3
    <2>4. c \in Calls /\ c.pc = "reply" /\ c.want = call[w].want /\ c.copy = call[w].copy
        BY <1>1 DEF Calls
    <2> HIDE DEF c, s
    <2>5. TypeOK'
        BY <1>1, <2>1, <2>3, <2>4 DEF Inv, TypeOK
    <2>6. AttemptLeft'
        BY <1>1, <2>1, <2>4 DEF Inv, AttemptLeft
    <2>7. Stored'
        BY <1>1, <2>1, <2>2, <2>3, <2>4 DEF Inv, Stored, Objects
    <2>8. VersionsNameContents'
        <3>1. \A u \in Writers : call'[u].copy = call[u].copy
            BY <1>1, <2>1, <2>4
        <3>2. server.rv \in Nat /\ cache.rv \in Nat /\ \A u \in Writers : call[u].copy.rv \in Nat
            BY <1>1 DEF Objects, Calls
        <3>3. cache.rv < s.rv /\ \A u \in Writers : call[u].copy.rv < s.rv
            BY <2>3, <3>2 DEF Inv, VersionsNameContents
        <3>4. s.rv \in Nat
            BY <2>3, <3>2
        <3> QED BY <2>1, <3>1, <3>2, <3>3, <3>4 DEF VersionsNameContents
    <2> QED BY <2>5, <2>6, <2>7, <2>8 DEF Inv
<1>3. CASE call[w].copy.rv # server.rv /\ call[w].left = 0
    <2>1. End(w, "error") /\ UNCHANGED <<server, cache, lag, faults>>
        BY <1>3 DEF Update
    <2>2. faults' \in 0..MaxFaults
        BY <2>1 DEF Inv, TypeOK
    <2> QED BY <2>1, <2>2, EndInv
<1>4. CASE call[w].copy.rv # server.rv /\ call[w].left # 0
    <2> DEFINE c == [call[w] EXCEPT !.pc = "get"]
    <2>1. call' = [call EXCEPT ![w] = c] /\ UNCHANGED <<server, cache, lag, faults>>
        BY <1>1, <1>4 DEF Update, Calls
    <2>2. c \in Calls /\ c.pc = "get" /\ c.copy = call[w].copy /\ c.left = call[w].left
          /\ call[w].left > 0
        BY <1>1, <1>4, PatchAssumption DEF Calls
    <2> HIDE DEF c
    <2>3. TypeOK'
        BY <1>1, <2>1, <2>2 DEF Inv, TypeOK
    <2>4. AttemptLeft' /\ Stored'
        BY <1>1, <2>1, <2>2 DEF Inv, AttemptLeft, Stored
    <2>5. call[w].copy.rv <= server.rv
        BY DEF Inv, VersionsNameContents
    <2>6. VersionsNameContents'
        BY <2>1, <2>2, <2>5, VersionsKept
    <2> QED BY <2>3, <2>4, <2>6 DEF Inv
<1> QED BY <1>2, <1>3, <1>4

LEMMA FailInv ==
    ASSUME Inv, NEW w \in Writers, Fail(w)
    PROVE  Inv'
<1>1. faults' \in 0..MaxFaults
    BY PatchAssumption DEF Inv, TypeOK, Fail
<1> QED BY <1>1, EndInv DEF Fail

LEMMA ReplyInv ==
    ASSUME Inv, NEW w \in Writers, Reply(w)
    PROVE  Inv'
<1>1. faults' \in 0..MaxFaults
    BY DEF Inv, TypeOK, Reply
<1> QED BY <1>1, EndInv DEF Reply

LEMMA DeliverInv == Inv /\ Deliver => Inv'
<1> SUFFICES ASSUME Inv, Deliver PROVE Inv'
    OBVIOUS
<1>1. TypeOK' /\ AttemptLeft' /\ Stored'
    BY DEF Inv, TypeOK, AttemptLeft, Stored, Deliver
<1>2. server.rv \in Nat
    BY DEF Inv, TypeOK, Objects
<1>3. VersionsNameContents'
    <2>1. server' = server /\ cache' = server /\ call' = call
        BY DEF Deliver
    <2> QED BY <1>2, <2>1 DEF Inv, VersionsNameContents
<1> QED BY <1>1, <1>3 DEF Inv

LEMMA EditSpecInv == Inv /\ EditSpec => Inv'
<1> SUFFICES ASSUME Inv, EditSpec PROVE Inv'
    OBVIOUS
<1>1. server \in Objects /\ cache \in Objects /\ call \in [Writers -> Calls]
    BY DEF Inv, TypeOK
<1>2. server' \in Objects /\ server'.rv = server.rv + 1 /\ server'.field = server.field
    <2>1. server' = [rv |-> server.rv + 1, gen |-> server.gen + 1,
                     observed |-> server.observed, field |-> server.field]
        BY <1>1 DEF EditSpec, Objects
    <2>2. server.rv + 1 \in Nat /\ server.gen + 1 \in 0..MaxEdits
        BY <1>1, PatchAssumption DEF EditSpec, Objects
    <2> QED BY <1>1, <2>1, <2>2 DEF Objects
<1>3. TypeOK' /\ AttemptLeft' /\ Stored'
    BY <1>2 DEF Inv, TypeOK, AttemptLeft, Stored, EditSpec
<1>4. server.rv \in Nat /\ cache.rv \in Nat /\ \A u \in Writers : call[u].copy.rv \in Nat
    BY <1>1 DEF Objects, Calls
<1>5. cache.rv < server'.rv /\ \A u \in Writers : call[u].copy.rv < server'.rv
    BY <1>2, <1>4 DEF Inv, VersionsNameContents
<1>6. VersionsNameContents'
    BY <1>2, <1>4, <1>5 DEF VersionsNameContents, EditSpec
<1> QED BY <1>3, <1>6 DEF Inv

LEMMA NextInv == Inv /\ [Next]_vars => Inv'
<1> SUFFICES ASSUME Inv, [Next]_vars PROVE Inv'
    OBVIOUS
<1>1. CASE UNCHANGED vars
    BY <1>1 DEF vars, Inv, TypeOK, AttemptLeft, VersionsNameContents, Stored, Mutated
<1>2. ASSUME NEW w \in Writers, NEW v \in Values, Begin(w, v) PROVE Inv'
    BY <1>2, BeginInv
<1>3. ASSUME NEW w \in Writers, Get(w) \/ Update(w) \/ Reply(w) \/ Fail(w) PROVE Inv'
    BY <1>3, GetInv, UpdateInv, ReplyInv, FailInv
<1>4. CASE Deliver \/ EditSpec
    BY <1>4, DeliverInv, EditSpecInv
<1> QED BY <1>1, <1>2, <1>3, <1>4 DEF Next

LEMMA Invariance == Spec => []Inv
BY InitInv, NextInv, PTL DEF Spec

\* Every reachable state is typed: a call never has a negative number of
\* attempts left, whatever conflicts and faults it meets.
THEOREM TypeCorrect == Spec => []TypeOK
BY Invariance, PTL DEF Inv

\* Whatever the informer is behind by, a status that the API server accepts was
\* computed from the object it replaces (utils.go:55-68).
THEOREM VersionsCorrect == Spec => []VersionsNameContents
BY Invariance, PTL DEF Inv

-------------------------------------------------------------------------------
\* The refinement.  What the register's variables are in a state of StatusPatch.
Want == [w \in Writers |-> call[w].want]
Active == [w \in Writers |-> call[w].pc # "idle"]
Answers == [w \in Writers |-> call[w].answer]

LEMMA RefinesInit == Init => Register!Init
<1> SUFFICES ASSUME Init PROVE Register!Init
    OBVIOUS
<1>1. PICK v \in [Writers -> Values] :
        call = [w \in Writers |-> [pc |-> "idle", want |-> v[w], left |-> 0,
                                   copy |-> server, answer |-> "none", made |-> 0]]
    BY DEF Init
<1>2. \A w \in Writers : call[w].pc = "idle" /\ call[w].answer = "none" /\ call[w].want = v[w]
    BY <1>1
<1>3. Active = [w \in Writers |-> FALSE]
    BY <1>2 DEF Active
<1>4. Answers = [w \in Writers |-> "none"]
    BY <1>2 DEF Answers
<1>5. Want \in [Writers -> Values]
    BY <1>2 DEF Want
<1>6. server.field \in [Writers -> Values] /\ lag \in BOOLEAN
    BY DEF Init
<1> QED BY <1>3, <1>4, <1>5, <1>6 DEF Register!Init, Active, Answers, Want

\* The end of a call is the register's answer.
LEMMA EndRefines ==
    ASSUME Inv, NEW w \in Writers, NEW a \in {"ok", "error"}, End(w, a),
           call[w].pc # "idle", UNCHANGED <<server, lag>>,
           a = "ok" => lag \/ server.field[w] = call[w].want
    PROVE  Register!Answer(w, a)
<1>1. call \in [Writers -> Calls]
    BY DEF Inv, TypeOK
<1>2. call' = [call EXCEPT ![w] = [call[w] EXCEPT !.pc = "idle", !.answer = a]]
    BY <1>1 DEF End, Calls
<1>3. Active' = [Active EXCEPT ![w] = FALSE]
    BY <1>1, <1>2 DEF Active, Calls
<1>4. Answers' = [Answers EXCEPT ![w] = a]
    BY <1>1, <1>2 DEF Answers, Calls
<1>5. Want' = Want
    BY <1>1, <1>2 DEF Want, Calls
<1> QED BY <1>3, <1>4, <1>5 DEF Register!Answer, Active, Answers, Want

\* A step that moves one call inside PatchStatus and stores nothing is invisible.
LEMMA Stutters ==
    ASSUME Inv, NEW w \in Writers, NEW c \in Calls, call' = [call EXCEPT ![w] = c],
           call[w].pc # "idle", c.pc # "idle", c.want = call[w].want,
           c.answer = call[w].answer
    PROVE  Want' = Want /\ Active' = Active /\ Answers' = Answers
BY DEF Inv, TypeOK, Want, Active, Answers

LEMMA BeginRefines ==
    ASSUME Inv, NEW w \in Writers, NEW v \in Values, Begin(w, v)
    PROVE  Register!Ask(w, v)
<1> DEFINE c == [pc |-> "get", want |-> v, left |-> Steps, copy |-> Seen,
                 answer |-> "none", made |-> call[w].made + 1]
<1>1. /\ call \in [Writers -> Calls] /\ call' = [call EXCEPT ![w] = c]
      /\ call[w].pc = "idle" /\ server' = server /\ lag' = lag
    BY DEF Inv, TypeOK, Begin
<1>2. c.pc = "get" /\ c.want = v /\ c.answer = "none"
    OBVIOUS
<1> HIDE DEF c
<1>3. Want' = [Want EXCEPT ![w] = v]
    BY <1>1, <1>2 DEF Want
<1>4. Active' = [Active EXCEPT ![w] = TRUE] /\ ~Active[w]
    BY <1>1, <1>2 DEF Active
<1>5. Answers' = [Answers EXCEPT ![w] = "none"]
    BY <1>1, <1>2 DEF Answers
<1> QED BY <1>1, <1>3, <1>4, <1>5 DEF Register!Ask, Want, Active, Answers

LEMMA GetRefines ==
    ASSUME Inv, NEW w \in Writers, Get(w)
    PROVE  Register!Answer(w, "ok") \/ UNCHANGED Register!vars
<1> DEFINE new == Mutated(Seen, w, call[w].want)
<1>1. call \in [Writers -> Calls] /\ call[w].want \in Values /\ server \in Objects
    BY DEF Inv, TypeOK, Calls
<1>2. CASE new = Seen
    <2>1. new.field = [Seen.field EXCEPT ![w] = call[w].want] /\ Seen \in Objects
        BY <1>1, SeenCurrent, MutatedType
    <2>2. Seen.field \in [Writers -> Values]
        BY <2>1 DEF Objects
    <2>3. Seen.field[w] = call[w].want
        BY <1>2, <2>1, <2>2
    <2>4. lag \/ server.field[w] = call[w].want
        BY <2>3 DEF Seen
    <2> QED BY <1>2, <2>4, EndRefines DEF Get
<1>3. CASE new # Seen
    <2> DEFINE c == [call[w] EXCEPT !.pc = "update", !.copy = new, !.left = call[w].left - 1]
    <2>1. call' = [call EXCEPT ![w] = c] /\ server' = server /\ lag' = lag
        BY <1>1, <1>3 DEF Get, Calls
    <2>2. new \in Objects
        BY <1>1, SeenCurrent, MutatedType
    <2>3. call[w].left - 1 \in 0..Steps
        BY <1>1, PatchAssumption DEF Inv, AttemptLeft, Get, Calls
    <2>4. /\ c \in Calls /\ c.pc = "update" /\ c.want = call[w].want
          /\ c.answer = call[w].answer
        BY <1>1, <2>2, <2>3 DEF Calls
    <2> HIDE DEF c, new
    <2>5. Want' = Want /\ Active' = Active /\ Answers' = Answers
        BY <2>1, <2>4, Stutters DEF Get
    <2> QED BY <2>1, <2>5 DEF Register!vars, Want, Active, Answers
<1> QED BY <1>2, <1>3

LEMMA UpdateRefines ==
    ASSUME Inv, NEW w \in Writers, Update(w)
    PROVE  Register!Store(w) \/ Register!Answer(w, "error") \/ UNCHANGED Register!vars
<1>1. call \in [Writers -> Calls] /\ server \in Objects
    BY DEF Inv, TypeOK
<1>2. CASE call[w].copy.rv = server.rv
    <2> DEFINE c == [call[w] EXCEPT !.pc = "reply"]
    <2>1. /\ call' = [call EXCEPT ![w] = c] /\ server'.field = call[w].copy.field
          /\ lag' = lag
        BY <1>1, <1>2 DEF Update, Calls, Objects
    <2>2. /\ c \in Calls /\ c.pc = "reply" /\ c.want = call[w].want
          /\ c.answer = call[w].answer
        BY <1>1 DEF Calls
    <2>3. call[w].want \in Values /\ call[w].copy = Mutated(server, w, call[w].want)
        BY <1>1, <1>2 DEF Inv, VersionsNameContents, Update, Calls
    <2>4. server'.field = [server.field EXCEPT ![w] = call[w].want]
        BY <1>1, <2>1, <2>3, MutatedType
    <2> HIDE DEF c
    <2>5. Want' = Want /\ Active' = Active /\ Answers' = Answers
        BY <2>1, <2>2, Stutters DEF Update
    <2>6. Active[w] /\ Want[w] = call[w].want
        BY DEF Update, Active, Want
    <2> QED BY <2>1, <2>4, <2>5, <2>6 DEF Register!Store, Want, Active, Answers
<1>3. CASE call[w].copy.rv # server.rv /\ call[w].left = 0
    BY <1>3, EndRefines DEF Update
<1>4. CASE call[w].copy.rv # server.rv /\ call[w].left # 0
    <2> DEFINE c == [call[w] EXCEPT !.pc = "get"]
    <2>1. call' = [call EXCEPT ![w] = c] /\ server' = server /\ lag' = lag
        BY <1>1, <1>4 DEF Update, Calls
    <2>2. /\ c \in Calls /\ c.pc = "get" /\ c.want = call[w].want
          /\ c.answer = call[w].answer
        BY <1>1 DEF Calls
    <2> HIDE DEF c
    <2>3. Want' = Want /\ Active' = Active /\ Answers' = Answers
        BY <2>1, <2>2, Stutters DEF Update
    <2> QED BY <2>1, <2>3 DEF Register!vars, Want, Active, Answers
<1> QED BY <1>2, <1>3, <1>4

LEMMA ReplyRefines ==
    ASSUME Inv, NEW w \in Writers, Reply(w)
    PROVE  Register!Answer(w, "ok")
<1>1. server.field[w] = call[w].want
    BY DEF Inv, Stored, Reply
<1> QED BY <1>1, EndRefines DEF Reply

LEMMA FailRefines ==
    ASSUME Inv, NEW w \in Writers, Fail(w)
    PROVE  Register!Answer(w, "error")
BY EndRefines DEF Fail

LEMMA OthersRefine ==
    ASSUME Inv, Deliver \/ EditSpec \/ UNCHANGED vars
    PROVE  UNCHANGED Register!vars
<1>1. server'.field = server.field /\ call' = call /\ lag' = lag
    BY DEF Inv, TypeOK, Objects, Deliver, EditSpec, vars
<1> QED BY <1>1 DEF Register!vars

LEMMA RefinesNext == Inv /\ [Next]_vars => [Register!Next]_Register!vars
<1> SUFFICES ASSUME Inv, [Next]_vars PROVE [Register!Next]_Register!vars
    OBVIOUS
<1>1. CASE Deliver \/ EditSpec \/ UNCHANGED vars
    BY <1>1, OthersRefine
<1>2. ASSUME NEW w \in Writers, NEW v \in Values, Begin(w, v)
      PROVE  Register!Next
    BY <1>2, BeginRefines DEF Register!Next
<1>3. ASSUME NEW w \in Writers, Get(w) \/ Update(w) \/ Reply(w) \/ Fail(w)
      PROVE  [Register!Next]_Register!vars
    BY <1>3, GetRefines, UpdateRefines, ReplyRefines, FailRefines DEF Register!Next
<1> QED BY <1>1, <1>2, <1>3 DEF Next

\* PatchStatus implements the register: whatever the interleaving of reads,
\* conflicts, retries, lost replies and spec edits, a call writes its own fields
\* in one step and with fresh reads never reports a write it did not make
\* (utils.go:55-68).
THEOREM Refinement == Spec => Implements
BY Invariance, RefinesInit, RefinesNext, PTL DEF Spec, Implements, Register!Spec
===============================================================================
