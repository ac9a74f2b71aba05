--------------------------- MODULE BotPollerProofs ---------------------------
(***************************************************************************)
(* Proofs about BotPoller, for any number of bots and workers and every     *)
(* bound: the flag that keeps a bot from being queued twice is never left   *)
(* set without a poll that will clear it, and no bot has two polls          *)
(* outstanding.                                                             *)
(***************************************************************************)
EXTENDS BotPoller, FiniteSetTheorems, FunctionTheorems, SequenceTheorems, TLAPS

\* A worker holds a bot exactly while it works on one.
BusyHasBot ==
    \A w \in Workers : IF work[w].pc = "idle" THEN work[w].bot = Idle
                                              ELSE work[w].bot \in Bots

\* Only a tracked bot is in flight: forgetting a bot forgets the flag.
InFlightIsTracked == \A b \in Bots : mem[b].inFlight => mem[b].tracked

Inv == TypeOK /\ BusyHasBot /\ InFlightIsTracked /\ InFlightIsReal

\* The queue's capacity is a natural number.
LEMMA CapType == queueCap \in Nat
BY PollerAssumption, FS_CardinalityType DEF queueCap

\* InFlightIsReal without sets.
LEMMA InFlightByIndex ==
  InFlightIsReal <=>
    \A b \in Bots : mem[b].inFlight =>
        \/ \E i \in 1..Len(queue) : queue[i] = b
        \/ \E w \in Workers : work[w].bot = b
BY DEF InFlightIsReal, Waiting, Running

\* The invariant holds when the poller starts.
LEMMA InitInv == Init => Inv
<1> SUFFICES ASSUME Init PROVE Inv
  OBVIOUS
<1>1. obj \in [Bots -> Objects]
  BY PollerAssumption DEF Init, Objects, Conditions
<1>2. mem \in [Bots -> Memories] /\ \A b \in Bots : mem[b].inFlight = FALSE
  BY DEF Init, Memories, Untracked, Labels, maxShift
<1>3. queue \in Seq(Bots) /\ Len(queue) <= queueCap
  BY CapType DEF Init
<1>4. work \in [Workers -> Attempts] /\ BusyHasBot
  BY PollerAssumption DEF Init, IdleWork, Attempts, BusyHasBot
<1>5. tick \in Ticks /\ tick.pc = "idle"
  BY DEF Init, IdleTick, Ticks
<1>6. up \in Gauges /\ faults \in 0..MaxFaults
  BY PollerAssumption DEF Init, Gauges
<1> QED
  BY <1>1, <1>2, <1>3, <1>4, <1>5, <1>6 DEF Inv, TypeOK, InFlightIsTracked, InFlightIsReal

\* A fault that is counted stays within its bound.
LEMMA FaultType == ASSUME TypeOK, Fault PROVE faults' \in 0..MaxFaults
BY PollerAssumption DEF TypeOK, Fault

\* What a step leaves alone it does not disturb: the flags, the queue and the workers.
LEMMA SameFlags ==
  ASSUME Inv, UNCHANGED <<mem, queue, work>>, TypeOK' PROVE Inv'
BY DEF Inv, BusyHasBot, InFlightIsTracked, InFlightIsReal, Waiting, Running

\* The critical section of scheduleDue: whatever it flags it has queued.
LEMMA ScheduleDueInv == ASSUME Inv, ScheduleDue PROVE Inv'
<1> DEFINE seen == {b \in Bots : Pollable(tick.list[b])}
           due  == {b \in seen : ~mem[b].inFlight /\ mem[b].wait = 0}
           room == queueCap - Len(queue)
           gone == {b \in Bots \ seen : mem[b].tracked}
<1>1. PICK sent \in SUBSET due :
        /\ Cardinality(sent) = IF Cardinality(due) < room THEN Cardinality(due) ELSE room
        /\ \E order \in Orders(sent) : queue' = queue \o order
        /\ mem' = [b \in Bots |->
             IF b \in seen
             THEN [mem[b] EXCEPT !.tracked = TRUE, !.inFlight = mem[b].inFlight \/ b \in sent]
             ELSE Untracked]
        /\ up' = [s \in DOMAIN up |->
             IF s[1] \in gone /\ s[2] = mem[s[1]].label THEN "absent" ELSE up[s]]
  BY DEF ScheduleDue, Due, Room, Flagged
<1>2. PICK order \in Orders(sent) : queue' = queue \o order
  BY <1>1
<1> HIDE DEF seen, due, room, gone
<1>3. sent \subseteq Bots /\ IsFiniteSet(sent) /\ due \subseteq Bots /\ IsFiniteSet(due)
  <2>1. sent \subseteq Bots /\ due \subseteq Bots
    BY DEF due, seen
  <2> QED
    BY <2>1, PollerAssumption, FS_Subset
<1>4. Cardinality(sent) \in Nat /\ Cardinality(due) \in Nat
  BY <1>3, FS_CardinalityType
<1>5. order \in Seq(Bots) /\ Len(order) = Cardinality(sent)
      /\ \A b \in sent : \E i \in 1..Len(order) : order[i] = b
  BY <1>3, <1>4 DEF Orders
<1>6. queue \in Seq(Bots) /\ Len(queue) \in Nat /\ Len(queue) <= queueCap
  BY DEF Inv, TypeOK
<1>7. queue' \in Seq(Bots) /\ Len(queue') = Len(queue) + Len(order)
      /\ \A i \in 1..Len(queue') : queue'[i] = IF i <= Len(queue) THEN queue[i]
                                                ELSE order[i - Len(queue)]
  <2>1. /\ queue \o order \in Seq(Bots)
        /\ Len(queue \o order) = Len(queue) + Len(order)
        /\ \A i \in 1..(Len(queue) + Len(order)) :
             (queue \o order)[i] = IF i <= Len(queue) THEN queue[i] ELSE order[i - Len(queue)]
    BY <1>5, <1>6, ConcatProperties
  <2> QED
    BY <1>2, <2>1, Zenon
<1>8. Len(queue') <= queueCap
  <2>1. Cardinality(sent) <= room
    <3>1. Cardinality(sent) = IF Cardinality(due) < room THEN Cardinality(due) ELSE room
      BY <1>1
    <3>2. room \in Int
      BY <1>6, CapType DEF room
    <3> QED
      BY <3>1, <3>2, <1>4
  <2> QED
    BY <2>1, <1>4, <1>5, <1>6, <1>7, CapType DEF room
<1>9. mem \in [Bots -> Memories]
  BY DEF Inv, TypeOK
<1>10. /\ mem' \in [Bots -> Memories]
       /\ \A b \in Bots : mem'[b].inFlight => mem'[b].tracked
       /\ \A b \in Bots : mem'[b].inFlight => mem[b].inFlight \/ b \in sent
  <2>1. ASSUME NEW b \in Bots
        PROVE /\ mem'[b] \in Memories
              /\ mem'[b].inFlight => mem'[b].tracked
              /\ mem'[b].inFlight => mem[b].inFlight \/ b \in sent
    <3>1. CASE b \in seen
      <4>1. mem'[b] = [mem[b] EXCEPT !.tracked = TRUE, !.inFlight = mem[b].inFlight \/ b \in sent]
        BY <1>1, <3>1
      <4>2. mem[b] \in Memories /\ (mem[b].inFlight \/ b \in sent) \in BOOLEAN
        BY <1>9
      <4>3. mem'[b] \in Memories /\ mem'[b].tracked
        BY <4>1, <4>2 DEF Memories
      <4>4. mem'[b].inFlight = (mem[b].inFlight \/ b \in sent)
        BY <4>1, <4>2 DEF Memories
      <4> QED
        BY <4>3, <4>4
    <3>2. CASE b \notin seen
      <4>1. mem'[b] = Untracked
        BY <1>1, <3>2
      <4> QED
        BY <4>1 DEF Untracked, Memories, Labels, maxShift
    <3> QED
      BY <3>1, <3>2
  <2>2. mem' = [b \in Bots |-> mem'[b]]
    BY <1>1
  <2> QED
    BY <2>1, <2>2
<1>11. up' \in Gauges
  BY <1>1 DEF Inv, TypeOK, Gauges
<1>12. tick' \in Ticks /\ tick'.list = tick.list /\ tick.pc = "schedule"
  BY DEF ScheduleDue, Inv, TypeOK, Ticks
<1>13. UNCHANGED <<obj, work, faults>>
  BY DEF ScheduleDue
<1>14. TypeOK'
  BY <1>7, <1>8, <1>10, <1>11, <1>12, <1>13 DEF Inv, TypeOK, queueCap
<1>15. BusyHasBot' /\ InFlightIsTracked'
  BY <1>10, <1>13 DEF Inv, BusyHasBot, InFlightIsTracked
<1>16. InFlightIsReal'
  <2> SUFFICES ASSUME NEW b \in Bots, mem'[b].inFlight
               PROVE  \/ \E i \in 1..Len(queue') : queue'[i] = b
                      \/ \E w \in Workers : work'[w].bot = b
    BY DEF InFlightIsReal, Waiting, Running
  <2>1. CASE b \in sent
    <3>1. PICK i \in 1..Len(order) : order[i] = b
      BY <1>5, <2>1
    <3>2. queue'[Len(queue) + i] = b /\ Len(queue) + i \in 1..Len(queue')
      BY <1>2, <1>5, <1>6, <1>7, <3>1
    <3> QED
      BY <3>2
  <2>2. CASE mem[b].inFlight
    <3>1. CASE \E w \in Workers : work[w].bot = b
      BY <1>13, <3>1
    <3>2. ASSUME NEW i \in 1..Len(queue), queue[i] = b PROVE \E j \in 1..Len(queue') : queue'[j] = b
      BY <1>2, <1>5, <1>6, <1>7, <3>2
    <3> QED
      BY <2>2, <3>1, <3>2, InFlightByIndex DEF Inv
  <2> QED
    BY <1>10, <2>1, <2>2
<1> QED
  BY <1>14, <1>15, <1>16 DEF Inv

\* A step of a worker that only changes its own locals, not its bot.
LEMMA WorkerStepInv ==
  ASSUME Inv, NEW w \in Workers, TypeOK', UNCHANGED queue,
         work' = [work EXCEPT ![w] = work'[w]], work[w].pc # "idle",
         work'[w].bot = work[w].bot, work'[w].pc # "idle",
         \A b \in Bots : mem'[b].inFlight = mem[b].inFlight /\ mem'[b].tracked = mem[b].tracked
  PROVE  Inv'
<1>1. \A v \in Workers : work'[v].bot = work[v].bot
  BY DEF Inv, TypeOK
<1>2. \A v \in Workers : (work'[v].pc = "idle") <=> (work[v].pc = "idle")
  BY DEF Inv, TypeOK
<1> QED
  BY <1>1, <1>2 DEF Inv, BusyHasBot, InFlightIsTracked, InFlightIsReal, Waiting, Running

\* The attempt a worker starts with is well typed.
LEMMA TakenType ==
  ASSUME NEW b \in Bots PROVE [IdleWork EXCEPT !.pc = "get", !.bot = b] \in Attempts
<1>1. IdleWork \in Attempts
  BY PollerAssumption DEF IdleWork, Attempts
<1> QED
  BY <1>1 DEF Attempts

\* Writing the BotReachable condition of one bot keeps the objects typed.
LEMMA ConditionType ==
  ASSUME NEW o \in [Bots -> Objects], NEW b \in Bots, NEW c \in Conditions,
         NEW g \in 0..MaxEdits
  PROVE  [o EXCEPT ![b] = [@ EXCEPT !.cond = c, !.condGen = g]] \in [Bots -> Objects]
<1> DEFINE v == [o[b] EXCEPT !.cond = c, !.condGen = g]
<1>1. v \in Objects
  BY DEF Objects
<1>2. [o EXCEPT ![b] = [@ EXCEPT !.cond = c, !.condGen = g]] = [o EXCEPT ![b] = v]
  OBVIOUS
<1> HIDE DEF v
<1> QED
  BY <1>1, <1>2

\* The scheduler's steps.
LEMMA SchedulerInv == ASSUME Inv, Scheduler PROVE Inv'
<1>1. CASE ScheduleList
  <2>1. tick' \in Ticks /\ (tick'.pc # "idle" => tick'.list \in [Bots -> Objects])
    BY <1>1 DEF ScheduleList, Inv, TypeOK, Ticks
  <2>2. faults' \in 0..MaxFaults
    BY <1>1, FaultType DEF ScheduleList, Inv, TypeOK
  <2> QED
    BY <1>1, <2>1, <2>2, SameFlags DEF ScheduleList, Inv, TypeOK, queueCap
<1>2. CASE ScheduleDue
  BY <1>2, ScheduleDueInv
<1>3. CASE ScheduleDone
  <2>1. tick' \in Ticks /\ tick'.pc = "idle"
    BY <1>3 DEF ScheduleDone, IdleTick, Ticks
  <2> QED
    BY <1>3, <2>1, SameFlags DEF ScheduleDone, Inv, TypeOK, queueCap
<1>4. ASSUME NEW b \in Bots, SetDisabled(b) PROVE Inv'
  <2>1. tick' \in Ticks /\ tick'.list = tick.list /\ tick.pc = "disable"
    BY <1>4 DEF SetDisabled, Inv, TypeOK, Ticks
  <2>2. tick.list[b].gen \in 0..MaxEdits
    BY <2>1 DEF Inv, TypeOK, Objects
  <2>3. obj' \in [Bots -> Objects]
    <3>1. obj \in [Bots -> Objects] /\ "disabled" \in Conditions
      BY DEF Inv, TypeOK, Conditions
    <3>2. [obj EXCEPT ![b] = [@ EXCEPT !.cond = "disabled", !.condGen = tick.list[b].gen]]
            \in [Bots -> Objects]
      BY <2>2, <3>1, ConditionType
    <3> QED
      BY <1>4, <3>1, <3>2 DEF SetDisabled
  <2>4. faults' \in 0..MaxFaults
    BY <1>4, FaultType DEF SetDisabled, Inv, TypeOK
  <2>5. UNCHANGED <<mem, queue, work, up>>
    BY <1>4 DEF SetDisabled
  <2>6. TypeOK'
    BY <2>1, <2>3, <2>4, <2>5 DEF Inv, TypeOK, queueCap
  <2> QED
    BY <2>5, <2>6, SameFlags
<1> QED
  BY <1>1, <1>2, <1>3, <1>4 DEF Scheduler

\* A worker takes the head of the queue: the bot's poll moves from there to the worker.
LEMMA TakeInv == ASSUME Inv, NEW w \in Workers, Take(w) PROVE Inv'
<1>1. queue \in Seq(Bots) /\ queue # <<>> /\ Len(queue) \in Nat /\ Len(queue) <= queueCap
  BY DEF Take, Inv, TypeOK
<1>2. /\ Head(queue) \in Bots /\ queue' \in Seq(Bots) /\ Len(queue') = Len(queue) - 1
      /\ \A i \in 1..Len(queue') : queue'[i] = queue[i + 1]
  <2>1. queue' = Tail(queue)
    BY DEF Take
  <2> QED
    BY <1>1, <2>1, HeadTailProperties
<1>3. [IdleWork EXCEPT !.pc = "get", !.bot = Head(queue)] \in Attempts
  BY <1>2, TakenType
<1>4. work' \in [Workers -> Attempts] /\ work'[w].bot = Head(queue) /\ work'[w].pc = "get"
      /\ \A v \in Workers \ {w} : work'[v] = work[v]
  <2>1. work' = [work EXCEPT ![w] = [IdleWork EXCEPT !.pc = "get", !.bot = Head(queue)]]
    BY DEF Take
  <2>2. work'[w] = [IdleWork EXCEPT !.pc = "get", !.bot = Head(queue)]
    BY <2>1 DEF Inv, TypeOK
  <2>3. work'[w].bot = Head(queue) /\ work'[w].pc = "get"
    BY <2>2 DEF IdleWork
  <2>4. work' \in [Workers -> Attempts] /\ \A v \in Workers \ {w} : work'[v] = work[v]
    BY <1>3, <2>1 DEF Inv, TypeOK
  <2> QED
    BY <2>3, <2>4
<1>5. work[w].bot = Idle
  BY DEF Take, Inv, BusyHasBot
<1>6. TypeOK'
  BY <1>1, <1>2, <1>4, CapType DEF Take, Inv, TypeOK, queueCap
<1>7. BusyHasBot' /\ InFlightIsTracked'
  BY <1>2, <1>4 DEF Take, Inv, BusyHasBot, InFlightIsTracked
<1>8. InFlightIsReal'
  <2> SUFFICES ASSUME NEW b \in Bots, mem[b].inFlight
               PROVE  \/ \E i \in 1..Len(queue') : queue'[i] = b
                      \/ \E v \in Workers : work'[v].bot = b
    BY DEF Take, InFlightIsReal, Waiting, Running
  <2>1. ASSUME NEW v \in Workers, work[v].bot = b PROVE work'[v].bot = b
    BY <1>4, <1>5, <2>1, PollerAssumption
  <2>2. ASSUME NEW i \in 1..Len(queue), queue[i] = b
        PROVE  work'[w].bot = b \/ \E j \in 1..Len(queue') : queue'[j] = b
    <3>1. CASE i = 1
      BY <1>1, <1>4, <2>2, <3>1
    <3>2. CASE i # 1
      <4>1. i - 1 \in 1..Len(queue') /\ (i - 1) + 1 = i
        BY <1>1, <1>2, <3>2
      <4> QED
        BY <1>2, <2>2, <4>1
    <3> QED
      BY <3>1, <3>2
  <2> QED
    BY <2>1, <2>2, InFlightByIndex DEF Inv
<1> QED
  BY <1>6, <1>7, <1>8 DEF Inv

\* Changing one worker's attempt, or one bot's memory, to a typed value keeps the type.
LEMMA WorkType ==
  ASSUME work \in [Workers -> Attempts], NEW w \in Workers, NEW a \in Attempts,
         work' = [work EXCEPT ![w] = a]
  PROVE  /\ work' \in [Workers -> Attempts] /\ work'[w] = a
         /\ work' = [work EXCEPT ![w] = work'[w]]
         /\ \A v \in Workers \ {w} : work'[v] = work[v]
OBVIOUS

\* The same for the memory of one bot.
LEMMA MemType ==
  ASSUME mem \in [Bots -> Memories], NEW b \in Bots, NEW m \in Memories,
         mem' = [mem EXCEPT ![b] = m]
  PROVE  /\ mem' \in [Bots -> Memories] /\ mem'[b] = m
         /\ \A c \in Bots \ {b} : mem'[c] = mem[c]
OBVIOUS

\* Step moves a worker on and keeps its bot and its answer.
LEMMA StepType ==
  ASSUME work \in [Workers -> Attempts], NEW w \in Workers,
         NEW p \in {"get", "poll", "label", "gauge", "backoff", "patch", "finish"}, Step(w, p)
  PROVE  /\ work' \in [Workers -> Attempts]
         /\ work' = [work EXCEPT ![w] = work'[w]]
         /\ work'[w].bot = work[w].bot /\ work'[w].pc = p
<1> DEFINE a == [work[w] EXCEPT !.pc = p]
<1>1. a \in Attempts /\ a.bot = work[w].bot /\ a.pc = p
  BY DEF Attempts
<1>2. work' = [work EXCEPT ![w] = a]
  BY DEF Step
<1> HIDE DEF a
<1> QED
  BY <1>1, <1>2, WorkType

\* The backoff is one of the multiples of the poll interval that TypeOK lists.
LEMMA BackoffType ==
  ASSUME NEW f \in 0..(maxShift + 1) PROVE Backoff(f) \in {0, 1, 2, 4, 8, 10}
BY DEF Backoff, maxBackoffMultiple, maxShift

\* Every step of a worker keeps the invariant; the deferred reset clears the flag it
\* was set for.
LEMMA PollOneInv == ASSUME Inv, NEW w \in Workers, PollOne(w) PROVE Inv'
<1> DEFINE b == work[w].bot
<1>0. /\ obj \in [Bots -> Objects] /\ mem \in [Bots -> Memories]
      /\ work \in [Workers -> Attempts] /\ up \in Gauges /\ faults \in 0..MaxFaults
      /\ work[w].ok \in BOOLEAN /\ work[w].gen \in 0..MaxEdits
  BY DEF Inv, TypeOK, Attempts
<1>00. work[w].pc # "idle" => b \in Bots
  BY DEF Inv, BusyHasBot
<1>1. CASE Take(w)
  BY <1>1, TakeInv
<1>2. CASE Get(w)
  <2>1. work[w].pc = "get" /\ UNCHANGED <<obj, mem, queue, tick, up>> /\ faults' \in 0..MaxFaults
    BY <1>0, <1>2, FaultType DEF Get, Inv
  <2>2. /\ work' \in [Workers -> Attempts] /\ work' = [work EXCEPT ![w] = work'[w]]
        /\ work'[w].bot = work[w].bot /\ work'[w].pc # "idle"
    <3>1. CASE Step(w, "finish")
      BY <1>0, <3>1, StepType
    <3>2. CASE work' = [work EXCEPT ![w] = [@ EXCEPT !.pc = "poll", !.gen = obj[b].gen]]
      <4> DEFINE a == [work[w] EXCEPT !.pc = "poll", !.gen = obj[b].gen]
      <4>1. obj[b].gen \in 0..MaxEdits
        BY <1>0, <1>00, <2>1 DEF Objects
      <4>2. a \in Attempts /\ a.bot = work[w].bot /\ a.pc = "poll"
        BY <1>0, <4>1 DEF Attempts
      <4>3. work' = [work EXCEPT ![w] = a]
        BY <3>2
      <4> HIDE DEF a
      <4> QED
        BY <1>0, <4>2, <4>3, WorkType
    <3> QED
      BY <1>2, <3>1, <3>2 DEF Get
  <2>3. TypeOK'
    BY <2>1, <2>2 DEF Inv, TypeOK, queueCap
  <2> QED
    BY <2>1, <2>2, <2>3, WorkerStepInv
<1>3. CASE Poll(w)
  <2>1. work[w].pc = "poll" /\ UNCHANGED <<obj, mem, queue, tick, up>> /\ faults' \in 0..MaxFaults
    BY <1>0, <1>3, FaultType DEF Poll, Inv
  <2>2. /\ work' \in [Workers -> Attempts] /\ work' = [work EXCEPT ![w] = work'[w]]
        /\ work'[w].bot = work[w].bot /\ work'[w].pc # "idle"
    <3>1. CASE Step(w, "finish")
      BY <1>0, <3>1, StepType
    <3>2. ASSUME NEW ok \in BOOLEAN, work' = [work EXCEPT ![w] = [@ EXCEPT !.pc = "label", !.ok = ok]]
          PROVE /\ work' \in [Workers -> Attempts] /\ work' = [work EXCEPT ![w] = work'[w]]
                /\ work'[w].bot = work[w].bot /\ work'[w].pc # "idle"
      <4> DEFINE a == [work[w] EXCEPT !.pc = "label", !.ok = ok]
      <4>1. a \in Attempts /\ a.bot = work[w].bot /\ a.pc = "label"
        BY <1>0 DEF Attempts
      <4>2. work' = [work EXCEPT ![w] = a]
        BY <3>2
      <4> HIDE DEF a
      <4> QED
        BY <1>0, <4>1, <4>2, WorkType
    <3> QED
      BY <1>3, <3>1, <3>2 DEF Poll
  <2>3. TypeOK'
    BY <2>1, <2>2 DEF Inv, TypeOK, queueCap
  <2> QED
    BY <2>1, <2>2, <2>3, WorkerStepInv
<1>4. CASE RecordLabels(w)
  <2>1. /\ work[w].pc = "label" /\ Step(w, "gauge")
        /\ UNCHANGED <<obj, queue, tick, up, faults>>
    BY <1>4 DEF RecordLabels
  <2>2. /\ mem' \in [Bots -> Memories]
        /\ \A c \in Bots : mem'[c].inFlight = mem[c].inFlight /\ mem'[c].tracked = mem[c].tracked
    <3> DEFINE m == [mem[b] EXCEPT !.label = label(w)]
    <3>1. m \in Memories /\ m.inFlight = mem[b].inFlight /\ m.tracked = mem[b].tracked
      BY <1>0, <1>00, <2>1 DEF Memories, label, Labels
    <3>2. mem' = [mem EXCEPT ![b] = m] \/ mem' = mem
      BY <1>4 DEF RecordLabels
    <3> HIDE DEF m
    <3> QED
      BY <1>0, <1>00, <2>1, <3>1, <3>2, MemType
  <2>3. /\ work' \in [Workers -> Attempts] /\ work' = [work EXCEPT ![w] = work'[w]]
        /\ work'[w].bot = work[w].bot /\ work'[w].pc # "idle"
    BY <1>0, <2>1, StepType
  <2>4. TypeOK'
    BY <2>1, <2>2, <2>3 DEF Inv, TypeOK, queueCap
  <2> QED
    BY <2>1, <2>2, <2>3, <2>4, WorkerStepInv
<1>5. CASE SetGauges(w)
  <2>1. /\ work[w].pc = "gauge" /\ Step(w, "backoff")
        /\ UNCHANGED <<obj, mem, queue, tick, faults>>
    BY <1>5 DEF SetGauges
  <2>2. up' \in Gauges
    BY <1>0, <1>5 DEF SetGauges, Gauges
  <2>3. /\ work' \in [Workers -> Attempts] /\ work' = [work EXCEPT ![w] = work'[w]]
        /\ work'[w].bot = work[w].bot /\ work'[w].pc # "idle"
    BY <1>0, <2>1, StepType
  <2>4. TypeOK'
    BY <2>1, <2>2, <2>3 DEF Inv, TypeOK, queueCap
  <2> QED
    BY <2>1, <2>3, <2>4, WorkerStepInv
<1>6. CASE UpdateBackoff(w)
  <2>1. /\ work[w].pc = "backoff" /\ Step(w, "patch")
        /\ UNCHANGED <<obj, queue, tick, up, faults>>
    BY <1>6 DEF UpdateBackoff
  <2>2. /\ mem' \in [Bots -> Memories]
        /\ \A c \in Bots : mem'[c].inFlight = mem[c].inFlight /\ mem'[c].tracked = mem[c].tracked
    <3> DEFINE fails == IF work[w].ok THEN 0
                        ELSE IF mem[b].fails > maxShift THEN mem[b].fails
                        ELSE mem[b].fails + 1
               m == [mem[b] EXCEPT !.fails = fails, !.wait = Backoff(fails)]
    <3>1. mem[b] \in Memories /\ mem[b].fails \in 0..(maxShift + 1)
      BY <1>0, <1>00, <2>1 DEF Memories
    <3>2. fails \in 0..(maxShift + 1)
      BY <3>1 DEF maxShift
    <3>3. mem' = [mem EXCEPT ![b] = m] \/ mem' = mem
      BY <1>6 DEF UpdateBackoff
    <3> HIDE DEF fails
    <3>4. m \in Memories /\ m.inFlight = mem[b].inFlight /\ m.tracked = mem[b].tracked
      BY <3>1, <3>2, BackoffType DEF Memories
    <3> HIDE DEF m
    <3> QED
      BY <1>0, <1>00, <2>1, <3>3, <3>4, MemType
  <2>3. /\ work' \in [Workers -> Attempts] /\ work' = [work EXCEPT ![w] = work'[w]]
        /\ work'[w].bot = work[w].bot /\ work'[w].pc # "idle"
    BY <1>0, <2>1, StepType
  <2>4. TypeOK'
    BY <2>1, <2>2, <2>3 DEF Inv, TypeOK, queueCap
  <2> QED
    BY <2>1, <2>2, <2>3, <2>4, WorkerStepInv
<1>7. CASE Patch(w)
  <2>1. /\ work[w].pc = "patch" /\ Step(w, "finish")
        /\ UNCHANGED <<mem, queue, tick, up>> /\ faults' \in 0..MaxFaults
    BY <1>0, <1>7, FaultType DEF Patch, Inv
  <2>2. obj' \in [Bots -> Objects]
    <3> DEFINE c == IF work[w].ok THEN "reachable" ELSE "unreachable"
               g == work[w].gen
    <3>1. c \in Conditions /\ g \in 0..MaxEdits /\ b \in Bots
      BY <1>0, <1>00, <2>1 DEF Conditions
    <3>2. obj' = obj \/ obj' = [obj EXCEPT ![b] = [@ EXCEPT !.cond = c, !.condGen = g]]
      BY <1>7 DEF Patch
    <3> HIDE DEF c, g, b
    <3>3. [obj EXCEPT ![b] = [@ EXCEPT !.cond = c, !.condGen = g]] \in [Bots -> Objects]
      BY <1>0, <3>1, ConditionType
    <3> QED
      BY <1>0, <3>2, <3>3
  <2>3. /\ work' \in [Workers -> Attempts] /\ work' = [work EXCEPT ![w] = work'[w]]
        /\ work'[w].bot = work[w].bot /\ work'[w].pc # "idle"
    BY <1>0, <2>1, StepType
  <2>4. TypeOK'
    BY <2>1, <2>2, <2>3 DEF Inv, TypeOK, queueCap
  <2> QED
    BY <2>1, <2>3, <2>4, WorkerStepInv
<1>8. CASE Finish(w)
  <2>1. /\ work[w].pc = "finish" /\ work' = [work EXCEPT ![w] = IdleWork]
        /\ UNCHANGED <<obj, queue, tick, up, faults>> /\ b \in Bots
    BY <1>8, <1>00 DEF Finish
  <2>2. /\ mem' \in [Bots -> Memories] /\ ~mem'[b].inFlight
        /\ \A c \in Bots : mem'[c].inFlight => mem[c].inFlight /\ mem'[c].tracked
    <3> DEFINE m == [mem[b] EXCEPT !.inFlight = FALSE]
    <3>1. m \in Memories /\ ~m.inFlight
      BY <1>0, <2>1 DEF Memories
    <3>2. CASE mem[b].tracked
      <4>1. mem' = [mem EXCEPT ![b] = m]
        BY <1>8, <3>2 DEF Finish
      <4> HIDE DEF m
      <4> QED
        BY <1>0, <2>1, <3>1, <4>1, MemType DEF Inv, InFlightIsTracked
    <3>3. CASE ~mem[b].tracked
      <4>1. mem' = mem
        BY <1>8, <3>3 DEF Finish
      <4> QED
        BY <1>0, <2>1, <3>3, <4>1 DEF Inv, InFlightIsTracked
    <3> QED
      BY <3>2, <3>3
  <2>3. IdleWork \in Attempts /\ IdleWork.pc = "idle" /\ IdleWork.bot = Idle
    BY PollerAssumption DEF IdleWork, Attempts
  <2>4. /\ work' \in [Workers -> Attempts] /\ work'[w] = IdleWork
        /\ \A v \in Workers \ {w} : work'[v] = work[v]
    BY <1>0, <2>1, <2>3, WorkType
  <2>5. TypeOK'
    BY <2>1, <2>2, <2>4 DEF Inv, TypeOK, queueCap
  <2>6. BusyHasBot' /\ InFlightIsTracked'
    BY <2>2, <2>3, <2>4 DEF Inv, BusyHasBot, InFlightIsTracked
  <2>7. InFlightIsReal'
    <3> SUFFICES ASSUME NEW c \in Bots, mem'[c].inFlight
                 PROVE  \/ \E i \in 1..Len(queue) : queue[i] = c
                        \/ \E v \in Workers : work'[v].bot = c
      BY <2>1 DEF InFlightIsReal, Waiting, Running
    <3>1. c # b /\ mem[c].inFlight
      BY <2>2
    <3>2. ASSUME NEW v \in Workers, work[v].bot = c PROVE work'[v].bot = c
      BY <2>4, <3>1, <3>2
    <3> QED
      BY <3>1, <3>2, InFlightByIndex DEF Inv
  <2> QED
    BY <2>5, <2>6, <2>7 DEF Inv
<1> QED
  BY <1>1, <1>2, <1>3, <1>4, <1>5, <1>6, <1>7, <1>8 DEF PollOne

\* Time, users and restarts keep it too.
LEMMA EnvironmentInv ==
  ASSUME Inv, Restart \/ \E b \in Bots : Elapse(b) \/ EditBot(b)
  PROVE  Inv'
<1>1. CASE Restart
  <2>1. mem' \in [Bots -> Memories] /\ \A b \in Bots : mem'[b].inFlight = FALSE
    BY <1>1 DEF Restart, Memories, Untracked, Labels, maxShift
  <2>2. work' \in [Workers -> Attempts] /\ BusyHasBot'
    BY <1>1, PollerAssumption DEF Restart, IdleWork, Attempts, BusyHasBot
  <2>3. queue' \in Seq(Bots) /\ Len(queue') <= queueCap
    BY <1>1, CapType DEF Restart
  <2>4. tick' \in Ticks /\ tick'.pc = "idle" /\ up' \in Gauges
    BY <1>1 DEF Restart, IdleTick, Ticks, Gauges
  <2>5. faults' \in 0..MaxFaults /\ obj' = obj
    BY <1>1, FaultType DEF Restart, Inv
  <2>6. TypeOK'
    BY <2>1, <2>2, <2>3, <2>4, <2>5 DEF Inv, TypeOK, queueCap
  <2> QED
    BY <2>1, <2>2, <2>6 DEF Inv, InFlightIsTracked, InFlightIsReal
<1>2. ASSUME NEW b \in Bots, Elapse(b) PROVE Inv'
  <2>0. mem \in [Bots -> Memories]
    BY DEF Inv, TypeOK
  <2> DEFINE m == [mem[b] EXCEPT !.wait = 0]
  <2>1. m \in Memories /\ m.inFlight = mem[b].inFlight /\ m.tracked = mem[b].tracked
    BY <2>0 DEF Memories
  <2>2. mem' = [mem EXCEPT ![b] = m] /\ UNCHANGED <<obj, queue, work, tick, up, faults>>
    BY <1>2 DEF Elapse
  <2> HIDE DEF m
  <2>3. /\ mem' \in [Bots -> Memories]
        /\ \A c \in Bots : mem'[c].inFlight = mem[c].inFlight /\ mem'[c].tracked = mem[c].tracked
    BY <2>0, <2>1, <2>2, MemType
  <2>4. TypeOK'
    BY <2>2, <2>3 DEF Inv, TypeOK, queueCap
  <2> QED
    BY <2>2, <2>3, <2>4 DEF Inv, BusyHasBot, InFlightIsTracked, InFlightIsReal, Waiting, Running
<1>3. ASSUME NEW b \in Bots, EditBot(b) PROVE Inv'
  <2>0. /\ obj \in [Bots -> Objects] /\ obj[b] \in Objects
        /\ obj[b].gen \in 0..MaxEdits /\ obj[b].gen < MaxEdits
    BY <1>3 DEF EditBot, Inv, TypeOK, Objects
  <2>1. obj[b].gen + 1 \in 0..MaxEdits /\ 0 \in 0..MaxEdits
    BY <2>0, PollerAssumption
  <2>2. PICK o \in Objects : obj' = [obj EXCEPT ![b] = o]
    <3>1. [obj[b] EXCEPT !.enabled = ~obj[b].enabled, !.gen = obj[b].gen + 1] \in Objects
      BY <2>0, <2>1 DEF Objects
    <3>2. [obj[b] EXCEPT !.exists = FALSE, !.gen = obj[b].gen + 1] \in Objects
      BY <2>0, <2>1 DEF Objects
    <3>3. ASSUME NEW on \in BOOLEAN
          PROVE [exists |-> TRUE, enabled |-> on, gen |-> obj[b].gen + 1,
                 cond |-> "unset", condGen |-> 0] \in Objects
      BY <2>1 DEF Objects, Conditions
    <3>4. CASE obj' = [obj EXCEPT ![b] = [@ EXCEPT !.enabled = ~obj[b].enabled, !.gen = obj[b].gen + 1]]
      <4> DEFINE v == [obj[b] EXCEPT !.enabled = ~obj[b].enabled, !.gen = obj[b].gen + 1]
      <4>1. v \in Objects /\ obj' = [obj EXCEPT ![b] = v]
        BY <3>1, <3>4
      <4> HIDE DEF v
      <4> QED
        BY <4>1
    <3>5. CASE obj' = [obj EXCEPT ![b] = [@ EXCEPT !.exists = FALSE, !.gen = obj[b].gen + 1]]
      <4> DEFINE v == [obj[b] EXCEPT !.exists = FALSE, !.gen = obj[b].gen + 1]
      <4>1. v \in Objects /\ obj' = [obj EXCEPT ![b] = v]
        BY <3>2, <3>5
      <4> HIDE DEF v
      <4> QED
        BY <4>1
    <3>6. CASE \E on \in BOOLEAN :
                 obj' = [obj EXCEPT ![b] = [exists |-> TRUE, enabled |-> on,
                           gen |-> @.gen + 1, cond |-> "unset", condGen |-> 0]]
      BY <3>3, <3>6
    <3> QED
      BY <1>3, <3>4, <3>5, <3>6 DEF EditBot
  <2>3. UNCHANGED <<mem, queue, work, tick, up, faults>>
    BY <1>3 DEF EditBot
  <2>4. TypeOK'
    BY <2>0, <2>2, <2>3 DEF Inv, TypeOK, queueCap
  <2> QED
    BY <2>3, <2>4, SameFlags
<1> QED
  BY <1>1, <1>2, <1>3

-----------------------------------------------------------------------------
\* Inv is inductive.
THEOREM Invariance == Spec => []Inv
<1>1. Inv /\ [Next]_vars => Inv'
  <2> SUFFICES ASSUME Inv, [Next]_vars PROVE Inv'
    OBVIOUS
  <2>1. CASE UNCHANGED vars
    <3>1. TypeOK'
      BY <2>1 DEF vars, Inv, TypeOK, queueCap
    <3> QED
      BY <2>1, <3>1, SameFlags DEF vars
  <2>2. CASE Next
    BY <2>2, SchedulerInv, PollOneInv, EnvironmentInv DEF Next
  <2> QED
    BY <2>1, <2>2
<1> QED
  BY InitInv, <1>1, PTL DEF Spec

\* The poller's state stays well typed; in particular the channel never holds more than
\* its capacity and the backoff never exceeds ten poll intervals.
THEOREM TypeCorrect == Spec => []TypeOK
<1>1. Inv => TypeOK
  BY DEF Inv
<1> QED
  BY Invariance, <1>1, PTL

\* A bot marked in flight always has a poll queued or running that will reset the mark,
\* so no bot is ever skipped by scheduleDue for good.
THEOREM InFlightCorrect == Spec => []InFlightIsReal
<1>1. Inv => InFlightIsReal
  BY DEF Inv
<1> QED
  BY Invariance, <1>1, PTL

-----------------------------------------------------------------------------
(* Polls of one bot at a time.  Finish resets the mark whether or not it is  *)
(* its own poll's, so counting needs more than InFlightIsReal: each poll     *)
(* beyond the marked one was paid for by forgetting the bot, and that takes  *)
(* an edit to stop it being pollable and one to make it pollable again.      *)

\* The polls of b that have been queued and have not finished, and the one of
\* them that b's memory accounts for.
Outstanding(b) == Cardinality(Waiting(b)) + Cardinality(Running(b))
Marked(b) == IF mem[b].inFlight THEN 1 ELSE 0

\* How many polls of b there can be, given one version o of its object: the last
\* edit of a bot that is tracked and no longer pollable has paid for nothing yet,
\* and that of a bot that is already forgotten pays for its successor.
Within(b, o) ==
    IF Pollable(o) THEN 2 * Outstanding(b) <= 2 * Marked(b) + o.gen
    ELSE IF mem[b].tracked THEN 2 * Outstanding(b) + 1 <= 2 * Marked(b) + o.gen
    ELSE 2 * Outstanding(b) <= o.gen + 1

\* The bound holds of the current object and of the one scheduleDue will look at.
PollsWithin ==
    \A b \in Bots :
        Within(b, obj[b]) /\ (tick.pc = "schedule" => Within(b, tick.list[b]))

\* The snapshot is no newer than the object, and older if it says something else.
ListIsOlder ==
    tick.pc = "schedule" =>
        \A b \in Bots :
            /\ tick.list[b].gen <= obj[b].gen
            /\ Pollable(tick.list[b]) # Pollable(obj[b]) => tick.list[b].gen < obj[b].gen

Counted == PollsWithin /\ ListIsOlder

\* The polls of a bot are finitely many.
LEMMA CountType ==
  ASSUME TypeOK, NEW b \in Bots
  PROVE  /\ IsFiniteSet(Waiting(b)) /\ IsFiniteSet(Running(b))
         /\ Cardinality(Waiting(b)) \in Nat /\ Cardinality(Running(b)) \in Nat
         /\ Outstanding(b) \in Nat
<1>1. Len(queue) \in Nat
  BY DEF TypeOK
<1>2. IsFiniteSet(1..Len(queue)) /\ Waiting(b) \subseteq 1..Len(queue)
  BY <1>1, FS_Interval DEF Waiting
<1>3. IsFiniteSet(Workers) /\ Running(b) \subseteq Workers
  BY PollerAssumption DEF Running
<1>4. IsFiniteSet(Waiting(b)) /\ IsFiniteSet(Running(b))
  BY <1>2, <1>3, FS_Subset
<1>5. Cardinality(Waiting(b)) \in Nat /\ Cardinality(Running(b)) \in Nat
  BY <1>4, FS_CardinalityType
<1> QED
  BY <1>4, <1>5 DEF Outstanding

\* A step that moves no poll between the queue and the workers changes no count.
LEMMA SameCount ==
  ASSUME queue' = queue, \A w \in Workers : work'[w].bot = work[w].bot, NEW b \in Bots
  PROVE  Outstanding(b)' = Outstanding(b)
<1>1. Waiting(b)' = Waiting(b) /\ Running(b)' = Running(b)
  BY DEF Waiting, Running
<1> QED
  BY <1>1 DEF Outstanding

\* A step that changes no count, no flag and no spec keeps the bound.
LEMMA SameCounted ==
  ASSUME Counted, \A b \in Bots : Outstanding(b)' = Outstanding(b),
         \A b \in Bots : mem'[b].inFlight = mem[b].inFlight /\ mem'[b].tracked = mem[b].tracked,
         \A b \in Bots : /\ obj'[b].gen = obj[b].gen /\ obj'[b].exists = obj[b].exists
                         /\ obj'[b].enabled = obj[b].enabled,
         tick'.pc = "schedule" => tick' = tick
  PROVE  Counted'
<1>1. \A b \in Bots : Within(b, obj[b])'
  <2> SUFFICES ASSUME NEW b \in Bots PROVE Within(b, obj[b])'
    OBVIOUS
  <2>1. Within(b, obj[b])
    BY DEF Counted, PollsWithin
  <2> QED
    BY <2>1 DEF Within, Marked, Pollable
<1>2. ASSUME tick'.pc = "schedule", NEW b \in Bots PROVE Within(b, tick.list[b])'
  <2>1. Within(b, tick.list[b]) /\ tick' = tick
    BY <1>2 DEF Counted, PollsWithin
  <2> QED
    BY <2>1 DEF Within, Marked, Pollable
<1>3. ListIsOlder'
  BY DEF Counted, ListIsOlder, Pollable
<1> QED
  BY <1>1, <1>2, <1>3 DEF Counted, PollsWithin

\* The bound holds when the poller starts.
LEMMA InitCounted == Init => Counted
<1> SUFFICES ASSUME Init PROVE Counted
  OBVIOUS
<1>1. TypeOK /\ tick.pc = "idle"
  BY InitInv DEF Inv, Init, IdleTick
<1>2. ASSUME NEW b \in Bots PROVE Within(b, obj[b])
  <2>1. Waiting(b) = {} /\ Running(b) = {}
    BY PollerAssumption DEF Init, Waiting, Running, IdleWork
  <2>2. Outstanding(b) = 0
    BY <2>1, FS_EmptySet DEF Outstanding
  <2>3. mem[b].tracked = FALSE /\ mem[b].inFlight = FALSE /\ obj[b].gen = 0
    BY DEF Init, Untracked
  <2> QED
    BY <2>2, <2>3 DEF Within, Marked
<1> QED
  BY <1>1, <1>2 DEF Counted, PollsWithin, ListIsOlder

\* Moving every place down by one keeps their number.
LEMMA ShiftCardinality ==
  ASSUME NEW S \in SUBSET Int, NEW T \in SUBSET Int, IsFiniteSet(T),
         \A i \in Int : i \in S <=> i + 1 \in T
  PROVE  IsFiniteSet(S) /\ Cardinality(S) = Cardinality(T)
<1> DEFINE f == [j \in T |-> j - 1]
<1>1. f \in [T -> S]
  OBVIOUS
<1>2. \A j, k \in T : f[j] = f[k] => j = k
  OBVIOUS
<1>3. \A i \in S : \E j \in T : f[j] = i
  <2> SUFFICES ASSUME NEW i \in S PROVE \E j \in T : f[j] = i
    OBVIOUS
  <2>1. i + 1 \in T /\ (i + 1) - 1 = i
    OBVIOUS
  <2>2. f[i + 1] = i
    BY <2>1
  <2> QED
    BY <2>1, <2>2
<1> HIDE DEF f
<1>4. f \in Bijection(T, S)
  BY <1>1, <1>2, <1>3, Fun_IsBij
<1>5. ExistsBijection(T, S)
  BY <1>4 DEF ExistsBijection
<1> QED
  BY <1>5, FS_Bijection

\* A worker takes a poll from the queue: the number of polls of each bot is the same.
LEMMA TakeCount ==
  ASSUME Inv, NEW w \in Workers, Take(w), NEW b \in Bots
  PROVE  Outstanding(b)' = Outstanding(b)
<1>1. queue \in Seq(Bots) /\ queue # <<>> /\ Len(queue) \in Nat /\ queue' = Tail(queue)
  BY DEF Take, Inv, TypeOK
<1>2. /\ Head(queue) \in Bots /\ Len(queue') = Len(queue) - 1 /\ Len(queue) > 0
      /\ \A i \in 1..Len(queue') : queue'[i] = queue[i + 1]
  BY <1>1, HeadTailProperties
<1>3. Head(queue) = queue[1]
  BY <1>1
<1>4. /\ work[w].bot = Idle /\ Idle # b
      /\ work'[w].bot = Head(queue) /\ \A v \in Workers \ {w} : work'[v].bot = work[v].bot
  BY PollerAssumption DEF Take, Inv, TypeOK, BusyHasBot, IdleWork
<1>5. IsFiniteSet(Waiting(b)) /\ IsFiniteSet(Running(b))
      /\ Cardinality(Waiting(b)) \in Nat /\ Cardinality(Running(b)) \in Nat
  BY CountType DEF Inv
<1>6. /\ IsFiniteSet(Waiting(b) \ {1})
      /\ Cardinality(Waiting(b) \ {1})
           = IF 1 \in Waiting(b) THEN Cardinality(Waiting(b)) - 1 ELSE Cardinality(Waiting(b))
  BY <1>5, FS_RemoveElement
<1>7. Cardinality(Waiting(b)') = Cardinality(Waiting(b) \ {1})
  <2>1. \A i \in Int : i \in Waiting(b)' <=> i + 1 \in Waiting(b) \ {1}
    <3> SUFFICES ASSUME NEW i \in Int PROVE i \in Waiting(b)' <=> i + 1 \in Waiting(b) \ {1}
      OBVIOUS
    <3>1. i \in 1..Len(queue') <=> (i + 1 \in 1..Len(queue) /\ i + 1 # 1)
      BY <1>1, <1>2
    <3> QED
      BY <1>2, <3>1 DEF Waiting
  <2>2. Waiting(b)' \in SUBSET Int /\ Waiting(b) \ {1} \in SUBSET Int
    BY <1>1, <1>2 DEF Waiting
  <2> QED
    BY <1>6, <2>1, <2>2, ShiftCardinality
<1>8. 1 \in Waiting(b) <=> Head(queue) = b
  BY <1>1, <1>2, <1>3 DEF Waiting
<1>9. CASE Head(queue) = b
  <2>1. Running(b)' = Running(b) \cup {w} /\ w \notin Running(b)
    BY <1>4, <1>9 DEF Running
  <2>2. Cardinality(Running(b)') = Cardinality(Running(b)) + 1
    BY <1>5, <2>1, FS_AddElement
  <2> QED
    BY <1>5, <1>6, <1>7, <1>8, <1>9, <2>2 DEF Outstanding
<1>10. CASE Head(queue) # b
  <2>1. Running(b)' = Running(b)
    BY <1>4, <1>10 DEF Running
  <2> QED
    BY <1>5, <1>6, <1>7, <1>8, <1>10, <2>1 DEF Outstanding
<1> QED
  BY <1>9, <1>10

\* A sequence that lists the elements of a finite set lists none of them twice.
LEMMA OrderOnce ==
  ASSUME NEW S, IsFiniteSet(S), NEW f \in Orders(S)
  PROVE  \A i, j \in 1..Cardinality(S) : f[i] = f[j] => i = j
<1>1. Cardinality(S) \in Nat
  BY FS_CardinalityType
<1>2. IsFiniteSet(1..Cardinality(S)) /\ Cardinality(1..Cardinality(S)) = Cardinality(S)
  BY <1>1, FS_Interval
<1>3. f \in [1..Cardinality(S) -> S] /\ \A x \in S : \E i \in 1..Cardinality(S) : f[i] = x
  BY DEF Orders
<1>4. f \in Surjection(1..Cardinality(S), S)
  BY <1>3, Fun_IsSurj
<1>5. f \in Injection(1..Cardinality(S), S)
  BY <1>2, <1>4, FS_SurjSameCardinalityImpliesInj
<1> QED
  BY <1>5, Fun_InjectionProperties

\* scheduleDue queues one poll of each bot it marks, and marks none that was marked;
\* a bot that the snapshot does not call pollable is forgotten with its mark.
LEMMA ScheduleDueCount ==
  ASSUME Inv, ScheduleDue, NEW b \in Bots
  PROVE  /\ mem'[b].tracked = Pollable(tick.list[b]) /\ Outstanding(b)' \in Nat
         /\ Pollable(tick.list[b]) =>
              Outstanding(b)' - Marked(b)' = Outstanding(b) - Marked(b)
         /\ ~Pollable(tick.list[b]) =>
              Outstanding(b)' = Outstanding(b) /\ Marked(b)' = 0
<1> DEFINE seen == {c \in Bots : Pollable(tick.list[c])}
           due  == {c \in seen : ~mem[c].inFlight /\ mem[c].wait = 0}
<1>1. PICK sent \in SUBSET due :
        /\ \E order \in Orders(sent) : queue' = queue \o order
        /\ mem' = [c \in Bots |->
             IF c \in seen
             THEN [mem[c] EXCEPT !.tracked = TRUE, !.inFlight = mem[c].inFlight \/ c \in sent]
             ELSE Untracked]
  BY DEF ScheduleDue, Due, Room, Flagged
<1>2. PICK order \in Orders(sent) : queue' = queue \o order
  BY <1>1
<1>3. sent \subseteq Bots /\ (b \in sent => b \in seen /\ ~mem[b].inFlight)
      /\ (b \in seen <=> Pollable(tick.list[b]))
  OBVIOUS
<1> HIDE DEF seen, due
<1>4. IsFiniteSet(sent)
  BY <1>3, PollerAssumption, FS_Subset
<1>5. Cardinality(sent) \in Nat
  BY <1>4, FS_CardinalityType
<1>6. /\ order \in Seq(Bots) /\ Len(order) = Cardinality(sent)
      /\ \A i \in 1..Len(order) : order[i] \in sent
      /\ b \in sent => \E i \in 1..Len(order) : order[i] = b
  BY <1>3, <1>5 DEF Orders
<1>7. \A i, j \in 1..Len(order) : order[i] = order[j] => i = j
  BY <1>4, <1>6, OrderOnce
<1>8. queue \in Seq(Bots) /\ Len(queue) \in Nat
  BY DEF Inv, TypeOK
<1>9. /\ Len(queue') = Len(queue) + Len(order)
      /\ \A i \in 1..Len(queue') : queue'[i] = IF i <= Len(queue) THEN queue[i]
                                                ELSE order[i - Len(queue)]
  <2>1. /\ Len(queue \o order) = Len(queue) + Len(order)
        /\ \A i \in 1..(Len(queue) + Len(order)) :
             (queue \o order)[i] = IF i <= Len(queue) THEN queue[i] ELSE order[i - Len(queue)]
    BY <1>6, <1>8, ConcatProperties
  <2> QED
    BY <1>2, <2>1, Zenon
<1>10. Running(b)' = Running(b)
  BY DEF ScheduleDue, Running
<1>11. /\ IsFiniteSet(Waiting(b)) /\ Cardinality(Waiting(b)) \in Nat
       /\ Cardinality(Running(b)) \in Nat
  BY CountType DEF Inv
<1>12. mem[b] \in Memories
  BY DEF Inv, TypeOK
<1>13. CASE b \in sent
  <2>1. PICK k \in 1..Len(order) : order[k] = b
    BY <1>6, <1>13
  <2>2. Waiting(b)' = Waiting(b) \cup {Len(queue) + k}
    <3>1. ASSUME NEW i \in 1..Len(queue'), queue'[i] = b PROVE i \in Waiting(b) \cup {Len(queue) + k}
      <4>1. CASE i <= Len(queue)
        BY <1>8, <1>9, <3>1, <4>1 DEF Waiting
      <4>2. CASE ~(i <= Len(queue))
        <5>1. i - Len(queue) \in 1..Len(order) /\ order[i - Len(queue)] = b
          BY <1>6, <1>5, <1>8, <1>9, <3>1, <4>2
        <5>2. i - Len(queue) = k
          BY <1>7, <2>1, <5>1
        <5> QED
          BY <1>8, <5>2
      <4> QED
        BY <4>1, <4>2
    <3>2. ASSUME NEW i \in Waiting(b) PROVE i \in 1..Len(queue') /\ queue'[i] = b
      BY <1>5, <1>6, <1>8, <1>9 DEF Waiting
    <3>3. Len(queue) + k \in 1..Len(queue') /\ queue'[Len(queue) + k] = b
      BY <1>5, <1>6, <1>8, <1>9, <2>1
    <3> QED
      BY <3>1, <3>2, <3>3 DEF Waiting
  <2>3. Len(queue) + k \notin Waiting(b)
    BY <1>8, <2>1 DEF Waiting
  <2>4. Cardinality(Waiting(b)') = Cardinality(Waiting(b)) + 1
    BY <1>11, <2>2, <2>3, FS_AddElement
  <2>5. mem'[b] = [mem[b] EXCEPT !.tracked = TRUE, !.inFlight = mem[b].inFlight \/ b \in sent]
    BY <1>1, <1>3, <1>13
  <2>6. mem'[b].tracked /\ mem'[b].inFlight
    BY <1>12, <1>13, <2>5 DEF Memories
  <2>7. Marked(b)' = 1 /\ Marked(b) = 0
    BY <1>3, <1>13, <2>6 DEF Marked
  <2>8. Outstanding(b)' = Outstanding(b) + 1 /\ Outstanding(b) \in Nat
    BY <1>10, <1>11, <2>4 DEF Outstanding
  <2>9. mem'[b].tracked = TRUE
    BY <1>12, <2>5 DEF Memories
  <2>10. Pollable(tick.list[b]) = TRUE
    BY <1>3, <1>13 DEF Pollable
  <2>11. Outstanding(b)' - Marked(b)' = Outstanding(b) - Marked(b) /\ Outstanding(b)' \in Nat
    BY <2>7, <2>8
  <2> QED
    BY <2>9, <2>10, <2>11
<1>14. CASE b \notin sent
  <2>1. Waiting(b)' = Waiting(b)
    <3>1. ASSUME NEW i \in 1..Len(queue'), queue'[i] = b PROVE i \in Waiting(b)
      <4>1. CASE i <= Len(queue)
        BY <1>8, <1>9, <3>1, <4>1 DEF Waiting
      <4>2. CASE ~(i <= Len(queue))
        BY <1>5, <1>6, <1>8, <1>9, <1>14, <3>1, <4>2
      <4> QED
        BY <4>1, <4>2
    <3>2. ASSUME NEW i \in Waiting(b) PROVE i \in 1..Len(queue') /\ queue'[i] = b
      BY <1>5, <1>6, <1>8, <1>9 DEF Waiting
    <3> QED
      BY <3>1, <3>2 DEF Waiting
  <2>2. Outstanding(b)' = Outstanding(b) /\ Outstanding(b) \in Nat
    BY <1>10, <1>11, <2>1 DEF Outstanding
  <2>3. CASE b \in seen
    <3>1. mem'[b] = [mem[b] EXCEPT !.tracked = TRUE, !.inFlight = mem[b].inFlight \/ b \in sent]
      BY <1>1, <2>3
    <3>2. mem'[b].tracked = TRUE
      BY <1>12, <3>1 DEF Memories
    <3>3. mem'[b].inFlight <=> mem[b].inFlight
      BY <1>12, <1>14, <3>1 DEF Memories
    <3>4. Marked(b)' = Marked(b) /\ Marked(b) \in Nat
      BY <3>3 DEF Marked
    <3>5. Pollable(tick.list[b]) = TRUE
      BY <1>3, <2>3 DEF Pollable
    <3> QED
      BY <2>2, <3>2, <3>4, <3>5
  <2>4. CASE b \notin seen
    <3>1. mem'[b] = Untracked
      BY <1>1, <2>4
    <3>2. mem'[b].tracked = FALSE /\ Marked(b)' = 0
      BY <3>1 DEF Untracked, Marked
    <3>3. Pollable(tick.list[b]) = FALSE
      BY <1>3, <2>4 DEF Pollable
    <3> QED
      BY <2>2, <3>2, <3>3
  <2> QED
    BY <2>3, <2>4
<1> QED
  BY <1>13, <1>14

\* scheduleDue keeps the bound of the snapshot it acts on, and so that of the object.
LEMMA ScheduleDueCounted ==
  ASSUME Inv, Counted, ScheduleDue PROVE Counted'
<1>1. tick.pc = "schedule" /\ tick'.pc = "disable" /\ obj' = obj
  BY DEF ScheduleDue, Inv, TypeOK, Ticks
<1>2. ASSUME NEW b \in Bots PROVE Within(b, obj[b])'
  <2>1. PICK o \in Objects : o = tick.list[b]
    BY <1>1 DEF Inv, TypeOK
  <2>2. PICK p \in Objects : p = obj[b]
    BY DEF Inv, TypeOK
  <2>3. Within(b, o)
    BY <1>1, <2>1 DEF Counted, PollsWithin
  <2>4. o.gen <= p.gen /\ (Pollable(o) # Pollable(p) => o.gen < p.gen)
    BY <1>1, <2>1, <2>2 DEF Counted, ListIsOlder
  <2>5. Outstanding(b) \in Nat /\ Outstanding(b)' \in Nat
    BY CountType, ScheduleDueCount DEF Inv
  <2>6. /\ mem'[b].tracked = Pollable(o)
        /\ Pollable(o) => Outstanding(b)' - Marked(b)' = Outstanding(b) - Marked(b)
        /\ ~Pollable(o) => Outstanding(b)' = Outstanding(b) /\ Marked(b)' = 0
    BY <2>1, ScheduleDueCount
  <2>7. o.gen \in Nat /\ p.gen \in Nat /\ Marked(b) \in 0..1 /\ Marked(b)' \in 0..1
    BY PollerAssumption DEF Objects, Marked
  <2>8. CASE Pollable(o)
    <3>1. 2 * Outstanding(b) <= 2 * Marked(b) + o.gen
      BY <2>3, <2>8 DEF Within
    <3>2. 2 * Outstanding(b)' <= 2 * Marked(b)' + o.gen
      BY <2>5, <2>6, <2>7, <2>8, <3>1
    <3>3. CASE Pollable(p)
      <4>1. 2 * Outstanding(b)' <= 2 * Marked(b)' + p.gen
        BY <2>4, <2>5, <2>7, <3>2
      <4> QED
        BY <1>1, <2>2, <3>3, <4>1 DEF Within
    <3>4. CASE ~Pollable(p)
      <4>1. o.gen < p.gen /\ mem'[b].tracked
        BY <2>4, <2>6, <2>8, <3>4
      <4>2. 2 * Outstanding(b)' + 1 <= 2 * Marked(b)' + p.gen
        BY <2>5, <2>7, <3>2, <4>1
      <4> QED
        BY <1>1, <2>2, <3>4, <4>1, <4>2 DEF Within
    <3> QED
      BY <3>3, <3>4
  <2>9. CASE ~Pollable(o)
    <3>1. 2 * Outstanding(b) <= o.gen + 1
      <4>1. CASE mem[b].tracked
        <5>1. 2 * Outstanding(b) + 1 <= 2 * Marked(b) + o.gen
          BY <2>3, <2>9, <4>1 DEF Within
        <5> QED
          BY <2>5, <2>7, <5>1
      <4>2. CASE ~mem[b].tracked
        BY <2>3, <2>9, <4>2 DEF Within
      <4> QED
        BY <4>1, <4>2
    <3>2. 2 * Outstanding(b)' <= o.gen + 1 /\ Marked(b)' = 0 /\ ~mem'[b].tracked
      BY <2>6, <2>9, <3>1
    <3>3. CASE Pollable(p)
      <4>1. o.gen < p.gen
        BY <2>4, <2>9, <3>3
      <4>2. 2 * Outstanding(b)' <= 2 * Marked(b)' + p.gen
        BY <2>5, <2>7, <3>2, <4>1
      <4> QED
        BY <1>1, <2>2, <3>3, <4>2 DEF Within
    <3>4. CASE ~Pollable(p)
      <4>1. 2 * Outstanding(b)' <= p.gen + 1
        BY <2>4, <2>5, <2>7, <3>2
      <4> QED
        BY <1>1, <2>2, <3>2, <3>4, <4>1 DEF Within
    <3> QED
      BY <3>3, <3>4
  <2> QED
    BY <2>8, <2>9
<1> QED
  BY <1>1, <1>2 DEF Counted, PollsWithin, ListIsOlder

\* The deferred reset ends one poll of its bot, and the mark that may be another's.
LEMMA FinishCounted ==
  ASSUME Inv, Counted, NEW w \in Workers, Finish(w) PROVE Counted'
<1>1. PICK b \in Bots : b = work[w].bot
  BY DEF Finish, Inv, BusyHasBot
<1>2. /\ UNCHANGED <<obj, queue, tick, up, faults>>
      /\ mem' = IF mem[b].tracked THEN [mem EXCEPT ![b].inFlight = FALSE] ELSE mem
  BY <1>1 DEF Finish
<1>3. work'[w].bot = Idle /\ Idle \notin Bots
      /\ \A v \in Workers \ {w} : work'[v].bot = work[v].bot
  BY PollerAssumption DEF Finish, Inv, TypeOK, IdleWork
<1>4. ASSUME NEW c \in Bots
      PROVE  /\ Outstanding(c)' = IF c = b THEN Outstanding(c) - 1 ELSE Outstanding(c)
             /\ Outstanding(c) \in Nat /\ Outstanding(c)' \in Nat
  <2>1. /\ IsFiniteSet(Running(c)) /\ Cardinality(Waiting(c)) \in Nat
        /\ Cardinality(Running(c)) \in Nat
    BY CountType DEF Inv
  <2>2. Waiting(c)' = Waiting(c)
    BY <1>2 DEF Waiting
  <2>3. CASE c = b
    <3>1. Running(c)' = Running(c) \ {w} /\ w \in Running(c)
      BY <1>1, <1>3, <2>3 DEF Running
    <3>2. Cardinality(Running(c)') = Cardinality(Running(c)) - 1
      BY <2>1, <3>1, FS_RemoveElement
    <3>3. Cardinality(Running(c)) # 0
      BY <2>1, <3>1, FS_EmptySet
    <3> QED
      BY <2>1, <2>2, <2>3, <3>2, <3>3 DEF Outstanding
  <2>4. CASE c # b
    <3>1. Running(c)' = Running(c)
      BY <1>1, <1>3, <2>4 DEF Running
    <3> QED
      BY <2>1, <2>2, <2>4, <3>1 DEF Outstanding
  <2> QED
    BY <2>3, <2>4
<1>5. ASSUME NEW c \in Bots
      PROVE  /\ mem'[c].tracked = mem[c].tracked
             /\ c # b => mem'[c].inFlight = mem[c].inFlight
             /\ ~mem[b].tracked => mem'[c].inFlight = mem[c].inFlight
  <2>1. mem \in [Bots -> Memories]
    BY DEF Inv, TypeOK
  <2> QED
    BY <1>2, <2>1 DEF Memories
<1>6. ASSUME NEW c \in Bots, NEW o \in Objects, Within(c, o) PROVE Within(c, o)'
  <2>1. Outstanding(c) \in Nat /\ Outstanding(c)' \in Nat /\ o.gen \in Nat
        /\ Marked(c) \in 0..1 /\ Marked(c)' \in 0..1
    BY <1>4, PollerAssumption DEF Objects, Marked
  <2>2. Outstanding(c)' <= Outstanding(c) /\ Outstanding(c)' - Marked(c)' <= Outstanding(c) - Marked(c)
    <3>1. CASE c = b
      BY <1>4, <2>1, <3>1
    <3>2. CASE c # b
      <4>1. Marked(c)' = Marked(c)
        BY <1>5, <3>2 DEF Marked
      <4> QED
        BY <1>4, <2>1, <3>2, <4>1
    <3> QED
      BY <3>1, <3>2
  <2>3. CASE Pollable(o)
    <3>1. 2 * Outstanding(c)' <= 2 * Marked(c)' + o.gen
      BY <1>6, <2>1, <2>2, <2>3 DEF Within
    <3> QED
      BY <2>3, <3>1 DEF Within
  <2>4. CASE ~Pollable(o) /\ mem[c].tracked
    <3>1. 2 * Outstanding(c)' + 1 <= 2 * Marked(c)' + o.gen
      BY <1>6, <2>1, <2>2, <2>4 DEF Within
    <3> QED
      BY <1>5, <2>4, <3>1 DEF Within
  <2>5. CASE ~Pollable(o) /\ ~mem[c].tracked
    <3>1. 2 * Outstanding(c)' <= o.gen + 1
      BY <1>6, <2>1, <2>2, <2>5 DEF Within
    <3> QED
      BY <1>5, <2>5, <3>1 DEF Within
  <2> QED
    BY <2>3, <2>4, <2>5
<1>7. ASSUME NEW c \in Bots PROVE Within(c, obj[c])'
  <2>1. PICK o \in Objects : o = obj[c]
    BY DEF Inv, TypeOK
  <2>2. Within(c, o)
    BY <2>1 DEF Counted, PollsWithin
  <2>3. Within(c, o)'
    BY <1>6, <2>2
  <2> QED
    BY <1>2, <2>1, <2>3 DEF Within
<1>8. ASSUME NEW c \in Bots, tick.pc = "schedule" PROVE Within(c, tick.list[c])'
  <2>1. PICK o \in Objects : o = tick.list[c]
    BY <1>8 DEF Inv, TypeOK
  <2>2. Within(c, o)
    BY <1>8, <2>1 DEF Counted, PollsWithin
  <2>3. Within(c, o)'
    BY <1>6, <2>2
  <2> QED
    BY <1>2, <2>1, <2>3 DEF Within
<1>9. ListIsOlder'
  BY <1>2 DEF Counted, ListIsOlder
<1> QED
  BY <1>2, <1>7, <1>8, <1>9 DEF Counted, PollsWithin

\* An edit moves the object's generation past what it said before.
LEMMA EditCounted == ASSUME Inv, Counted, NEW b \in Bots, EditBot(b) PROVE Counted'
<1>1. UNCHANGED <<mem, queue, work, tick>>
  BY DEF EditBot
<1>2. obj \in [Bots -> Objects] /\ obj[b] \in Objects /\ obj[b].gen \in Nat
  BY PollerAssumption DEF Inv, TypeOK, Objects
<1>3. obj'[b].gen = obj[b].gen + 1 /\ \A c \in Bots \ {b} : obj'[c] = obj[c]
  <2>1. CASE obj' = [obj EXCEPT ![b] = [@ EXCEPT !.enabled = ~obj[b].enabled, !.gen = obj[b].gen + 1]]
    <3>1. [obj[b] EXCEPT !.enabled = ~obj[b].enabled, !.gen = obj[b].gen + 1].gen = obj[b].gen + 1
      BY <1>2 DEF Objects
    <3> QED
      BY <1>2, <2>1, <3>1
  <2>2. CASE obj' = [obj EXCEPT ![b] = [@ EXCEPT !.exists = FALSE, !.gen = obj[b].gen + 1]]
    <3>1. [obj[b] EXCEPT !.exists = FALSE, !.gen = obj[b].gen + 1].gen = obj[b].gen + 1
      BY <1>2 DEF Objects
    <3> QED
      BY <1>2, <2>2, <3>1
  <2>3. CASE \E on \in BOOLEAN :
               obj' = [obj EXCEPT ![b] = [exists |-> TRUE, enabled |-> on,
                         gen |-> @.gen + 1, cond |-> "unset", condGen |-> 0]]
    BY <1>2, <2>3
  <2> QED
    BY <2>1, <2>2, <2>3 DEF EditBot
<1>4. \A c \in Bots : Outstanding(c)' = Outstanding(c) /\ Marked(c)' = Marked(c)
  BY <1>1, SameCount DEF Marked
<1>5. ASSUME NEW c \in Bots PROVE Within(c, obj[c])'
  <2>1. Within(c, obj[c])
    BY DEF Counted, PollsWithin
  <2>2. CASE c # b
    <3>1. obj'[c] = obj[c]
      BY <1>3, <2>2
    <3> QED
      BY <1>1, <1>4, <2>1, <3>1 DEF Within
  <2>3. CASE c = b
    <3>1. Outstanding(b) \in Nat /\ Marked(b) \in 0..1
      BY CountType DEF Inv, Marked
    <3>2. 2 * Outstanding(b) + 1 <= 2 * Marked(b) + obj[b].gen + 1
          \/ (~mem[b].tracked /\ Marked(b) = 0 /\ ~Pollable(obj[b])
                /\ 2 * Outstanding(b) <= obj[b].gen + 1)
      <4>1. ~mem[b].tracked => Marked(b) = 0
        BY DEF Inv, InFlightIsTracked, Marked
      <4> QED
        BY <1>2, <2>1, <2>3, <3>1, <4>1 DEF Within
    <3>3. CASE Pollable(obj'[b])
      <4>1. 2 * Outstanding(b) <= 2 * Marked(b) + obj'[b].gen
        BY <1>2, <1>3, <3>1, <3>2
      <4> QED
        BY <1>4, <2>3, <3>3, <4>1 DEF Within
    <3>4. CASE ~Pollable(obj'[b]) /\ mem[b].tracked
      <4>1. 2 * Outstanding(b) + 1 <= 2 * Marked(b) + obj'[b].gen
        BY <1>2, <1>3, <3>1, <3>2, <3>4
      <4> QED
        BY <1>1, <1>4, <2>3, <3>4, <4>1 DEF Within
    <3>5. CASE ~Pollable(obj'[b]) /\ ~mem[b].tracked
      <4>1. Marked(b) = 0
        BY <3>5 DEF Inv, InFlightIsTracked, Marked
      <4>2. 2 * Outstanding(b) <= obj'[b].gen + 1
        BY <1>2, <1>3, <3>1, <3>2, <4>1
      <4> QED
        BY <1>1, <1>4, <2>3, <3>5, <4>2 DEF Within
    <3> QED
      BY <3>3, <3>4, <3>5
  <2> QED
    BY <2>2, <2>3
<1>6. ASSUME NEW c \in Bots, tick.pc = "schedule" PROVE Within(c, tick.list[c])'
  <2>1. Within(c, tick.list[c])
    BY <1>6 DEF Counted, PollsWithin
  <2> QED
    BY <1>1, <1>4, <2>1 DEF Within
<1>7. ASSUME NEW c \in Bots, tick.pc = "schedule"
      PROVE  /\ tick.list[c].gen <= obj'[c].gen
             /\ Pollable(tick.list[c]) # Pollable(obj'[c]) => tick.list[c].gen < obj'[c].gen
  <2>1. tick.list[c].gen \in Nat
    BY <1>7, PollerAssumption DEF Inv, TypeOK, Objects
  <2>2. /\ tick.list[c].gen <= obj[c].gen
        /\ Pollable(tick.list[c]) # Pollable(obj[c]) => tick.list[c].gen < obj[c].gen
    BY <1>7 DEF Counted, ListIsOlder
  <2>3. CASE c = b
    BY <1>2, <1>3, <2>1, <2>2, <2>3
  <2>4. CASE c # b
    <3>1. obj'[c] = obj[c]
      BY <1>3, <2>4
    <3> QED
      BY <2>2, <3>1
  <2> QED
    BY <2>3, <2>4
<1> QED
  BY <1>1, <1>5, <1>6, <1>7 DEF Counted, PollsWithin, ListIsOlder

\* A restart forgets every poll.
LEMMA RestartCounted == ASSUME Inv, Restart PROVE Counted'
<1>1. tick'.pc = "idle" /\ obj' = obj
  BY DEF Restart, IdleTick
<1>2. ASSUME NEW b \in Bots PROVE Within(b, obj[b])'
  <2>1. Waiting(b)' = {} /\ Running(b)' = {}
    BY PollerAssumption DEF Restart, Waiting, Running, IdleWork
  <2>2. Outstanding(b)' = 0
    BY <2>1, FS_EmptySet DEF Outstanding
  <2>3. mem'[b].tracked = FALSE /\ mem'[b].inFlight = FALSE
    BY DEF Restart, Untracked
  <2>4. Marked(b)' = 0
    BY <2>3 DEF Marked
  <2>5. PICK g \in Nat : g = obj'[b].gen
    BY <1>1, PollerAssumption DEF Inv, TypeOK, Objects
  <2>6. 2 * 0 <= 2 * 0 + g /\ 2 * 0 <= g + 1
    BY <2>5
  <2> QED
    BY <2>2, <2>3, <2>4, <2>5, <2>6 DEF Within
<1> QED
  BY <1>1, <1>2 DEF Counted, PollsWithin, ListIsOlder

\* The steps of a worker between taking a poll and ending it move no poll, set no
\* flag and write no spec.
LEMMA QuietWorker ==
  ASSUME Inv, NEW w \in Workers,
         \/ Get(w) \/ Poll(w) \/ RecordLabels(w) \/ SetGauges(w) \/ UpdateBackoff(w) \/ Patch(w)
  PROVE  /\ queue' = queue /\ tick' = tick
         /\ \A v \in Workers : work'[v].bot = work[v].bot
         /\ \A b \in Bots : mem'[b].inFlight = mem[b].inFlight /\ mem'[b].tracked = mem[b].tracked
         /\ \A b \in Bots : /\ obj'[b].gen = obj[b].gen /\ obj'[b].exists = obj[b].exists
                            /\ obj'[b].enabled = obj[b].enabled
<1>0. mem \in [Bots -> Memories] /\ work \in [Workers -> Attempts] /\ obj \in [Bots -> Objects]
  BY DEF Inv, TypeOK
<1>1. queue' = queue /\ tick' = tick
  BY DEF Get, Poll, RecordLabels, SetGauges, UpdateBackoff, Patch
<1>2. \A v \in Workers : work'[v].bot = work[v].bot
  <2>1. ASSUME NEW a, a.bot = work[w].bot, work' = [work EXCEPT ![w] = a]
        PROVE  \A v \in Workers : work'[v].bot = work[v].bot
    BY <1>0, <2>1
  <2>2. ASSUME NEW p, Step(w, p) PROVE \A v \in Workers : work'[v].bot = work[v].bot
    <3> DEFINE a == [work[w] EXCEPT !.pc = p]
    <3>1. a.bot = work[w].bot /\ work' = [work EXCEPT ![w] = a]
      BY <1>0, <2>2 DEF Step, Attempts
    <3> QED
      BY <2>1, <3>1
  <2>3. ASSUME NEW p, NEW g, work' = [work EXCEPT ![w] = [@ EXCEPT !.pc = p, !.gen = g]]
        PROVE  \A v \in Workers : work'[v].bot = work[v].bot
    <3> DEFINE a == [work[w] EXCEPT !.pc = p, !.gen = g]
    <3>1. a.bot = work[w].bot /\ work' = [work EXCEPT ![w] = a]
      BY <1>0, <2>3 DEF Attempts
    <3> QED
      BY <2>1, <3>1
  <2>4. ASSUME NEW p, NEW ok, work' = [work EXCEPT ![w] = [@ EXCEPT !.pc = p, !.ok = ok]]
        PROVE  \A v \in Workers : work'[v].bot = work[v].bot
    <3> DEFINE a == [work[w] EXCEPT !.pc = p, !.ok = ok]
    <3>1. a.bot = work[w].bot /\ work' = [work EXCEPT ![w] = a]
      BY <1>0, <2>4 DEF Attempts
    <3> QED
      BY <2>1, <3>1
  <2>5. CASE Get(w)
    BY <2>2, <2>3, <2>5 DEF Get
  <2>6. CASE Poll(w)
    BY <2>2, <2>4, <2>6 DEF Poll
  <2>7. CASE RecordLabels(w) \/ SetGauges(w) \/ UpdateBackoff(w) \/ Patch(w)
    BY <2>2, <2>7 DEF RecordLabels, SetGauges, UpdateBackoff, Patch
  <2> QED
    BY <2>5, <2>6, <2>7
<1>3. \A b \in Bots : mem'[b].inFlight = mem[b].inFlight /\ mem'[b].tracked = mem[b].tracked
  <2>1. CASE Get(w) \/ Poll(w) \/ SetGauges(w) \/ Patch(w)
    BY <2>1 DEF Get, Poll, SetGauges, Patch
  <2>2. CASE RecordLabels(w)
    BY <1>0, <2>2 DEF RecordLabels, Memories
  <2>3. CASE UpdateBackoff(w)
    <3>1. PICK f, k : mem' = mem
            \/ mem' = [mem EXCEPT ![work[w].bot] = [@ EXCEPT !.fails = f, !.wait = k]]
      BY <2>3 DEF UpdateBackoff
    <3>2. ASSUME NEW b \in Bots
          PROVE  LET m == [mem[b] EXCEPT !.fails = f, !.wait = k]
                 IN m.inFlight = mem[b].inFlight /\ m.tracked = mem[b].tracked
      BY <1>0 DEF Memories
    <3> QED
      BY <1>0, <3>1, <3>2
  <2> QED
    BY <2>1, <2>2, <2>3
<1>4. \A b \in Bots : /\ obj'[b].gen = obj[b].gen /\ obj'[b].exists = obj[b].exists
                      /\ obj'[b].enabled = obj[b].enabled
  <2>1. CASE obj' = obj
    BY <2>1
  <2>2. CASE Patch(w)
    <3>1. PICK c, g : obj' = obj
            \/ obj' = [obj EXCEPT ![work[w].bot] = [@ EXCEPT !.cond = c, !.condGen = g]]
      BY <2>2 DEF Patch
    <3>2. ASSUME NEW b \in Bots
          PROVE  LET o == [obj[b] EXCEPT !.cond = c, !.condGen = g]
                 IN o.gen = obj[b].gen /\ o.exists = obj[b].exists /\ o.enabled = obj[b].enabled
      BY <1>0 DEF Objects
    <3> QED
      BY <1>0, <3>1, <3>2
  <2> QED
    BY <2>1, <2>2 DEF Get, Poll, RecordLabels, SetGauges, UpdateBackoff
<1> QED
  BY <1>1, <1>2, <1>3, <1>4

\* The counting invariant is preserved by every step.
LEMMA NextCounted == ASSUME Inv, Counted, [Next]_vars PROVE Counted'
<1>0. mem \in [Bots -> Memories] /\ obj \in [Bots -> Objects] /\ tick \in Ticks
  BY DEF Inv, TypeOK
<1>1. CASE UNCHANGED vars
  <2>1. queue' = queue /\ work' = work /\ mem' = mem /\ obj' = obj /\ tick' = tick
    BY <1>1 DEF vars
  <2> QED
    BY <2>1, SameCount, SameCounted
<1>2. CASE ScheduleList
  <2>1. queue' = queue /\ work' = work /\ mem' = mem /\ obj' = obj
    BY <1>2 DEF ScheduleList
  <2>2. CASE tick' = tick
    BY <2>1, <2>2, SameCount, SameCounted
  <2>3. CASE tick' = [pc |-> "schedule", list |-> obj, disable |-> {}]
    <3>1. \A b \in Bots : Outstanding(b)' = Outstanding(b)
      BY <2>1, SameCount
    <3>2. tick'.list = obj
      BY <2>3
    <3>3. \A b \in Bots : Within(b, obj[b])
      BY DEF Counted, PollsWithin
    <3>4. \A b \in Bots : Within(b, obj[b])' /\ Within(b, tick.list[b])'
      BY <2>1, <3>1, <3>2, <3>3 DEF Within, Marked
    <3>5. ListIsOlder'
      <4>1. ASSUME NEW b \in Bots PROVE obj[b].gen \in Nat
        BY <1>0, PollerAssumption DEF Objects
      <4> QED
        BY <2>1, <3>2, <4>1 DEF ListIsOlder
    <3> QED
      BY <3>4, <3>5 DEF Counted, PollsWithin
  <2> QED
    BY <1>2, <2>2, <2>3 DEF ScheduleList
<1>3. CASE ScheduleDue
  BY <1>3, ScheduleDueCounted
<1>4. CASE ScheduleDone
  <2>1. queue' = queue /\ work' = work /\ mem' = mem /\ obj' = obj /\ tick'.pc = "idle"
    BY <1>4 DEF ScheduleDone, IdleTick
  <2> QED
    BY <2>1, SameCount, SameCounted
<1>5. ASSUME NEW b \in Bots, SetDisabled(b) PROVE Counted'
  <2>1. queue' = queue /\ work' = work /\ mem' = mem /\ tick'.pc = "disable"
    BY <1>0, <1>5 DEF SetDisabled, Ticks
  <2>2. PICK g : obj' = obj
          \/ obj' = [obj EXCEPT ![b] = [@ EXCEPT !.cond = "disabled", !.condGen = g]]
    BY <1>5 DEF SetDisabled
  <2>3. LET o == [obj[b] EXCEPT !.cond = "disabled", !.condGen = g]
        IN o.gen = obj[b].gen /\ o.exists = obj[b].exists /\ o.enabled = obj[b].enabled
    BY <1>0 DEF Objects
  <2>4. \A c \in Bots : /\ obj'[c].gen = obj[c].gen /\ obj'[c].exists = obj[c].exists
                        /\ obj'[c].enabled = obj[c].enabled
    BY <1>0, <2>2, <2>3
  <2> QED
    BY <2>1, <2>4, SameCount, SameCounted
<1>6. ASSUME NEW w \in Workers, PollOne(w) PROVE Counted'
  <2>1. CASE Take(w)
    <3>1. UNCHANGED <<obj, mem, tick>>
      BY <2>1 DEF Take
    <3> QED
      BY <2>1, <3>1, TakeCount, SameCounted
  <2>2. CASE Finish(w)
    BY <2>2, FinishCounted
  <2>3. CASE \/ Get(w) \/ Poll(w) \/ RecordLabels(w) \/ SetGauges(w) \/ UpdateBackoff(w)
             \/ Patch(w)
    <3>1. /\ queue' = queue /\ tick' = tick
          /\ \A v \in Workers : work'[v].bot = work[v].bot
          /\ \A b \in Bots : mem'[b].inFlight = mem[b].inFlight /\ mem'[b].tracked = mem[b].tracked
          /\ \A b \in Bots : /\ obj'[b].gen = obj[b].gen /\ obj'[b].exists = obj[b].exists
                             /\ obj'[b].enabled = obj[b].enabled
      BY <2>3, QuietWorker
    <3> QED
      BY <3>1, SameCount, SameCounted
  <2> QED
    BY <1>6, <2>1, <2>2, <2>3 DEF PollOne
<1>7. CASE Restart
  BY <1>7, RestartCounted
<1>8. ASSUME NEW b \in Bots, Elapse(b) PROVE Counted'
  <2>1. queue' = queue /\ work' = work /\ tick' = tick /\ obj' = obj
    BY <1>8 DEF Elapse
  <2>2. \A c \in Bots : mem'[c].inFlight = mem[c].inFlight /\ mem'[c].tracked = mem[c].tracked
    BY <1>0, <1>8 DEF Elapse, Memories
  <2> QED
    BY <2>1, <2>2, SameCount, SameCounted
<1>9. ASSUME NEW b \in Bots, EditBot(b) PROVE Counted'
  BY <1>9, EditCounted
<1> QED
  BY <1>1, <1>2, <1>3, <1>4, <1>5, <1>6, <1>7, <1>8, <1>9 DEF Next, Scheduler

\* The bound of OnePollPerBot follows from the counting invariant.
LEMMA CountedBound == ASSUME Inv, Counted PROVE OnePollPerBot
<1> SUFFICES ASSUME NEW b \in Bots
             PROVE  Cardinality(Waiting(b)) + Cardinality(Running(b)) <= 1 + (obj[b].gen \div 2)
  BY DEF OnePollPerBot
<1>1. Outstanding(b) \in Nat /\ obj[b].gen \in Nat /\ Marked(b) \in 0..1
  BY CountType, PollerAssumption DEF Inv, TypeOK, Objects, Marked
<1>2. 2 * Outstanding(b) <= 2 + obj[b].gen
  BY <1>1 DEF Counted, PollsWithin, Within
<1>3. Outstanding(b) <= 1 + (obj[b].gen \div 2)
  BY <1>1, <1>2
<1> QED
  BY <1>3 DEF Outstanding

\* A bot is polled once at a time, and at most once more for every two edits of its
\* TradeBot: the mark under the mutex is enough although Finish may reset a mark that a
\* later poll has set.
THEOREM OnePollCorrect == Spec => []OnePollPerBot
<1>1. Init => Inv /\ Counted
  BY InitInv, InitCounted
<1>2. Inv /\ Counted /\ [Next]_vars => Counted'
  BY NextCounted
<1>3. Inv /\ Counted => OnePollPerBot
  BY CountedBound
<1> QED
  BY <1>1, <1>2, <1>3, Invariance, PTL DEF Spec
=============================================================================
