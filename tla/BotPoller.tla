------------------------------ MODULE BotPoller ------------------------------
(***************************************************************************)
(* The BotPoller (controllers/tradebot/poller.go): a scheduler goroutine    *)
(* and a pool of workers share a map of per-bot memory under one mutex and  *)
(* a bounded channel.  A step is a stretch of code between two points where *)
(* another goroutine can run: one critical section, one API call, one poll, *)
(* one push of gauges.                                                      *)
(*                                                                          *)
(* Definitions marked as mutants are used by no action: each is a plausible *)
(* bug in the definition after it, for which a property must fail.          *)
(***************************************************************************)
EXTENDS Naturals, Sequences, FiniteSets

CONSTANTS
    Bots,       \* names of TradeBots
    Workers,    \* the worker goroutines
    Idle,       \* "no bot": what an idle worker holds
    MaxEdits,   \* bound on a bot's spec edits, deletions and re-creations
    MaxFaults   \* bound on failed API calls, panics and operator restarts

ASSUME PollerAssumption ==
    /\ Workers # {} /\ IsFiniteSet(Workers) /\ IsFiniteSet(Bots)
    /\ Idle \notin Bots
    /\ MaxEdits \in Nat /\ MaxFaults \in Nat

VARIABLES
    obj,        \* the TradeBot objects, as the API server has them
    mem,        \* BotPoller.state: what the poller remembers of each bot
    queue,      \* the channel between the scheduler and the workers
    work,       \* per worker: where pollOne is, and its locals
    tick,       \* the scheduleDue call in progress: its List and its to-do set
    up,         \* the freqtrade_bot_up gauge: series -> value
    faults

vars == <<obj, mem, queue, work, tick, up, faults>>

\* The dry_run label of a series: known only from an answer of the bot.
Labels == {"unknown", "known"}

\* Status of the BotReachable condition, by what last wrote it.
Conditions == {"unset", "reachable", "unreachable", "disabled"}

\* consecutiveFailures past 4 changes nothing more: shift is capped there.
maxShift == 4

\* time.Duration(1 << shift) intervals, capped at maxBackoffMultiple.
maxBackoffMultiple == 10

Backoff(fails) ==
    LET shift == IF fails > 4 THEN 4 ELSE fails
        multiple == CASE shift = 0 -> 1 [] shift = 1 -> 2 [] shift = 2 -> 4
                      [] shift = 3 -> 8 [] OTHER -> 16
    IN IF multiple > maxBackoffMultiple THEN maxBackoffMultiple ELSE multiple

\* A bot the poller does not track; wait is the time to nextPollAt, in the
\* bot's own poll intervals.
Untracked == [tracked |-> FALSE, wait |-> 0, fails |-> 0, inFlight |-> FALSE,
              label |-> "unknown"]

IdleWork == [pc |-> "idle", bot |-> Idle, gen |-> 0, ok |-> FALSE]
IdleTick == [pc |-> "idle", list |-> <<>>, disable |-> {}]

queueCap == 2 * Cardinality(Workers)

\* The sequences that list each element of S once.
Orders(S) ==
    {f \in [1..Cardinality(S) -> S] : \A x \in S : \E i \in DOMAIN f : f[i] = x}

Objects == [exists: BOOLEAN, enabled: BOOLEAN, gen: 0..MaxEdits,
            cond: Conditions, condGen: 0..MaxEdits]

Memories == [tracked: BOOLEAN, wait: {0, 1, 2, 4, 8, 10},
             fails: 0..(maxShift + 1), inFlight: BOOLEAN, label: Labels]
Attempts == [pc: {"idle", "get", "poll", "label", "gauge", "backoff", "patch", "finish"},
             bot: Bots \cup {Idle}, gen: 0..MaxEdits, ok: BOOLEAN]

Ticks == [pc: {"idle", "schedule", "disable"}, list: [Bots -> Objects] \cup {<<>>},
          disable: SUBSET Bots]
Gauges == [Bots \X Labels -> {"absent", "0", "1"}]

TypeOK ==
    /\ obj \in [Bots -> Objects]
    /\ mem \in [Bots -> Memories]
    /\ queue \in Seq(Bots) /\ Len(queue) <= queueCap
    /\ work \in [Workers -> Attempts]
    /\ tick \in Ticks
    /\ tick.pc # "idle" => tick.list \in [Bots -> Objects]
    /\ up \in Gauges
    /\ faults \in 0..MaxFaults

Init ==
    /\ \E on \in [Bots -> BOOLEAN] :
         obj = [b \in Bots |-> [exists |-> TRUE, enabled |-> on[b], gen |-> 0,
                                cond |-> "unset", condGen |-> 0]]
    /\ mem = [b \in Bots |-> Untracked]
    /\ queue = <<>>
    /\ work = [w \in Workers |-> IdleWork]
    /\ tick = IdleTick
    /\ up = [s \in Bots \X Labels |-> "absent"]
    /\ faults = 0

Fault ==
    /\ faults < MaxFaults
    /\ faults' = faults + 1

-----------------------------------------------------------------------------
(* scheduleDue.                                                            *)

\* introspectionEnabled and hasIntrospectionDisabledCondition, on the snapshot.
Pollable(o) == o.exists /\ o.enabled
\* Mutant: the generation the condition was written for is not compared.
NeedsDisabledOnce(o) == o.exists /\ ~o.enabled /\ o.cond # "disabled"

NeedsDisabled(o) ==
    /\ o.exists /\ ~o.enabled
    /\ ~(o.cond = "disabled" /\ o.condGen = o.gen)

\* Client.List, on the ticker; a failed List skips the tick.
ScheduleList ==
    /\ tick.pc = "idle"
    /\ \/ tick' = [pc |-> "schedule", list |-> obj, disable |-> {}] /\ UNCHANGED faults
       \/ Fault /\ UNCHANGED tick
    /\ UNCHANGED <<obj, mem, queue, work, up>>

\* Mutant: a bot being polled is due again.
DueAgain(b) == mem[b].wait = 0

\* Not already being polled, and nextPollAt has come.
Due(b) == ~mem[b].inFlight /\ mem[b].wait = 0

\* Mutant: one more.
RoomOffByOne == queueCap + 1 - Len(queue)

\* Free places in the channel: a send into a full one is dropped.
Room == queueCap - Len(queue)

\* Mutant: the flag is set before the send is tried.
FlaggedEarly(b, sent) == mem[b].inFlight \/ b \in sent \/ Due(b)

\* inFlight is set by the send, so a bot whose send was dropped does not have it.
Flagged(b, sent) == mem[b].inFlight \/ b \in sent

\* The critical section: track newly seen bots, queue those that are due while
\* there is room (the List's order is arbitrary), forget the others together
\* with the one series their remembered labels name.
ScheduleDue ==
    /\ tick.pc = "schedule"
    /\ LET seen == {b \in Bots : Pollable(tick.list[b])}
           due  == {b \in seen : Due(b)}
           gone == {b \in Bots \ seen : mem[b].tracked}
       IN \E sent \in SUBSET due :
            /\ Cardinality(sent) = IF Cardinality(due) < Room
                                   THEN Cardinality(due) ELSE Room
            /\ \E order \in Orders(sent) : queue' = queue \o order
            /\ mem' = [b \in Bots |->
                 IF b \in seen
                 THEN [mem[b] EXCEPT !.tracked = TRUE, !.inFlight = Flagged(b, sent)]
                 ELSE Untracked]
            /\ up' = [s \in DOMAIN up |->
                 IF s[1] \in gone /\ s[2] = mem[s[1]].label THEN "absent" ELSE up[s]]
    /\ tick' = [tick EXCEPT !.pc = "disable",
                            !.disable = {b \in Bots : NeedsDisabled(tick.list[b])}]
    /\ UNCHANGED <<obj, work, faults>>

\* setIntrospectionDisabledCondition for one bot, outside the lock: the patch
\* re-reads the status but stamps the snapshot's generation.
SetDisabled(b) ==
    /\ tick.pc = "disable" /\ b \in tick.disable
    /\ tick' = [tick EXCEPT !.disable = @ \ {b}]
    /\ \/ /\ obj' = IF obj[b].exists
                    THEN [obj EXCEPT ![b] = [@ EXCEPT
                           !.cond = "disabled", !.condGen = tick.list[b].gen]]
                    ELSE obj
          /\ UNCHANGED faults
       \/ Fault /\ UNCHANGED obj
    /\ UNCHANGED <<mem, queue, work, up>>

ScheduleDone ==
    /\ tick.pc = "disable" /\ tick.disable = {}
    /\ tick' = IdleTick
    /\ UNCHANGED <<obj, mem, queue, work, up, faults>>

-----------------------------------------------------------------------------
(* The workers: pollOneSafely and pollOne.                                 *)

Step(w, pc) == work' = [work EXCEPT ![w].pc = pc]

Take(w) ==
    /\ work[w].pc = "idle" /\ queue # <<>>
    /\ work' = [work EXCEPT ![w] = [IdleWork EXCEPT !.pc = "get", !.bot = Head(queue)]]
    /\ queue' = Tail(queue)
    /\ UNCHANGED <<obj, mem, tick, up, faults>>

\* Client.Get: on any error the attempt ends with the deferred reset only.
Get(w) ==
    /\ work[w].pc = "get"
    /\ LET b == work[w].bot IN
       \/ /\ obj[b].exists
          /\ work' = [work EXCEPT ![w] = [@ EXCEPT !.pc = "poll", !.gen = obj[b].gen]]
          /\ UNCHANGED faults
       \/ ~obj[b].exists /\ Step(w, "finish") /\ UNCHANGED faults
       \/ Fault /\ Step(w, "finish")
    /\ UNCHANGED <<obj, mem, queue, tick, up>>

\* poll: the bot answers or it does not; a panic is recovered by
\* pollOneSafely once the deferred reset has run.
Poll(w) ==
    /\ work[w].pc = "poll"
    /\ \/ \E ok \in BOOLEAN :
            work' = [work EXCEPT ![w] = [@ EXCEPT !.pc = "label", !.ok = ok]] /\ UNCHANGED faults
       \/ Fault /\ Step(w, "finish")
    /\ UNCHANGED <<obj, mem, queue, tick, up>>

label(w) == IF work[w].ok THEN "known" ELSE "unknown"

\* recordMetrics, under the lock: remember the labels, if still tracked.
RecordLabels(w) ==
    /\ work[w].pc = "label"
    /\ LET b == work[w].bot IN
       mem' = IF mem[b].tracked THEN [mem EXCEPT ![b].label = label(w)] ELSE mem
    /\ Step(w, "gauge")
    /\ UNCHANGED <<obj, queue, tick, up, faults>>

\* recordMetrics, after the unlock: push the gauges, tracked or not.
SetGauges(w) ==
    /\ work[w].pc = "gauge"
    /\ up' = [up EXCEPT ![<<work[w].bot, label(w)>>] = IF work[w].ok THEN "1" ELSE "0"]
    /\ Step(w, "backoff")
    /\ UNCHANGED <<obj, mem, queue, tick, faults>>

\* updateBackoff.
UpdateBackoff(w) ==
    /\ work[w].pc = "backoff"
    /\ LET b == work[w].bot
           fails == IF work[w].ok THEN 0
                    ELSE IF mem[b].fails > maxShift THEN mem[b].fails
                    ELSE mem[b].fails + 1
       IN mem' = IF mem[b].tracked
                 THEN [mem EXCEPT ![b] = [@ EXCEPT !.fails = fails, !.wait = Backoff(fails)]]
                 ELSE mem
    /\ Step(w, "patch")
    /\ UNCHANGED <<obj, queue, tick, up, faults>>

\* patchTradeBotStatus with the poll's outcome, stamped with the generation read
\* before the poll; a failure is only logged.
Patch(w) ==
    /\ work[w].pc = "patch"
    /\ LET b == work[w].bot IN
       \/ /\ obj' = IF obj[b].exists
                    THEN [obj EXCEPT ![b] = [@ EXCEPT
                           !.cond = IF work[w].ok THEN "reachable" ELSE "unreachable",
                           !.condGen = work[w].gen]]
                    ELSE obj
          /\ UNCHANGED faults
       \/ Fault /\ UNCHANGED obj
    /\ Step(w, "finish")
    /\ UNCHANGED <<mem, queue, tick, up>>

\* Mutant: the reset is forgotten.
FinishKeepsFlag(w) ==
    /\ work[w].pc = "finish"
    /\ work' = [work EXCEPT ![w] = IdleWork]
    /\ UNCHANGED <<obj, mem, queue, tick, up, faults>>

\* The deferred reset of inFlight.
Finish(w) ==
    /\ work[w].pc = "finish"
    /\ LET b == work[w].bot IN
       mem' = IF mem[b].tracked THEN [mem EXCEPT ![b].inFlight = FALSE] ELSE mem
    /\ work' = [work EXCEPT ![w] = IdleWork]
    /\ UNCHANGED <<obj, queue, tick, up, faults>>

-----------------------------------------------------------------------------
(* The poller's environment.                                               *)

\* Bot b's nextPollAt comes; the moments before it are all alike.
Elapse(b) ==
    /\ mem[b].wait > 0
    /\ mem' = [mem EXCEPT ![b].wait = 0]
    /\ UNCHANGED <<obj, queue, work, tick, up, faults>>

\* A user toggles spec.introspection.enabled, deletes or re-creates a TradeBot.
EditBot(b) ==
    /\ obj[b].gen < MaxEdits
    /\ \/ /\ obj[b].exists
          /\ obj' = [obj EXCEPT ![b] = [@ EXCEPT !.enabled = ~obj[b].enabled, !.gen = obj[b].gen + 1]]
       \/ /\ obj[b].exists
          /\ obj' = [obj EXCEPT ![b] = [@ EXCEPT !.exists = FALSE, !.gen = obj[b].gen + 1]]
       \/ /\ ~obj[b].exists
          /\ \E on \in BOOLEAN :
               obj' = [obj EXCEPT ![b] = [exists |-> TRUE, enabled |-> on,
                         gen |-> @.gen + 1, cond |-> "unset", condGen |-> 0]]
    /\ UNCHANGED <<mem, queue, work, tick, up, faults>>

\* The process restarts, or another replica becomes the leader: Start makes a
\* new map and channel, and the metrics registry is a new process's.
Restart ==
    /\ Fault
    /\ mem' = [b \in Bots |-> Untracked]
    /\ queue' = <<>>
    /\ work' = [w \in Workers |-> IdleWork]
    /\ tick' = IdleTick
    /\ up' = [s \in Bots \X Labels |-> "absent"]
    /\ UNCHANGED obj

PollOne(w) ==
    \/ Take(w) \/ Get(w) \/ Poll(w) \/ RecordLabels(w) \/ SetGauges(w)
    \/ UpdateBackoff(w) \/ Patch(w) \/ Finish(w)

Scheduler ==
    ScheduleList \/ ScheduleDue \/ ScheduleDone \/ \E b \in Bots : SetDisabled(b)

Next ==
    \/ Scheduler \/ Restart
    \/ \E w \in Workers : PollOne(w)
    \/ \E b \in Bots : Elapse(b) \/ EditBot(b)

Spec == Init /\ [][Next]_vars

\* The ticker and the goroutines run, and time passes.
FairSpec ==
    /\ Spec
    /\ WF_vars(Scheduler)
    /\ \A w \in Workers : WF_vars(PollOne(w))
    /\ \A b \in Bots : WF_vars(Elapse(b))

-----------------------------------------------------------------------------
(* Safety.                                                                 *)

\* Polls of b that have been queued and have not finished.
Waiting(b) == {i \in 1..Len(queue) : queue[i] = b}
Running(b) == {w \in Workers : work[w].bot = b}

\* A bot whose memory says inFlight has a poll queued or running, so it is
\* always scheduled again: a full queue, a failed read, a panic, being forgotten
\* and tracked anew in mid-poll never leave the flag set with nobody to clear it.
InFlightIsReal ==
    \A b \in Bots : mem[b].inFlight => Waiting(b) # {} \/ Running(b) # {}

\* A bot is never polled twice at once, unless it stopped being pollable and was
\* forgotten while a poll of it was outstanding: that takes two edits each time.
OnePollPerBot ==
    \A b \in Bots :
        Cardinality(Waiting(b)) + Cardinality(Running(b)) <= 1 + (obj[b].gen \div 2)

-----------------------------------------------------------------------------
(* Liveness.                                                               *)

\* A bot that stays pollable is polled again and again, whatever happened to its
\* earlier polls.
PolledForever ==
    \A b \in Bots :
        <>[]Pollable(obj[b])
            => []<>(\E w \in Workers : work[w].bot = b /\ work[w].pc = "gauge")

\* Once introspection stays disabled, BotReachable comes to say so and stays:
\* a poll still in flight may overwrite it, and a later tick puts it back.
DisabledSettles ==
    \A b \in Bots :
        <>[](obj[b].exists /\ ~obj[b].enabled)
            => <>[](obj[b].cond = "disabled" /\ obj[b].condGen = obj[b].gen)
=============================================================================
