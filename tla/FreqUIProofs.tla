----------------------------- MODULE FreqUIProofs -----------------------------
(***************************************************************************)
(* Proofs about FreqUI, for any bots, any number of FreqUIs of the name and *)
(* any number of upsets: what a pass deletes, and what it leaves at rest.   *)
(* pruneHTTPRoutes and deleteOwnedIngress go by the informer's copy of an   *)
(* object. The argument: uids only grow and one pass runs at a time, so no  *)
(* object has a newer owner than the pass in progress (Bounded); an object  *)
(* that the informer shows with an owner of this name has since then been   *)
(* deleted, replaced by others, or given an owner at least as new           *)
(* (Follows); both together leave the pass's own uid, or an object that     *)
(* others put in place. At rest: what a pass has done stands unless the key *)
(* is queued, and what happened behind it is in an event still to come      *)
(* (Noted, Settled).                                                        *)
(***************************************************************************)
EXTENDS FreqUI, TLAPS

Recs == [pc: Pcs, spec: Specs, todo: SUBSET Objects, want: SUBSET Objects,
         unresolved: BOOLEAN, skipped: BOOLEAN, exposure: Reasons]
Kept == [owner: Owners, health: Healths]

\* A FreqUI that exists is the last one created; a pass is for one that was.
Uids ==
    /\ uids >= 1 /\ spec.uid \in {0, uids}
    /\ rec.pc # "idle" => rec.spec.uid \in 1..uids

\* No object, nor an informer's copy of one, has an owner newer than n.
Bounded(n) ==
    \A o \in Objects :
        /\ Mine(store[o]) => store[o].owner <= n
        /\ Mine(seen[o]) => seen[o].owner <= n
Newest == IF rec.pc = "idle" THEN uids ELSE rec.spec.uid

\* An informer without an event to deliver shows the object as it is.
InSync == \A o \in Objects \ news : seen[o] = store[o]

\* What became of an object that the informer shows as this FreqUI's: deleted, or
\* another one put in place, or it is this FreqUI's still.
Taken(o) == store[o].owner = 0 \/ o \in replaced
Follows ==
    \A o \in Objects :
        Mine(seen[o]) => \/ Taken(o)
                         \/ Mine(store[o]) /\ store[o].owner >= seen[o].owner

\* The routes a pass is about to delete.
Doomed ==
    rec.pc = "prune" =>
        \A o \in rec.todo : o \in Routes /\ (Taken(o) \/ store[o].owner = rec.spec.uid)

Inv == TypeOK /\ Uids /\ Bounded(Newest) /\ InSync /\ Follows /\ Doomed

-------------------------------------------------------------------------------
LEMMA Names ==
    /\ "deployment" \in Objects /\ "service" \in Objects /\ "ingress" \in Objects
    /\ "main" \in Objects /\ "main" \in Routes /\ Routes \subseteq Objects
    /\ Exposure \subseteq Objects /\ Bots \ LongNames \subseteq Routes
    /\ \A o \in Routes : o # "service" /\ o # "deployment" /\ o # "ingress"
    /\ LongNames \subseteq Bots
BY FreqUIAssumption DEF Objects, Exposure, Routes

LEMMA OwnersTyped ==
    /\ MaxUids \in Nat /\ 1..MaxUids \subseteq Owners /\ 0 \in Owners
    /\ User \in Owners /\ Rival \in Owners /\ Other \in Owners
    /\ ~(Rival \in 1..MaxUids) /\ ~(0 \in 1..MaxUids) /\ Rival # 0
    /\ ~(User \in 1..MaxUids) /\ ~(Other \in 1..MaxUids)
BY FreqUIAssumption DEF Owners, User, Rival, Other

LEMMA NothingTyped == Nothing \in Kept /\ Nothing.owner = 0
BY OwnersTyped DEF Nothing, Kept, Healths

LEMMA IdleTyped == Idle \in Recs /\ Idle.pc = "idle"
BY FreqUIAssumption DEF Idle, Recs, Pcs, Specs, Modes, Reasons

LEMMA FreshTyped == Fresh \in Statuses
BY DEF Fresh, Statuses, Reasons

\* An object changes to one with the same owner, none, one that others put in place or
\* one at least as new as any: the copies the informer holds keep their meaning.
LEMMA ChangeKeeps ==
    ASSUME TypeOK, InSync, Follows, NEW n \in 1..MaxUids, Bounded(n),
           NEW o \in Objects, NEW new \in Kept, replaced \subseteq replaced',
           new.owner \in {0, store[o].owner, n} \/ (o \in replaced' /\ ~Mine(new)),
           Change(o, new)
    PROVE  /\ store' = [store EXCEPT ![o] = new]
           /\ store' \in [Objects -> Kept] /\ seen' \in [Objects -> Kept]
           /\ news' \subseteq Objects \ {"service"} /\ queued' \in BOOLEAN
           /\ Bounded(n)' /\ InSync' /\ Follows'
<1>1. /\ store \in [Objects -> Kept] /\ seen \in [Objects -> Kept]
      /\ news \subseteq Objects \ {"service"} /\ queued \in BOOLEAN
    BY DEF TypeOK, Kept
<1>2. store' = [store EXCEPT ![o] = new]
    BY DEF Change
<1>3. news' \in {news, news \cup {o}} /\ (news' # news => o # "service")
    BY DEF Change
<1>4. \/ seen' = seen /\ o \in news'
      \/ seen' = [seen EXCEPT ![o] = IF o \in news THEN seen[o] ELSE new]
    BY DEF Change
<1>5. queued' \in BOOLEAN
    BY <1>1 DEF Change
<1>6. seen' \in [Objects -> Kept]
      /\ seen'[o] \in {seen[o], new} /\ \A x \in Objects \ {o} : seen'[x] = seen[x]
    BY <1>1, <1>4
<1>7. store' \in [Objects -> Kept]
      /\ store'[o] = new /\ \A x \in Objects \ {o} : store'[x] = store[x]
    BY <1>1, <1>2
<1>8. n \in Nat /\ Mine(new) => new.owner <= n
    <2>1. CASE new.owner = store[o].owner
        BY <2>1 DEF Bounded, Mine
    <2>2. CASE new.owner \in {0, n}
        BY <2>2, OwnersTyped DEF Mine
    <2> QED BY <2>1, <2>2
<1>9. Bounded(n)'
    <2> SUFFICES ASSUME NEW x \in Objects
                 PROVE  /\ Mine(store'[x]) => store'[x].owner <= n
                        /\ Mine(seen'[x]) => seen'[x].owner <= n
        BY DEF Bounded, Mine
    <2>1. CASE x = o
        BY <1>6, <1>7, <1>8, <2>1 DEF Bounded
    <2>2. CASE x # o
        BY <1>6, <1>7, <2>2 DEF Bounded
    <2> QED BY <2>1, <2>2
<1>10. Follows'
    <2> SUFFICES ASSUME NEW x \in Objects, Mine(seen'[x])
                 PROVE  \/ Taken(x)'
                        \/ Mine(store'[x]) /\ store'[x].owner >= seen'[x].owner
        BY DEF Follows, Mine
    <2>1. CASE x # o
        BY <1>6, <1>7, <2>1 DEF Follows, Taken
    <2>2. CASE x = o /\ seen'[o] = new
        BY <1>7, <2>2, OwnersTyped DEF Mine
    <2>3. CASE x = o /\ seen'[o] = seen[o]
        <3>1. seen[o].owner <= n /\ n \in 1..MaxUids /\ Mine(seen[o])
            BY <2>3 DEF Bounded
        <3>2. CASE new.owner = 0 \/ o \in replaced'
            BY <1>7, <2>3, <3>2 DEF Taken
        <3>3. CASE new.owner = store[o].owner
            BY <1>7, <2>3, <3>1, <3>3 DEF Follows, Mine, Taken
        <3>4. CASE new.owner = n
            BY <1>7, <2>3, <3>1, <3>4, OwnersTyped DEF Mine
        <3> QED BY <3>2, <3>3, <3>4
    <2> QED BY <1>6, <2>1, <2>2, <2>3
<1>11. news' \subseteq Objects \ {"service"}
    BY <1>1, <1>3
<1>12. InSync'
    <2> SUFFICES ASSUME NEW x \in Objects, x \notin news' PROVE seen'[x] = store'[x]
        BY DEF InSync
    <2>1. CASE x # o
        BY <1>3, <1>6, <1>7, <2>1 DEF InSync
    <2>2. CASE x = o
        BY <1>1, <1>3, <1>4, <1>7, <2>2
    <2> QED BY <2>1, <2>2
<1> QED BY <1>2, <1>5, <1>6, <1>7, <1>9, <1>10, <1>11, <1>12

-------------------------------------------------------------------------------
\* The shapes of steps.

LEMMA NewestTyped == ASSUME Inv PROVE Newest \in 1..MaxUids /\ uids \in 1..MaxUids
BY FreqUIAssumption DEF Inv, TypeOK, Uids, Newest

\* A step that changes one object at most, and not the pass.
LEMMA OutsideInv ==
    ASSUME Inv, NEW o \in Objects, NEW new \in Kept, replaced \subseteq replaced',
           new.owner \in {0, store[o].owner} \/ (o \in replaced' /\ ~Mine(new)),
           Change(o, new) \/ UNCHANGED <<store, seen, news>>,
           UNCHANGED rec, uids' >= uids, TypeOK', Uids'
    PROVE  Inv'
<1>1. Newest \in 1..MaxUids /\ uids \in Nat /\ uids' \in Nat
    BY NewestTyped DEF Inv, TypeOK
<1>2. /\ Bounded(Newest)' /\ InSync' /\ Follows'
      /\ \A x \in Objects : store'[x].owner = store[x].owner \/ Taken(x)'
    <2>0. PICK n \in 1..MaxUids : n = Newest
        BY <1>1
    <2>1. /\ n \in 1..MaxUids /\ Bounded(n) /\ TypeOK /\ InSync /\ Follows
          /\ store \in [Objects -> Kept]
        BY <2>0 DEF Inv, TypeOK, Kept
    <2>2. Newest' \in Nat /\ n <= Newest'
        BY <1>1, <2>0 DEF Newest, Inv, TypeOK, Specs
    <2>3. CASE Change(o, new)
        <3>1. store' = [store EXCEPT ![o] = new] /\ Bounded(n)' /\ InSync' /\ Follows'
            BY <2>1, <2>3, ChangeKeeps
        <3>2. \A x \in Objects : store'[x].owner = store[x].owner \/ Taken(x)'
            BY <2>1, <3>1 DEF Taken
        <3>3. Bounded(Newest)'
            BY <2>2, <3>1 DEF Bounded, Mine
        <3> QED BY <3>1, <3>2, <3>3
    <2>4. CASE UNCHANGED <<store, seen, news>>
        BY <2>1, <2>2, <2>4 DEF Bounded, InSync, Follows, Mine, Taken
    <2> QED BY <2>3, <2>4
<1>3. Doomed'
    BY <1>2, Names DEF Inv, Doomed, Taken
<1> QED BY <1>2, <1>3 DEF Inv

\* Where the informers have nothing to report, the copies are what is there.
LEMMA Informed ==
    ASSUME Inv, NEW o \in Objects, Mine(seen[o])
    PROVE  \/ store[o].owner = 0 \/ o \in replaced \cap news
           \/ Mine(store[o]) /\ store[o].owner >= seen[o].owner
<1>1. CASE o \in news
    BY <1>1 DEF Inv, Follows, Taken
<1>2. CASE o \notin news
    BY <1>2, OwnersTyped DEF Inv, InSync, Mine
<1> QED BY <1>1, <1>2

\* A pass that is over.
LEMMA OverInv ==
    ASSUME Inv, rec' = Idle, UNCHANGED <<store, seen, news, uids>>, TypeOK',
           replaced' \in {replaced, replaced \cap news}, spec' = spec
    PROVE  Inv'
<1>1. Uids'
    BY IdleTyped DEF Inv, Uids
<1>2. Newest' = uids /\ Newest <= uids /\ uids \in 1..MaxUids /\ Newest \in 1..MaxUids
    BY IdleTyped, NewestTyped DEF Newest, Inv, Uids
<1>3. Bounded(Newest)'
    BY <1>2 DEF Inv, Bounded, Mine, TypeOK, Owners, Kept
<1>4. InSync' /\ Doomed'
    BY IdleTyped DEF Inv, InSync, Doomed
<1>5. Follows'
    BY Informed DEF Inv, Follows, Mine, Taken
<1> QED BY <1>1, <1>3, <1>4, <1>5 DEF Inv

LEMMA failReconcileTyped ==
    ASSUME TypeOK, failReconcile
    PROVE  /\ status' \in Statuses /\ rec' = Idle /\ queued' = TRUE
           /\ UNCHANGED <<statusSeen, lost>>
<1> DEFINE new == [statusSeen EXCEPT !.workload = "error", !.ready = FALSE, !.observed = TRUE,
                       !.phase = deriveFreqUIPhase("error", statusSeen.exposure)]
<1>1. deriveFreqUIPhase("error", statusSeen.exposure) = "ResourceError"
    BY DEF deriveFreqUIPhase
<1>2. new \in Statuses
    BY <1>1 DEF TypeOK, Statuses
<1>3. status' \in {status, new}
    BY DEF failReconcile, Stored
<1> HIDE DEF new
<1>4. status' \in Statuses
    BY <1>2, <1>3 DEF TypeOK
<1> QED BY <1>4 DEF failReconcile

LEMMA UpsetTyped == ASSUME TypeOK, Upset PROVE upsets' \in 0..MaxUpsets
BY FreqUIAssumption DEF TypeOK, Upset

\* What the informer shows as this pass's own is that, gone, or replaced by others.
LEMMA Claimed ==
    ASSUME Inv, rec.pc # "idle", NEW o \in Objects, seen[o].owner = rec.spec.uid
    PROVE  Taken(o) \/ store[o].owner = rec.spec.uid
<1>1. rec.spec.uid \in 1..MaxUids /\ Newest = rec.spec.uid
    BY NewestTyped DEF Inv, Uids, Newest
<1>2. Mine(seen[o])
    BY <1>1 DEF Mine
<1>3. CASE Mine(store[o]) /\ store[o].owner >= seen[o].owner
    <2>1. store[o].owner <= rec.spec.uid
        BY <1>1, <1>3 DEF Inv, Bounded
    <2> QED BY <1>1, <1>3, <2>1 DEF Mine
<1> QED BY <1>2, <1>3 DEF Inv, Follows

LEMMA ListedTyped ==
    ASSUME TypeOK, NEW r \in Recs
    PROVE  /\ Listed(r) \in Recs /\ Listed(r).spec = r.spec
           /\ Listed(r).pc \in {"report", "dropIngress", "prune"}
           /\ \A o \in Listed(r).todo : o \in Routes /\ seen[o].owner = r.spec.uid
<1> DEFINE stale == IF gateway.available
                    THEN {o \in Routes : Prunable(o, r.want, r.spec.uid)} ELSE {}
           pc == IF stale = {} THEN AfterPrune(r.spec.mode) ELSE "prune"
<1>1. Listed(r) = [r EXCEPT !.todo = stale, !.pc = pc]
    BY DEF Listed
<1>2. stale \subseteq Routes /\ \A o \in stale : seen[o].owner = r.spec.uid
    BY DEF Prunable
<1>3. pc \in {"report", "dropIngress", "prune"}
    BY DEF AfterPrune
<1> HIDE DEF stale, pc
<1>4. stale \in SUBSET Objects /\ pc \in Pcs
    BY <1>2, <1>3, Names DEF Pcs
<1>5. LET l == [r EXCEPT !.todo = stale, !.pc = pc]
      IN  l \in Recs /\ l.spec = r.spec /\ l.pc = pc /\ l.todo = stale
    BY <1>4 DEF Recs
<1> QED BY <1>1, <1>2, <1>3, <1>5

\* A step of the pass that changes one object at most, for its own FreqUI.
LEMMA PassInv ==
    ASSUME Inv, rec.pc # "idle", NEW o \in Objects, NEW new \in Kept,
           new.owner \in {0, store[o].owner, rec.spec.uid},
           Change(o, new) \/ UNCHANGED <<store, seen, news, queued>>,
           rec' \in Recs, rec'.pc # "idle", rec'.spec = rec.spec,
           rec'.pc = "prune" =>
             \A x \in rec'.todo : x \in Routes /\ (Taken(x) \/ store[x].owner = rec.spec.uid),
           UNCHANGED <<Env, reports, replaced, timer, upsets>>
    PROVE  Inv'
<1>1. PICK n \in 1..MaxUids : n = rec.spec.uid /\ n = Newest
    BY NewestTyped DEF Inv, Uids, Newest
<1>2. n = Newest' /\ rec'.spec.uid = n
    BY <1>1 DEF Newest
<1>3. TypeOK /\ InSync /\ Follows /\ Bounded(n) /\ store \in [Objects -> Kept]
    BY <1>1 DEF Inv, TypeOK, Kept
<1>4. /\ store' \in [Objects -> Kept] /\ seen' \in [Objects -> Kept]
      /\ news' \subseteq Objects \ {"service"} /\ queued' \in BOOLEAN
      /\ Bounded(n)' /\ InSync' /\ Follows'
      /\ \A x \in Objects : store'[x].owner \in {store[x].owner, new.owner}
    <2>1. CASE Change(o, new)
        <3>1. new.owner \in {0, store[o].owner, n} /\ replaced \subseteq replaced'
            BY <1>1
        <3>2. /\ store' = [store EXCEPT ![o] = new]
              /\ store' \in [Objects -> Kept] /\ seen' \in [Objects -> Kept]
              /\ news' \subseteq Objects \ {"service"} /\ queued' \in BOOLEAN
              /\ Bounded(n)' /\ InSync' /\ Follows'
            BY <1>3, <2>1, <3>1, ChangeKeeps
        <3> QED BY <1>3, <3>2
    <2>2. CASE UNCHANGED <<store, seen, news, queued>>
        BY <1>3, <2>2 DEF TypeOK, Kept, Bounded, InSync, Follows, Mine, Taken
    <2> QED BY <2>1, <2>2
<1>5. TypeOK'
    BY <1>3, <1>4 DEF TypeOK, Env, reports, Kept, Recs
<1>6. Uids'
    BY <1>1, <1>2 DEF Inv, Uids, Env
<1>7. Bounded(Newest)'
    BY <1>2, <1>4 DEF Bounded
<1>8. Doomed'
    <2> SUFFICES ASSUME rec'.pc = "prune", NEW x \in rec'.todo
                 PROVE  x \in Routes /\ (Taken(x)' \/ store'[x].owner = rec'.spec.uid)
        BY DEF Doomed
    <2>1. x \in Routes /\ x \in Objects /\ (Taken(x) \/ store[x].owner = n)
        BY <1>1, Names
    <2>2. CASE x # o
        <3>1. store'[x] = store[x]
            BY <1>3, <2>1, <2>2 DEF Change
        <3> QED BY <1>2, <2>1, <3>1 DEF Taken
    <2>3. CASE x = o
        BY <1>1, <1>2, <1>4, <2>1, <2>3 DEF Taken
    <2> QED BY <2>2, <2>3
<1> QED BY <1>4, <1>5, <1>6, <1>7, <1>8 DEF Inv

\* A pass that fails without having changed an object.
LEMMA FailedInv ==
    ASSUME Inv, failReconcile \/ (rec' = Idle /\ queued' = TRUE /\ UNCHANGED reports),
           UNCHANGED <<Env, store, seen, news, timer>>, upsets' \in 0..MaxUpsets,
           replaced' \in {replaced, replaced \cap news}
    PROVE  Inv'
<1>1. /\ status' \in Statuses /\ rec' = Idle /\ queued' \in BOOLEAN
      /\ UNCHANGED <<statusSeen, lost>>
    BY failReconcileTyped DEF Inv, TypeOK, reports
<1>2. TypeOK'
    BY <1>1, IdleTyped DEF Inv, TypeOK, Env, Recs
<1> QED BY <1>1, <1>2, OverInv DEF Env

LEMMA RefusedInv ==
    ASSUME Inv, NEW o \in Objects, Refused(o), UNCHANGED <<Env, timer, upsets>>,
           replaced' \in {replaced, replaced \cap news}
    PROVE  Inv'
BY FailedInv DEF Refused, Inv, TypeOK

LEMMA InitInv == Init => Inv
<1> SUFFICES ASSUME Init PROVE Inv
    OBVIOUS
<1>1. /\ spec \in Specs /\ spec.uid = 1 /\ uids = 1 /\ upsets = 0 /\ uids \in 0..MaxUids
      /\ upsets \in 0..MaxUpsets
    BY FreqUIAssumption DEF Init, Specs
<1>2. /\ gateway \in [installed: BOOLEAN, available: BOOLEAN]
      /\ bots \in [Bots -> {"absent", "noapi", "api"}]
      /\ queued \in BOOLEAN /\ timer \in BOOLEAN /\ rec \in Recs /\ rec.pc = "idle"
      /\ news = {} /\ seen = store /\ statusSeen = status /\ lost = FALSE /\ replaced = {}
    <2>1. PICK on \in BOOLEAN : gateway = [installed |-> on, available |-> on]
        BY DEF Init
    <2>2. gateway \in [installed: BOOLEAN, available: BOOLEAN]
        BY <2>1
    <2>3. bots \in [Bots -> {"absent", "noapi", "api"}]
        BY DEF Init
    <2>4. /\ queued = TRUE /\ timer = FALSE /\ rec = Idle /\ news = {} /\ seen = store
          /\ statusSeen = status /\ lost = FALSE /\ replaced = {}
        BY DEF Init
    <2> QED BY <2>2, <2>3, <2>4, IdleTyped
<1>3. /\ status \in Statuses /\ rival \subseteq Routes /\ store \in [Objects -> Kept]
      /\ \A o \in Objects : store[o].owner \in {0, 1, User, Rival, Other}
    <2>1. CASE New
        <3>1. PICK o \in Exposure, w \in {0, User, Rival, Other} :
                /\ w = Rival => o \in Routes
                /\ store = [[x \in Objects |-> Nothing] EXCEPT ![o].owner = w]
                /\ rival = IF w = Rival THEN {o} ELSE {}
            BY <2>1 DEF New
        <3>2. o \in Objects /\ w \in Owners
            BY Names, OwnersTyped
        <3>3. store = [x \in Objects |-> IF x = o THEN [owner |-> w, health |-> "pending"]
                                                  ELSE Nothing]
            BY <3>1, <3>2 DEF Nothing
        <3>4. [owner |-> w, health |-> "pending"] \in Kept
            BY <3>2 DEF Kept, Healths
        <3>5. status \in Statuses /\ rival \subseteq Routes
            BY <2>1, <3>1, FreshTyped DEF New
        <3> DEFINE kept == [owner |-> w, health |-> "pending"]
        <3>6. kept \in Kept /\ kept.owner = w
            BY <3>4
        <3> HIDE DEF kept
        <3>7. store \in [Objects -> Kept]
            BY <3>3, <3>6, NothingTyped DEF kept
        <3>8. \A x \in Objects : store[x].owner \in {0, w}
            BY <3>3, NothingTyped
        <3> QED BY <3>5, <3>7, <3>8
    <2>2. CASE Up
        <3>1. PICK m \in Modes :
                /\ status = [workload |-> "healthy", exposure |-> "ok", resolved |-> "yes",
                             ready |-> TRUE, observed |-> m = spec.mode,
                             url |-> deriveFreqUIURL(m), phase |-> "Running"]
                /\ store = [o \in Objects |->
                              IF o \in {"deployment", "service"} \cup Exposing(m)
                              THEN [owner |-> spec.uid, health |-> "good"] ELSE Nothing]
            BY <2>2 DEF Up
        <3>2. status \in Statuses
            BY <3>1 DEF Statuses, Reasons, deriveFreqUIURL
        <3>3. [owner |-> spec.uid, health |-> "good"] \in Kept
            BY <1>1, FreqUIAssumption, OwnersTyped DEF Kept, Healths
        <3>4. rival = {}
            BY <2>2 DEF Up
        <3> QED BY <1>1, <3>1, <3>2, <3>3, <3>4, NothingTyped
    <2> QED BY <2>1, <2>2 DEF Init
<1>4. TypeOK
    BY <1>1, <1>2, <1>3 DEF TypeOK, Kept, Recs
<1>5. Uids /\ Doomed /\ Newest = 1
    BY <1>1, <1>2 DEF Uids, Doomed, Newest
<1>6. Bounded(Newest) /\ InSync /\ Follows
    BY <1>2, <1>3, <1>5, OwnersTyped DEF Bounded, InSync, Follows, Mine
<1> QED BY <1>4, <1>5, <1>6 DEF Inv

LEMMA FetchInv == ASSUME Inv, Fetch PROVE Inv'
<1>1. /\ UNCHANGED <<Env, reports, store, seen, news, replaced, rec, timer, upsets>>
      /\ queued' = FALSE
    BY DEF Fetch
<1>2. TypeOK' /\ Uids'
    BY <1>1 DEF Inv, TypeOK, Uids, Env, reports
<1>3. store["main"] \in Kept /\ uids' >= uids
    BY <1>1, Names DEF Inv, TypeOK, Kept, Env
<1> QED BY <1>1, <1>2, <1>3, Names, OutsideInv

LEMMA ApplyDeploymentInv == ASSUME Inv, ApplyDeployment PROVE Inv'
<1>1. CASE Refused("deployment")
    BY <1>1, Names, RefusedInv DEF ApplyDeployment
<1>2. CASE ~Refused("deployment")
    <2>1. /\ store' = [store EXCEPT !["deployment"].owner = spec.uid]
          /\ news' \in {news, news \cup {"deployment"}}
          /\ queued' = FALSE /\ rec' = [Idle EXCEPT !.pc = "service", !.spec = spec]
          /\ UNCHANGED <<Env, status, statusSeen, seen, timer, upsets>>
          /\ lost' = FALSE /\ replaced' = replaced \cap news
          /\ rec.pc = "idle" /\ spec.uid # 0
          /\ store' # store => "deployment" \in news'
        BY <1>2 DEF ApplyDeployment
    <2>2. spec.uid = uids /\ uids \in 1..MaxUids /\ spec \in Specs
        BY <2>1, NewestTyped DEF Inv, Uids, TypeOK
    <2>3. rec' \in Recs /\ rec'.pc = "service" /\ rec'.spec = spec
        BY <2>1, <2>2, IdleTyped DEF Recs, Pcs
    <2>4. Newest = uids /\ Newest' = uids
        BY <2>1, <2>2, <2>3 DEF Newest
    <2>5. store \in [Objects -> Kept] /\ seen \in [Objects -> Kept]
        BY DEF Inv, TypeOK, Kept
    <2>6. /\ store' \in [Objects -> Kept] /\ store'["deployment"].owner = uids
          /\ \A x \in Objects \ {"deployment"} : store'[x] = store[x]
        BY <2>1, <2>2, <2>5, Names, OwnersTyped DEF Kept
    <2>7. news' \subseteq Objects \ {"service"}
        BY <2>1, Names DEF Inv, TypeOK
    <2>8. TypeOK'
        BY <2>1, <2>3, <2>6, <2>7 DEF Inv, TypeOK, Env, Kept, Recs
    <2>9. Uids' /\ Doomed'
        BY <2>1, <2>2, <2>3 DEF Inv, Uids, Doomed, Env
    <2>10. Bounded(Newest)'
        <3> SUFFICES ASSUME NEW x \in Objects
                     PROVE  /\ Mine(store'[x]) => store'[x].owner <= uids
                            /\ Mine(seen'[x]) => seen'[x].owner <= uids
            BY <2>4 DEF Bounded, Mine
        <3>1. CASE x = "deployment"
            BY <2>1, <2>2, <2>4, <2>6, <3>1 DEF Inv, Bounded
        <3>2. CASE x # "deployment"
            BY <2>1, <2>4, <2>6, <3>2 DEF Inv, Bounded
        <3> QED BY <3>1, <3>2
    <2>11. Follows'
        <3> SUFFICES ASSUME NEW x \in Objects, Mine(seen[x])
                     PROVE  \/ Taken(x)'
                            \/ Mine(store'[x]) /\ store'[x].owner >= seen[x].owner
            BY <2>1 DEF Follows, Mine
        <3>1. CASE x = "deployment"
            BY <2>2, <2>4, <2>6, <3>1 DEF Inv, Bounded, Mine
        <3>2. CASE x # "deployment"
            BY <2>1, <2>6, <3>2, Informed DEF Taken
        <3> QED BY <3>1, <3>2
    <2>12. InSync'
        BY <2>1, <2>6 DEF Inv, InSync
    <2> QED BY <2>8, <2>9, <2>10, <2>11, <2>12 DEF Inv
<1> QED BY <1>1, <1>2

\* The apply of an object for the pass's FreqUI makes one of the type.
LEMMA AppliedTyped ==
    ASSUME Inv, rec.pc # "idle", NEW o \in Objects
    PROVE  /\ [store[o] EXCEPT !.owner = rec.spec.uid] \in Kept
           /\ [store[o] EXCEPT !.owner = rec.spec.uid].owner = rec.spec.uid
<1>1. store[o] \in Kept
    BY DEF Inv, TypeOK, Kept
<1>2. rec.spec.uid \in Owners
    BY NewestTyped, OwnersTyped DEF Inv, Uids
<1> QED BY <1>1, <1>2 DEF Kept

LEMMA ResolvedTyped ==
    ASSUME TypeOK, rec.pc # "idle"
    PROVE  /\ Resolved \in Recs /\ Resolved.pc # "idle" /\ Resolved.spec = rec.spec
           /\ Resolved.pc = "prune" =>
                \A o \in Resolved.todo : o \in Routes /\ seen[o].owner = rec.spec.uid
<1> DEFINE refs == rec.spec.refs
           u == \E b \in refs : bots[b] = "absent"
           k == \E b \in refs \cap LongNames : bots[b] = "api"
           new == [rec EXCEPT !.unresolved = u, !.skipped = k]
           routes == BuildFreqUIHTTPRoutes(refs)
<1>1. rec \in Recs /\ rec.spec \in Specs /\ rec.spec.mode \in Modes
    BY DEF TypeOK, Recs, Specs
<1>2. u \in BOOLEAN /\ k \in BOOLEAN
    OBVIOUS
<1>3. routes \subseteq Objects
    BY <1>1, Names DEF BuildFreqUIHTTPRoutes, Specs
<1>4. Resolved =
        CASE rec.spec.mode = "Gateway" /\ ~gateway.available ->
               [new EXCEPT !.pc = "report", !.exposure = "notInstalled"]
          [] rec.spec.mode = "Gateway" /\ gateway.available ->
               [new EXCEPT !.pc = "apply", !.todo = routes, !.want = routes]
          [] rec.spec.mode = "None" -> Listed([new EXCEPT !.exposure = "ok"])
          [] rec.spec.mode = "Ingress" -> [new EXCEPT !.pc = "apply", !.todo = {"ingress"}]
    BY DEF Resolved
<1> HIDE DEF u, k, routes
<1>5. new \in Recs /\ new.spec = rec.spec
    BY <1>1, <1>2 DEF Recs
<1> HIDE DEF new
<1>6. CASE rec.spec.mode = "Gateway" /\ ~gateway.available
    <2>1. Resolved = [new EXCEPT !.pc = "report", !.exposure = "notInstalled"]
        BY <1>4, <1>6
    <2> QED BY <1>5, <2>1 DEF Recs, Pcs, Reasons
<1>7. CASE rec.spec.mode = "Gateway" /\ gateway.available
    <2>1. Resolved = [new EXCEPT !.pc = "apply", !.todo = routes, !.want = routes]
        BY <1>4, <1>7
    <2> QED BY <1>3, <1>5, <2>1 DEF Recs, Pcs
<1>8. CASE rec.spec.mode = "None"
    <2> DEFINE r == [new EXCEPT !.exposure = "ok"]
    <2>1. r \in Recs /\ r.spec = rec.spec
        BY <1>5 DEF Recs, Reasons
    <2>2. Resolved = Listed(r)
        BY <1>4, <1>8
    <2> HIDE DEF r
    <2> QED BY <2>1, <2>2, ListedTyped
<1>9. CASE rec.spec.mode = "Ingress"
    <2>1. Resolved = [new EXCEPT !.pc = "apply", !.todo = {"ingress"}]
        BY <1>4, <1>9
    <2> QED BY <1>5, <2>1, Names DEF Recs, Pcs
<1> QED BY <1>1, <1>6, <1>7, <1>8, <1>9 DEF Modes

LEMMA ApplyServiceInv == ASSUME Inv, ApplyService PROVE Inv'
<1>1. CASE Refused("service")
    BY <1>1, Names, RefusedInv DEF ApplyService
<1>2. CASE ~Refused("service")
    <2> DEFINE new == [store["service"] EXCEPT !.owner = rec.spec.uid]
    <2>1. /\ Change("service", new) /\ rec' = Resolved /\ rec.pc = "service"
          /\ UNCHANGED <<Env, reports, replaced, timer, upsets>>
        BY <1>2 DEF ApplyService, Apply
    <2>2. new \in Kept /\ new.owner = rec.spec.uid
        BY <2>1, Names, AppliedTyped
    <2>3. /\ rec' \in Recs /\ rec'.pc # "idle" /\ rec'.spec = rec.spec
          /\ rec'.pc = "prune" =>
               \A x \in rec'.todo : x \in Routes /\ seen[x].owner = rec.spec.uid
        BY <2>1, ResolvedTyped DEF Inv
    <2>4. rec'.pc = "prune" =>
            \A x \in rec'.todo : x \in Routes /\ (Taken(x) \/ store[x].owner = rec.spec.uid)
        BY <2>1, <2>3, Names, Claimed
    <2> HIDE DEF new
    <2> QED BY <2>1, <2>2, <2>3, <2>4, Names, PassInv
<1> QED BY <1>1, <1>2

LEMMA ExposedTyped == ASSUME NEW o PROVE Exposed(o) \in Reasons
BY DEF Exposed, deriveGatewayExposureCondition, Reasons

LEMMA ApplyExposureInv == ASSUME Inv, NEW o \in Objects, ApplyExposure(o) PROVE Inv'
<1>1. CASE Refused(o)
    BY <1>1, RefusedInv DEF ApplyExposure
<1>2. CASE ~Refused(o)
    <2> DEFINE new == [store[o] EXCEPT !.owner = rec.spec.uid]
               r == [rec EXCEPT !.todo = rec.todo \ {o}, !.exposure = Exposed(o)]
    <2>1. /\ Change(o, new) /\ rec' = IF r.todo = {} THEN Listed(r) ELSE r
          /\ rec.pc = "apply" /\ UNCHANGED <<Env, reports, replaced, timer, upsets>>
        BY <1>2 DEF ApplyExposure, Apply
    <2>2. new \in Kept /\ new.owner = rec.spec.uid
        BY <2>1, AppliedTyped
    <2>3. rec \in Recs
        BY DEF Inv, TypeOK, Recs
    <2>4. r \in Recs /\ r.spec = rec.spec /\ r.pc = "apply"
        BY <2>1, <2>3, ExposedTyped DEF Recs
    <2> HIDE DEF r
    <2>5. /\ rec' \in Recs /\ rec'.pc # "idle" /\ rec'.spec = rec.spec
          /\ rec'.pc = "prune" =>
               \A x \in rec'.todo : x \in Routes /\ seen[x].owner = rec.spec.uid
        BY <2>1, <2>4, ListedTyped DEF Inv
    <2>6. rec'.pc = "prune" =>
            \A x \in rec'.todo : x \in Routes /\ (Taken(x) \/ store[x].owner = rec.spec.uid)
        BY <2>1, <2>5, Names, Claimed
    <2> HIDE DEF new
    <2> QED BY <2>1, <2>2, <2>5, <2>6, PassInv
<1> QED BY <1>1, <1>2

LEMMA PruneRouteInv == ASSUME Inv, NEW o \in Objects, PruneRoute(o) PROVE Inv'
<1> DEFINE pc == IF rec.todo = {o} THEN AfterPrune(rec.spec.mode) ELSE "prune"
<1>1. /\ Change(o, Nothing) /\ rec.pc = "prune"
      /\ rec' = [rec EXCEPT !.todo = rec.todo \ {o}, !.pc = pc]
      /\ UNCHANGED <<Env, reports, replaced, timer, upsets>>
    BY DEF PruneRoute
<1>2. pc \in Pcs /\ pc # "idle"
    BY DEF AfterPrune, Pcs
<1> HIDE DEF pc
<1>3. rec \in Recs
    BY DEF Inv, TypeOK, Recs
<1>4. /\ rec' \in Recs /\ rec'.pc = pc /\ rec'.spec = rec.spec
      /\ rec'.todo = rec.todo \ {o}
    BY <1>1, <1>2, <1>3 DEF Recs
<1>5. \A x \in rec.todo : x \in Routes /\ (Taken(x) \/ store[x].owner = rec.spec.uid)
    BY <1>1 DEF Inv, Doomed
<1> QED BY <1>1, <1>2, <1>4, <1>5, NothingTyped, PassInv

LEMMA deleteOwnedIngressInv == ASSUME Inv, deleteOwnedIngress PROVE Inv'
<1>1. /\ Change("ingress", Nothing) \/ UNCHANGED <<store, seen, news, queued>>
      /\ rec.pc = "dropIngress" /\ rec' = [rec EXCEPT !.pc = "report"]
      /\ UNCHANGED <<Env, reports, replaced, timer, upsets>>
    BY DEF deleteOwnedIngress
<1>2. rec' \in Recs /\ rec'.pc = "report" /\ rec'.spec = rec.spec
    BY <1>1 DEF Inv, TypeOK, Recs, Pcs
<1> QED BY <1>1, <1>2, Names, NothingTyped, PassInv

LEMMA ReportInv == ASSUME Inv, Report PROVE Inv'
<1> DEFINE up == seen["deployment"].health = "good"
           w == IF up THEN "healthy" ELSE "progressing"
           res == IF rec.unresolved THEN "no" ELSE "yes"
           url == IF up THEN deriveFreqUIURL(rec.spec.mode) ELSE ""
           ready == aggregateReadyCondition(w, rec.exposure)
           phase == deriveFreqUIPhase(w, rec.exposure)
           new == [workload |-> w, exposure |-> rec.exposure, resolved |-> res,
                   ready |-> ready, observed |-> TRUE, url |-> url, phase |-> phase]
<1>1. UNCHANGED <<Env, store, seen, news, replaced, upsets>>
    BY DEF Report
<1>2. CASE failReconcile /\ UNCHANGED timer
    BY <1>1, <1>2, FailedInv DEF Inv, TypeOK
<1>3. CASE ~(failReconcile /\ UNCHANGED timer)
    <2>1. /\ rec' = Idle /\ queued' \in BOOLEAN /\ timer' \in BOOLEAN /\ lost' \in BOOLEAN
          /\ statusSeen' = statusSeen
        BY <1>3 DEF Report, reports, Inv, TypeOK
    <2>2. status' \in {status, new}
        BY <1>3 DEF Report, reports, Stored, Skipped
    <2>3. new \in Statuses
        <3>1. w \in {"healthy", "progressing"}
            OBVIOUS
        <3>2. phase \in {"Running", "Degraded", "Pending"}
            BY DEF deriveFreqUIPhase
        <3>3. ready \in BOOLEAN
            BY DEF aggregateReadyCondition
        <3>4. rec.exposure \in Reasons /\ rec.spec.mode \in Modes
            BY DEF Inv, TypeOK, Specs
        <3>5. res \in {"no", "yes"} /\ url \in Modes \cup {""}
            BY <3>4 DEF deriveFreqUIURL
        <3> HIDE DEF w, res, url, ready, phase
        <3> QED BY <3>1, <3>2, <3>3, <3>4, <3>5 DEF Statuses
    <2> HIDE DEF new
    <2>4. TypeOK'
        BY <1>1, <2>1, <2>2, <2>3, IdleTyped DEF Inv, TypeOK, Env, Recs
    <2> QED BY <1>1, <2>1, <2>4, OverInv DEF Env
<1> QED BY <1>2, <1>3

LEMMA RequestFailsInv == ASSUME Inv, RequestFails PROVE Inv'
<1>1. upsets' \in 0..MaxUpsets
    BY UpsetTyped DEF RequestFails, Inv
<1> QED BY <1>1, FailedInv DEF RequestFails

LEMMA TimerFiresInv == ASSUME Inv, TimerFires PROVE Inv'
<1>1. /\ UNCHANGED <<Env, reports, store, seen, news, replaced, rec, upsets>>
      /\ queued' = TRUE /\ timer' = FALSE
    BY DEF TimerFires
<1>2. TypeOK' /\ Uids'
    BY <1>1 DEF Inv, TypeOK, Uids, Env, reports
<1>3. store["main"] \in Kept /\ uids' >= uids
    BY <1>1, Names DEF Inv, TypeOK, Kept, Env
<1> QED BY <1>1, <1>2, <1>3, Names, OutsideInv

LEMMA RestartInv == ASSUME Inv, Restart PROVE Inv'
<1>1. /\ rec' = Idle /\ queued' = TRUE /\ timer' = FALSE /\ seen' = store /\ news' = {}
      /\ UNCHANGED <<spec, bots, rival, uids, status, lost, store, replaced>>
      /\ statusSeen' = status
      /\ gateway' \in [installed: BOOLEAN, available: BOOLEAN]
    BY DEF Restart, Inv, TypeOK
<1>2. upsets' \in 0..MaxUpsets
    BY UpsetTyped DEF Restart, Inv
<1>3. TypeOK'
    BY <1>1, <1>2, IdleTyped DEF Inv, TypeOK, Recs
<1>4. Uids' /\ Doomed'
    BY <1>1, IdleTyped DEF Inv, Uids, Doomed
<1>5. Newest' = uids /\ Newest <= uids /\ uids \in 1..MaxUids /\ Newest \in 1..MaxUids
    BY <1>1, IdleTyped, NewestTyped DEF Newest, Inv, Uids
<1>6. Bounded(Newest)' /\ InSync' /\ Follows'
    BY <1>1, <1>5 DEF Inv, Bounded, InSync, Follows, Mine, TypeOK, Owners
<1> QED BY <1>3, <1>4, <1>6 DEF Inv

\* A step of others that changes one object and, at most, the count of upsets.
LEMMA OthersInv ==
    ASSUME Inv, NEW o \in Objects, NEW new \in Kept,
           new.owner \in {0, store[o].owner} \/ (o \in replaced' /\ ~Mine(new)),
           Change(o, new), replaced' \in {replaced, replaced \cup {o}},
           UNCHANGED <<Env, reports, rec, timer>>, upsets' \in 0..MaxUpsets
    PROVE  Inv'
<1>1. PICK n \in 1..MaxUids : n = Newest
    BY NewestTyped
<1>2. Bounded(n) /\ TypeOK /\ InSync /\ Follows
    BY <1>1 DEF Inv
<1>3. /\ store' \in [Objects -> Kept] /\ seen' \in [Objects -> Kept]
      /\ news' \subseteq Objects \ {"service"} /\ queued' \in BOOLEAN
    BY <1>2, ChangeKeeps
<1>4. TypeOK' /\ Uids' /\ uids' >= uids
    BY <1>2, <1>3 DEF Inv, TypeOK, Uids, Env, reports, Kept
<1> QED BY <1>4, OutsideInv

LEMMA DeliverInv == ASSUME Inv, NEW o \in Objects, Deliver(o) PROVE Inv'
<1>1. /\ seen' = [seen EXCEPT ![o] = store[o]] /\ news' = news \ {o} /\ queued' = TRUE
      /\ UNCHANGED <<Env, reports, store, replaced, rec, timer, upsets>>
    BY DEF Deliver
<1>2. store \in [Objects -> Kept] /\ seen \in [Objects -> Kept]
    BY DEF Inv, TypeOK, Kept
<1>3. /\ seen' \in [Objects -> Kept] /\ seen'[o] = store[o]
      /\ \A x \in Objects \ {o} : seen'[x] = seen[x]
    BY <1>1, <1>2
<1>4. TypeOK' /\ Uids' /\ Doomed' /\ Newest' = Newest
    BY <1>1, <1>3 DEF Inv, TypeOK, Uids, Doomed, Newest, Env, reports, Kept, Taken
<1>5. Bounded(Newest)'
    BY <1>1, <1>3, <1>4 DEF Inv, Bounded, Mine
<1>6. Follows'
    <2> SUFFICES ASSUME NEW x \in Objects, Mine(seen'[x])
                 PROVE  \/ Taken(x)
                        \/ Mine(store[x]) /\ store[x].owner >= seen'[x].owner
        BY <1>1 DEF Follows, Mine, Taken
    <2>1. CASE x = o
        BY <1>2, <1>3, <2>1, OwnersTyped DEF Mine
    <2>2. CASE x # o
        BY <1>3, <2>2 DEF Inv, Follows
    <2> QED BY <2>1, <2>2
<1>7. InSync'
    BY <1>1, <1>3 DEF Inv, InSync
<1> QED BY <1>4, <1>5, <1>6, <1>7 DEF Inv

LEMMA RivalAppliesInv == ASSUME Inv, NEW o \in Routes, RivalApplies(o) PROVE Inv'
<1> DEFINE new == [store[o] EXCEPT !.owner = Rival]
<1>1. /\ o \in Objects /\ Change(o, new) /\ UNCHANGED <<Env, reports, rec, timer, upsets>>
      /\ replaced' = replaced \cup {o}
    BY Names DEF RivalApplies
<1>2. store[o] \in Kept /\ upsets' \in 0..MaxUpsets
    BY <1>1 DEF Inv, TypeOK, Kept
<1>3. new \in Kept /\ ~Mine(new)
    BY <1>2, OwnersTyped DEF Kept, Mine
<1> HIDE DEF new
<1> QED BY <1>1, <1>2, <1>3, OthersInv

LEMMA CollectGarbageInv == ASSUME Inv, NEW o \in Objects, CollectGarbage(o) PROVE Inv'
<1>1. Change(o, Nothing) /\ UNCHANGED <<Env, reports, replaced, rec, timer, upsets>>
    BY DEF CollectGarbage
<1>2. upsets' \in 0..MaxUpsets
    BY <1>1 DEF Inv, TypeOK
<1> QED BY <1>1, <1>2, NothingTyped, OthersInv

LEMMA HealthChangesInv == ASSUME Inv, NEW o \in Objects, HealthChanges(o) PROVE Inv'
<1>1. PICK h \in Healths : Change(o, [store[o] EXCEPT !.health = h])
    BY DEF HealthChanges
<1> DEFINE new == [store[o] EXCEPT !.health = h]
<1>2. UNCHANGED <<Env, reports, replaced, rec, timer>> /\ Upset
    BY DEF HealthChanges, Env
<1>3. store[o] \in Kept /\ upsets' \in 0..MaxUpsets
    BY <1>2, UpsetTyped DEF Inv, TypeOK, Kept
<1>4. new \in Kept /\ new.owner = store[o].owner /\ Change(o, new)
    BY <1>1, <1>3 DEF Kept
<1> HIDE DEF new
<1> QED BY <1>2, <1>3, <1>4, OthersInv

LEMMA UserDeletesInv == ASSUME Inv, NEW o \in Objects, UserDeletes(o) PROVE Inv'
<1>1. Change(o, Nothing) /\ UNCHANGED <<Env, reports, replaced, rec, timer>> /\ Upset
    BY DEF UserDeletes, Env
<1>2. upsets' \in 0..MaxUpsets
    BY <1>1, UpsetTyped DEF Inv
<1> QED BY <1>1, <1>2, NothingTyped, OthersInv

LEMMA OtherCreatesInv ==
    ASSUME Inv, NEW o \in Exposure, NEW owner \in {User, Other}, OtherCreates(o, owner)
    PROVE  Inv'
<1> DEFINE new == [owner |-> owner, health |-> "pending"]
<1>1. /\ o \in Objects /\ Change(o, new) /\ UNCHANGED <<Env, reports, rec, timer>> /\ Upset
      /\ replaced' = replaced \cup {o}
    BY Names DEF OtherCreates, Env
<1>2. upsets' \in 0..MaxUpsets
    BY <1>1, UpsetTyped DEF Inv
<1>3. new \in Kept /\ ~Mine(new)
    BY OwnersTyped DEF Kept, Mine, Healths
<1> HIDE DEF new
<1> QED BY <1>1, <1>2, <1>3, OthersInv

\* A step that leaves the objects and the pass alone.
LEMMA AsideInv ==
    ASSUME Inv, UNCHANGED <<store, seen, news, replaced, rec>>, uids' >= uids, TypeOK', Uids'
    PROVE  Inv'
<1>1. store["main"] \in Kept
    BY Names DEF Inv, TypeOK, Kept
<1> QED BY <1>1, Names, OutsideInv

LEMMA EditSpecInv == ASSUME Inv, EditSpec PROVE Inv'
<1>1. /\ UNCHANGED <<lost, bots, store, seen, news, rival, gateway, replaced, rec, timer, uids>>
      /\ queued' = TRUE /\ status' = [status EXCEPT !.observed = FALSE] /\ statusSeen' = status'
    BY DEF EditSpec
<1>2. spec \in Specs /\ upsets' \in 0..MaxUpsets
    BY UpsetTyped DEF Inv, TypeOK, EditSpec
<1>3. spec' \in Specs /\ spec'.uid = spec.uid
    BY <1>2 DEF EditSpec, Specs
<1>4. status' \in Statuses
    BY <1>1 DEF Inv, TypeOK, Statuses
<1>5. TypeOK' /\ Uids' /\ uids' >= uids
    BY <1>1, <1>2, <1>3, <1>4 DEF Inv, TypeOK, Uids
<1> QED BY <1>1, <1>5, AsideInv

LEMMA StatusSyncInv == ASSUME Inv, StatusSync PROVE Inv'
<1>1. /\ UNCHANGED <<Env, status, lost, store, seen, news, replaced, rec, queued, timer, upsets>>
      /\ statusSeen' = status
    BY DEF StatusSync
<1>2. TypeOK' /\ Uids' /\ uids' >= uids
    BY <1>1 DEF Inv, TypeOK, Uids, Env
<1> QED BY <1>1, <1>2, AsideInv

LEMMA DeleteFreqUIInv == ASSUME Inv, DeleteFreqUI PROVE Inv'
<1>1. /\ UNCHANGED <<lost, bots, store, seen, news, rival, gateway, replaced, rec, timer, uids>>
      /\ queued' = TRUE /\ status' \in Statuses /\ statusSeen' \in Statuses
      /\ spec' = [spec EXCEPT !.uid = 0]
    BY FreshTyped DEF DeleteFreqUI
<1>2. spec \in Specs /\ upsets' \in 0..MaxUpsets
    BY UpsetTyped DEF Inv, TypeOK, DeleteFreqUI
<1>3. spec' \in Specs /\ spec'.uid = 0
    BY <1>1, <1>2, FreqUIAssumption DEF Specs
<1>4. TypeOK' /\ Uids' /\ uids' >= uids
    BY <1>1, <1>2, <1>3 DEF Inv, TypeOK, Uids
<1> QED BY <1>1, <1>4, AsideInv

LEMMA CreateFreqUIInv == ASSUME Inv, CreateFreqUI PROVE Inv'
<1>1. /\ UNCHANGED <<lost, bots, store, seen, news, rival, gateway, replaced, rec, timer, upsets>>
      /\ queued' = TRUE /\ status' \in Statuses /\ statusSeen' \in Statuses
      /\ uids' = uids + 1 /\ uids < MaxUids
    BY FreshTyped DEF CreateFreqUI
<1>2. spec \in Specs /\ uids \in 1..MaxUids /\ MaxUids \in Nat
    BY NewestTyped, OwnersTyped DEF Inv, TypeOK
<1>3. uids' \in 1..MaxUids /\ uids' >= uids
    BY <1>1, <1>2
<1>4. PICK m \in Modes : spec' = [spec EXCEPT !.uid = uids', !.mode = m]
    BY FreqUIAssumption DEF CreateFreqUI, Modes
<1>5. spec' \in Specs /\ spec'.uid = uids'
    <2>1. PICK u \in 0..MaxUids : u = uids'
        BY <1>2, <1>3
    <2>2. spec' = [spec EXCEPT !.uid = u, !.mode = m]
        BY <1>4, <2>1
    <2>3. [spec EXCEPT !.uid = u, !.mode = m] \in Specs
          /\ [spec EXCEPT !.uid = u, !.mode = m].uid = u
        BY <1>2 DEF Specs
    <2> QED BY <2>1, <2>2, <2>3
<1>6. TypeOK'
    BY <1>1, <1>2, <1>3, <1>5 DEF Inv, TypeOK
<1>7. Uids'
    BY <1>1, <1>2, <1>3, <1>5 DEF Inv, Uids
<1> QED BY <1>1, <1>3, <1>6, <1>7, AsideInv

LEMMA BotChangesInv == ASSUME Inv, NEW b \in Bots, BotChanges(b) PROVE Inv'
<1>1. /\ UNCHANGED <<spec, reports, store, seen, news, rival, gateway, replaced, rec, queued, timer,
                      uids>>
      /\ \E s \in {"absent", "noapi", "api"} : bots' = [bots EXCEPT ![b] = s]
    BY DEF BotChanges
<1>2. upsets' \in 0..MaxUpsets
    BY UpsetTyped DEF Inv, BotChanges
<1>3. bots' \in [Bots -> {"absent", "noapi", "api"}]
    BY <1>1 DEF Inv, TypeOK
<1>4. TypeOK' /\ Uids' /\ uids' >= uids
    BY <1>1, <1>2, <1>3 DEF Inv, TypeOK, Uids, reports
<1> QED BY <1>1, <1>4, AsideInv

LEMMA InstallGatewayAPIInv == ASSUME Inv, InstallGatewayAPI PROVE Inv'
<1>1. /\ UNCHANGED <<spec, reports, bots, store, seen, news, rival, replaced, rec, queued, timer,
                      uids>>
      /\ gateway' \in [installed: BOOLEAN, available: BOOLEAN]
    BY DEF InstallGatewayAPI, Inv, TypeOK
<1>2. upsets' \in 0..MaxUpsets
    BY UpsetTyped DEF Inv, InstallGatewayAPI
<1>3. TypeOK' /\ Uids' /\ uids' >= uids
    BY <1>1, <1>2 DEF Inv, TypeOK, Uids, reports
<1> QED BY <1>1, <1>3, AsideInv

LEMMA StutterInv == ASSUME Inv, UNCHANGED vars PROVE Inv'
<1>1. UNCHANGED <<store, seen, news, replaced, rec>> /\ TypeOK' /\ Uids' /\ uids' >= uids
    BY DEF vars, reports, Inv, TypeOK, Uids
<1> QED BY <1>1, AsideInv

LEMMA NextInv == Inv /\ [Next]_vars => Inv'
<1> SUFFICES ASSUME Inv, [Next]_vars PROVE Inv'
    OBVIOUS
<1>1. CASE Pass
    BY <1>1, FetchInv, ApplyDeploymentInv, ApplyServiceInv, deleteOwnedIngressInv, ReportInv,
       ApplyExposureInv, PruneRouteInv DEF Pass
<1>2. CASE RequestFails \/ TimerFires \/ Restart
    BY <1>2, RequestFailsInv, TimerFiresInv, RestartInv
<1>3. CASE StatusSync \/ EditSpec \/ DeleteFreqUI \/ CreateFreqUI \/ InstallGatewayAPI
    BY <1>3, StatusSyncInv, EditSpecInv, DeleteFreqUIInv, CreateFreqUIInv, InstallGatewayAPIInv
<1>4. CASE \E o \in Objects : Deliver(o) \/ CollectGarbage(o) \/ HealthChanges(o) \/ UserDeletes(o)
    BY <1>4, DeliverInv, CollectGarbageInv, HealthChangesInv, UserDeletesInv
<1>5. CASE (\E o \in Routes : RivalApplies(o)) \/ \E b \in Bots : BotChanges(b)
    BY <1>5, RivalAppliesInv, BotChangesInv
<1>6. CASE \E o \in Exposure, owner \in {User, Other} : OtherCreates(o, owner)
    BY <1>6, OtherCreatesInv
<1>7. CASE UNCHANGED vars
    BY <1>7, StutterInv
<1> QED BY <1>1, <1>2, <1>3, <1>4, <1>5, <1>6, <1>7 DEF Next

LEMMA Invariance == Spec => []Inv
BY InitInv, NextInv, PTL DEF Spec

\* The state of the reconciler and of its objects stays within its types, for
\* every number of bots, FreqUIs of the name and upsets.
THEOREM TypeCorrect == Spec => []TypeOK
<1>1. Inv => TypeOK
    BY DEF Inv
<1> QED BY <1>1, Invariance, PTL

\* A step of a pass that deletes an object.
LEMMA DeletesOwn ==
    ASSUME Inv, [Next]_vars, NEW o \in Objects,
           rec.pc \in {"prune", "dropIngress"}, rec' # rec,
           store[o].owner # 0, store'[o].owner = 0
    PROVE  store[o].owner = rec.spec.uid \/ o \in replaced
<1>1. store \in [Objects -> Kept] /\ store' # store
    BY DEF Inv, TypeOK, Kept
<1>2. CASE \E x \in Objects : PruneRoute(x)
    <2>1. PICK x \in Objects : PruneRoute(x)
        BY <1>2
    <2>2. rec.pc = "prune" /\ x \in rec.todo /\ store' = [store EXCEPT ![x] = Nothing]
        BY <2>1 DEF PruneRoute, Change
    <2>3. x = o
        BY <1>1, <2>2
    <2> QED BY <2>2, <2>3 DEF Inv, Doomed, Taken
<1>3. CASE deleteOwnedIngress
    <2>1. /\ rec.pc = "dropIngress" /\ seen["ingress"].owner = rec.spec.uid
          /\ store' = [store EXCEPT !["ingress"] = Nothing]
        BY <1>1, <1>3 DEF deleteOwnedIngress, Change
    <2>2. o = "ingress"
        BY <1>1, <2>1
    <2> QED BY <2>1, <2>2, Claimed DEF Taken
<1>4. CASE Pass /\ ~deleteOwnedIngress /\ ~\E x \in Objects : PruneRoute(x)
    BY <1>4 DEF Pass, Fetch, ApplyDeployment, ApplyService, Report, ApplyExposure
<1>5. CASE RequestFails \/ TimerFires \/ Restart
    BY <1>1, <1>5 DEF RequestFails, TimerFires, Restart
<1>6. CASE StatusSync \/ EditSpec \/ DeleteFreqUI \/ CreateFreqUI \/ InstallGatewayAPI
    BY <1>6 DEF StatusSync, EditSpec, DeleteFreqUI, CreateFreqUI, InstallGatewayAPI
<1>7. CASE \E x \in Objects : Deliver(x) \/ CollectGarbage(x) \/ HealthChanges(x) \/ UserDeletes(x)
    BY <1>7 DEF Deliver, CollectGarbage, HealthChanges, UserDeletes
<1>8. CASE (\E x \in Routes : RivalApplies(x)) \/ \E b \in Bots : BotChanges(b)
    BY <1>8 DEF RivalApplies, BotChanges
<1>9. CASE \E x \in Exposure, owner \in {User, Other} : OtherCreates(x, owner)
    BY <1>9 DEF OtherCreates
<1>10. CASE UNCHANGED vars
    BY <1>10 DEF vars
<1> QED BY <1>2, <1>3, <1>4, <1>5, <1>6, <1>7, <1>8, <1>9, <1>10 DEF Next

\* A pass of the FreqUI reconciler deletes only what its own FreqUI controls, although
\* pruneHTTPRoutes and deleteOwnedIngress decide by the informer's copies and Delete
\* names no uid: the exceptions are exactly the objects that a user, a controller or
\* another FreqUI put in place during the pass, or before it without an event so far.
THEOREM DeletesSafe == Spec => DeletesOnlyItsOwn
<1>1. Inv /\ [Next]_vars =>
        [\A o \in Objects :
           rec.pc \in {"prune", "dropIngress"} /\ rec' # rec /\ store[o].owner # 0
               /\ store'[o].owner = 0
             => store[o].owner = rec.spec.uid \/ o \in replaced]_vars
    BY DeletesOwn
<1> QED BY <1>1, Invariance, PTL DEF Spec, DeletesOnlyItsOwn

-------------------------------------------------------------------------------
\* At rest.  Whatever a pass has seen to stays so, or an event that will queue another
\* pass is on its way (the object is in news), for as long as none is queued.

Held(o) == o \in news \/ Owned(o)
Gone(o) == o \in news \/ ~Owned(o)
Fit(o) == o \in news \/ (Owned(o) => store[o].health = "good")
Pruning(o) == rec.pc = "prune" /\ o \in rec.todo

\* What a pass carries from step to step.
Shape ==
    /\ rec.pc = "service" => rec.want = {} /\ rec.exposure = "none"
    /\ rec.pc = "apply" =>
         \/ rec.spec.mode = "Ingress" /\ rec.todo = {"ingress"} /\ rec.want = {}
         \/ /\ rec.spec.mode = "Gateway" /\ gateway.available
            /\ rec.todo \subseteq rec.want /\ rec.want \subseteq Routes /\ "main" \in rec.want
            /\ rec.exposure \in {"none", "ok", "pending", "rejected"} \/ rec.skipped
    /\ rec.pc = "prune" => gateway.available
    /\ rec.pc = "dropIngress" => rec.spec.mode # "Ingress"
    /\ rec.pc \in {"dropIngress", "report"} /\ rec.spec.mode = "Gateway" /\ rec.exposure = "ok"
         => gateway.available

Passed == rec.pc \notin {"service", "apply"}

\* The objects of the workload.
Workload ==
    Held("deployment") /\ (rec.pc # "service" => Owned("service"))

\* The exposure that the mode asks for, and none that it does not.
ModeHeld ==
    /\ spec.mode = "Ingress" /\ Passed => Held("ingress")
    /\ spec.mode = "Gateway" /\ gateway.available
         /\ (Passed \/ (rec.pc = "apply" /\ "main" \notin rec.todo)) => Held("main")
ModeGone ==
    /\ rec.pc \in {"report", "idle"}
         /\ (spec.mode = "None" \/ (spec.mode = "Gateway" /\ gateway.available)) => Gone("ingress")
    /\ spec.mode # "Gateway" /\ gateway.available /\ Passed
         => \A o \in Routes : Gone(o) \/ Pruning(o)

\* The routes behind a verdict that all is well.
RoutesFit ==
    spec.mode = "Gateway" /\ gateway.available =>
        /\ rec.pc = "apply" /\ rec.exposure \in {"none", "ok"}
             => \A o \in rec.want \ rec.todo : Fit(o)
        /\ rec.pc \in {"prune", "dropIngress", "report"} /\ rec.exposure = "ok"
             => \A o \in Routes : Fit(o) \/ Pruning(o)
        /\ rec.pc = "idle" /\ status.ready /\ ~lost => \A o \in Routes : Fit(o)

Claims ==
    rec.pc = "idle" /\ status.ready /\ ~lost =>
        /\ Fit("deployment")
        /\ status.url = spec.mode
        /\ spec.mode = "Gateway" => gateway.available

Settled ==
    ~queued /\ spec.uid # 0 =>
        /\ rec.pc # "idle" => rec.spec = spec
        /\ Workload /\ ModeHeld /\ ModeGone /\ RoutesFit /\ Claims

RestInv == Inv /\ Shape /\ Settled

\* A step that leaves the informer an event of every owned object it changes; a change of
\* the Service queues a pass at once.
Noted ==
    /\ news \subseteq news' /\ (queued => queued')
    /\ \A o \in Objects :
         \/ o \in news' \/ store'[o] = store[o] \/ (~Mine(store[o]) /\ ~Mine(store'[o]))
         \/ o = "service" /\ queued'

\* A write of one object is noted: the informer has something to deliver, or the key is
\* queued.
LEMMA ChangeNoted ==
    ASSUME TypeOK, NEW x \in Objects, NEW new \in Kept, Change(x, new)
    PROVE  /\ Noted
           /\ store'[x] = new /\ \A o \in Objects \ {x} : store'[o] = store[o]
<1>1. /\ store \in [Objects -> Kept] /\ seen \in [Objects -> Kept]
      /\ news \subseteq Objects \ {"service"} /\ queued \in BOOLEAN
    BY DEF TypeOK, Kept
<1> DEFINE owned == new # store[x] /\ (Mine(store[x]) \/ Mine(new))
           lags == owned /\ x # "service"
<1>2. /\ store' = [store EXCEPT ![x] = new]
      /\ news' = IF lags THEN news \cup {x} ELSE news
      /\ seen' = IF lags THEN seen ELSE [seen EXCEPT ![x] = IF x \in news THEN seen[x] ELSE new]
      /\ queued' = (queued \/ (owned /\ x = "service"))
    BY DEF Change
<1>3. store'[x] = new /\ \A o \in Objects \ {x} : store'[o] = store[o]
    BY <1>1, <1>2
<1>4. Noted
    <2>1. news \subseteq news' /\ (queued => queued')
        BY <1>2
    <2>2. ASSUME NEW o \in Objects
          PROVE  \/ o \in news' \/ store'[o] = store[o] \/ (~Mine(store[o]) /\ ~Mine(store'[o]))
                 \/ o = "service" /\ queued'
        <3>1. CASE o # x
            BY <1>3, <3>1
        <3>2. CASE o = x /\ ~owned
            BY <1>3, <3>2
        <3>3. CASE o = x /\ owned
            BY <1>2, <3>3
        <3> QED BY <3>1, <3>2, <3>3
    <2> QED BY <2>1, <2>2 DEF Noted
<1> QED BY <1>3, <1>4

\* What the pass has established of an object outlives every noted step.
LEMMA NotedKeeps ==
    ASSUME Inv, TypeOK', Noted, spec' = spec, spec.uid # 0
    PROVE  /\ \A o \in Objects \ {"service"} :
                (Held(o) => Held(o)') /\ (Gone(o) => Gone(o)') /\ (Fit(o) => Fit(o)')
           /\ Owned("service") /\ ~queued' => Owned("service")'
<1>1. spec.uid \in 1..MaxUids
    BY NewestTyped DEF Inv, Uids
<1>2. \A o \in Objects : Owned(o) => Mine(store[o])
    BY <1>1 DEF Owned, Mine
<1>3. \A o \in Objects : ~Mine(store'[o]) => store'[o].owner # spec.uid
    BY <1>1 DEF Mine
<1>4. ASSUME NEW o \in Objects \ {"service"}
      PROVE  (Held(o) => Held(o)') /\ (Gone(o) => Gone(o)') /\ (Fit(o) => Fit(o)')
    <2>1. o \in news' \/ store'[o] = store[o] \/ (~Mine(store[o]) /\ ~Mine(store'[o]))
        BY DEF Noted
    <2>2. o \in news => o \in news'
        BY DEF Noted
    <2> QED BY <1>2, <1>3, <2>1, <2>2 DEF Held, Gone, Fit, Owned
<1>5. Owned("service") /\ ~queued' => Owned("service")'
    <2>1. "service" \notin news' /\ "service" \in Objects
        BY Names DEF TypeOK
    <2> QED BY <1>2, <1>3, <2>1 DEF Owned, Noted
<1> QED BY <1>4, <1>5

\* A step after which a pass is queued, or the FreqUI is gone.
LEMMA QueuedSettled == ASSUME queued' \/ spec'.uid = 0 PROVE Settled'
BY DEF Settled

\* An idle controller has no pass to describe.
LEMMA IdleShape == ASSUME rec'.pc = "idle" PROVE Shape'
BY DEF Shape

\* A step of others.
LEMMA OthersSettled ==
    ASSUME RestInv, Inv', Noted, UNCHANGED <<spec, rec, status, lost>>,
           gateway'.available = gateway.available
    PROVE  Shape' /\ Settled'
<1>1. Shape'
    BY DEF RestInv, Shape
<1>2. ASSUME ~queued', spec.uid # 0 PROVE Settled'
    <2>1. ~queued /\ TypeOK'
        BY <1>2 DEF Noted, Inv
    <2>2. /\ rec.pc # "idle" => rec.spec = spec
          /\ Workload /\ ModeHeld /\ ModeGone /\ RoutesFit /\ Claims
        BY <1>2, <2>1 DEF RestInv, Settled
    <2>3. /\ \A o \in Objects \ {"service"} :
               (Held(o) => Held(o)') /\ (Gone(o) => Gone(o)') /\ (Fit(o) => Fit(o)')
          /\ Owned("service") => Owned("service")'
        BY <1>2, <2>1, NotedKeeps DEF RestInv
    <2>4. \A o : Pruning(o)' <=> Pruning(o)
        BY DEF Pruning
    <2>5. /\ "deployment" \in Objects \ {"service"} /\ "ingress" \in Objects \ {"service"}
          /\ "main" \in Objects \ {"service"} /\ Routes \subseteq Objects \ {"service"}
        BY Names
    <2>6. Workload'
        BY <2>2, <2>3, <2>5 DEF Workload
    <2>7. ModeHeld'
        BY <2>2, <2>3, <2>5 DEF ModeHeld, Passed
    <2>8. ModeGone'
        BY <2>2, <2>3, <2>4, <2>5 DEF ModeGone, Passed
    <2>9. RoutesFit'
        <3>1. rec.pc = "apply" /\ rec.spec.mode = "Gateway" => rec.want \subseteq Routes
            BY DEF RestInv, Shape
        <3> QED BY <2>2, <2>3, <2>4, <2>5, <3>1 DEF RoutesFit
    <2>10. Claims'
        BY <2>2, <2>3, <2>5 DEF Claims
    <2> QED BY <2>2, <2>6, <2>7, <2>8, <2>9, <2>10 DEF Settled
<1>3. CASE queued' \/ spec.uid = 0
    BY <1>1, <1>3, QueuedSettled
<1> QED BY <1>1, <1>2, <1>3

\* A pass that has applied its exposure goes on to the routes that it does not want, if it
\* can see any, then to the Ingress, unless it wants one.
LEMMA ListedShape ==
    ASSUME NEW r \in Recs
    PROVE  LET l == Listed(r)
           IN  /\ l.spec = r.spec /\ l.want = r.want /\ l.exposure = r.exposure
               /\ l.pc \in {"prune", "dropIngress", "report"}
               /\ l.pc = "prune" => gateway.available
               /\ l.pc = "dropIngress" => r.spec.mode # "Ingress"
               /\ l.pc = "report" => r.spec.mode = "Ingress"
               /\ gateway.available =>
                    \A o \in Routes \ r.want :
                        seen[o].owner = r.spec.uid => l.pc = "prune" /\ o \in l.todo
<1> DEFINE stale == IF gateway.available
                    THEN {o \in Routes : Prunable(o, r.want, r.spec.uid)} ELSE {}
           pc == IF stale = {} THEN AfterPrune(r.spec.mode) ELSE "prune"
<1>1. Listed(r) = [r EXCEPT !.todo = stale, !.pc = pc]
    BY DEF Listed
<1>2. gateway.available =>
        \A o \in Routes \ r.want : seen[o].owner = r.spec.uid => o \in stale
    BY DEF Prunable
<1>3. /\ pc = "prune" => gateway.available
      /\ pc = "dropIngress" => r.spec.mode # "Ingress"
      /\ pc = "report" => r.spec.mode = "Ingress"
      /\ stale # {} => pc = "prune"
      /\ pc \in {"prune", "dropIngress", "report"}
    BY DEF AfterPrune
<1> HIDE DEF stale, pc
<1>4. LET l == [r EXCEPT !.todo = stale, !.pc = pc]
      IN  /\ l.spec = r.spec /\ l.want = r.want /\ l.exposure = r.exposure
          /\ l.pc = pc /\ l.todo = stale
    BY DEF Recs
<1>5. gateway.available =>
        \A o \in Routes \ r.want : seen[o].owner = r.spec.uid => pc = "prune" /\ o \in stale
    BY <1>2, <1>3
<1> QED BY <1>1, <1>3, <1>4, <1>5

\* A route that it does not see is not there, or its event is on the way.
LEMMA Unlisted ==
    ASSUME Inv, TypeOK', Noted, spec' = spec, spec.uid # 0,
           NEW o \in Routes, seen[o].owner # spec.uid
    PROVE  Gone(o)' /\ Fit(o)'
<1>1. o \in Objects \ {"service"}
    BY Names
<1>2. Gone(o)
    BY <1>1 DEF Inv, InSync, Gone, Owned
<1>3. Gone(o)'
    BY <1>1, <1>2, NotedKeeps
<1> QED BY <1>3 DEF Gone, Fit

\* One lemma for each step of a pass: it leaves what it has done so far settled.
LEMMA ApplyDeploymentSettled ==
    ASSUME RestInv, Inv', ApplyDeployment PROVE Shape' /\ Settled'
<1>1. CASE Refused("deployment")
    <2>1. rec' = Idle /\ queued' = TRUE /\ UNCHANGED <<store, seen, news>>
        BY <1>1 DEF Refused, failReconcile
    <2> QED BY <2>1, IdleTyped, IdleShape, QueuedSettled
<1>2. CASE ~Refused("deployment")
    <2>1. /\ store' = [store EXCEPT !["deployment"].owner = spec.uid]
          /\ news' = IF store' = store THEN news ELSE news \cup {"deployment"}
          /\ rec' = [Idle EXCEPT !.pc = "service", !.spec = spec]
          /\ UNCHANGED <<Env, seen>>
        BY <1>2 DEF ApplyDeployment
    <2>2. store \in [Objects -> Kept] /\ spec' = spec
        BY <2>1 DEF RestInv, Inv, TypeOK, Kept, Env
    <2>3. /\ store'["deployment"].owner = spec.uid
          /\ \A x \in Objects \ {"deployment"} : store'[x] = store[x]
        BY <2>1, <2>2, Names DEF Kept
    <2>4. rec'.pc = "service" /\ rec'.spec = spec /\ rec'.want = {} /\ rec'.exposure = "none"
        BY <2>1 DEF Idle
    <2>5. Shape'
        BY <2>4 DEF Shape
    <2>6. Settled'
        BY <2>2, <2>3, <2>4 DEF Settled, Workload, Held, Owned, ModeHeld, ModeGone, RoutesFit,
                                Claims, Passed
    <2> QED BY <2>5, <2>6
<1> QED BY <1>1, <1>2

\* The pass after its Service, by mode.
LEMMA ResolvedShape ==
    ASSUME TypeOK, rec.pc # "idle", rec.want = {}, rec.exposure = "none"
    PROVE  LET s == Resolved
               m == rec.spec.mode
           IN  /\ s.spec = rec.spec /\ s.pc \notin {"idle", "service"}
               /\ m = "Gateway" /\ ~gateway.available =>
                    s.pc = "report" /\ s.exposure = "notInstalled"
               /\ m = "Gateway" /\ gateway.available =>
                    /\ s.pc = "apply" /\ s.todo = s.want /\ s.want \subseteq Routes
                    /\ "main" \in s.want /\ s.exposure = "none"
               /\ m = "Ingress" => s.pc = "apply" /\ s.todo = {"ingress"} /\ s.want = {}
               /\ m = "None" =>
                    /\ s.pc \in {"prune", "dropIngress"}
                    /\ s.pc = "prune" => gateway.available
                    /\ gateway.available =>
                         \A o \in Routes :
                             seen[o].owner = rec.spec.uid => s.pc = "prune" /\ o \in s.todo
<1> DEFINE refs == rec.spec.refs
           u == \E b \in refs : bots[b] = "absent"
           k == \E b \in refs \cap LongNames : bots[b] = "api"
           new == [rec EXCEPT !.unresolved = u, !.skipped = k]
           routes == BuildFreqUIHTTPRoutes(refs)
<1>1. rec \in Recs /\ rec.spec \in Specs /\ rec.spec.mode \in Modes
    BY DEF TypeOK, Recs, Specs
<1>2. u \in BOOLEAN /\ k \in BOOLEAN
    OBVIOUS
<1>3. routes \subseteq Routes /\ "main" \in routes
    BY <1>1, Names DEF BuildFreqUIHTTPRoutes, Specs
<1>4. Resolved =
        CASE rec.spec.mode = "Gateway" /\ ~gateway.available ->
               [new EXCEPT !.pc = "report", !.exposure = "notInstalled"]
          [] rec.spec.mode = "Gateway" /\ gateway.available ->
               [new EXCEPT !.pc = "apply", !.todo = routes, !.want = routes]
          [] rec.spec.mode = "None" -> Listed([new EXCEPT !.exposure = "ok"])
          [] rec.spec.mode = "Ingress" -> [new EXCEPT !.pc = "apply", !.todo = {"ingress"}]
    BY DEF Resolved
<1> HIDE DEF u, k, routes
<1>5. new \in Recs /\ new.spec = rec.spec /\ new.want = {} /\ new.exposure = "none"
    BY <1>1, <1>2 DEF Recs
<1> HIDE DEF new
<1>6. CASE rec.spec.mode = "Gateway" /\ ~gateway.available
    <2>1. Resolved = [new EXCEPT !.pc = "report", !.exposure = "notInstalled"]
        BY <1>4, <1>6
    <2> QED BY <1>5, <1>6, <2>1 DEF Recs
<1>7. CASE rec.spec.mode = "Gateway" /\ gateway.available
    <2>1. Resolved = [new EXCEPT !.pc = "apply", !.todo = routes, !.want = routes]
        BY <1>4, <1>7
    <2> QED BY <1>3, <1>5, <1>7, <2>1 DEF Recs
<1>8. CASE rec.spec.mode = "None"
    <2> DEFINE r == [new EXCEPT !.exposure = "ok"]
    <2>1. r \in Recs /\ r.spec = rec.spec /\ r.want = {}
        BY <1>5 DEF Recs, Reasons
    <2>2. Resolved = Listed(r)
        BY <1>4, <1>8
    <2> HIDE DEF r
    <2> QED BY <1>8, <2>1, <2>2, ListedShape
<1>9. CASE rec.spec.mode = "Ingress"
    <2>1. Resolved = [new EXCEPT !.pc = "apply", !.todo = {"ingress"}]
        BY <1>4, <1>9
    <2> QED BY <1>5, <1>9, <2>1 DEF Recs
<1> QED BY <1>1, <1>6, <1>7, <1>8, <1>9 DEF Modes

\* What holds of a pass that nothing has overtaken, and still does after its next step.
LEMMA PassKeeps ==
    ASSUME RestInv, Inv', Noted, spec' = spec, ~queued', spec.uid # 0
    PROVE  /\ ~queued /\ (rec.pc # "idle" => rec.spec = spec)
           /\ Workload /\ ModeHeld /\ ModeGone /\ RoutesFit
           /\ \A o \in Objects \ {"service"} :
                (Held(o) => Held(o)') /\ (Gone(o) => Gone(o)') /\ (Fit(o) => Fit(o)')
           /\ Owned("service") => Owned("service")'
<1>1. ~queued /\ Inv /\ TypeOK'
    BY DEF Noted, RestInv, Inv
<1>2. /\ rec.pc # "idle" => rec.spec = spec
      /\ Workload /\ ModeHeld /\ ModeGone /\ RoutesFit
    BY <1>1 DEF RestInv, Settled
<1>3. /\ \A o \in Objects \ {"service"} :
           (Held(o) => Held(o)') /\ (Gone(o) => Gone(o)') /\ (Fit(o) => Fit(o)')
      /\ Owned("service") => Owned("service")'
    BY <1>1, NotedKeeps
<1> QED BY <1>1, <1>2, <1>3

\* All objects but the Service are watched.
LEMMA Watched ==
    /\ "deployment" \in Objects \ {"service"} /\ "ingress" \in Objects \ {"service"}
    /\ "main" \in Objects \ {"service"} /\ Routes \subseteq Objects \ {"service"}
BY Names

\* A pass that is refused an object.
LEMMA RefusedSettled ==
    ASSUME RestInv, NEW o, Refused(o) PROVE Shape' /\ Settled'
<1>1. rec' = Idle /\ queued' = TRUE /\ UNCHANGED <<store, seen, news>>
    BY DEF Refused, failReconcile
<1> QED BY <1>1, IdleTyped, IdleShape, QueuedSettled

\* The Service, after which the pass has resolved its bots.
LEMMA ApplyServiceSettled ==
    ASSUME RestInv, Inv', ApplyService PROVE Shape' /\ Settled'
<1>1. CASE Refused("service")
    BY <1>1, RefusedSettled
<1>2. CASE ~Refused("service")
    <2> DEFINE new == [store["service"] EXCEPT !.owner = rec.spec.uid]
    <2>1. /\ Change("service", new) /\ rec' = Resolved /\ rec.pc = "service"
          /\ UNCHANGED <<Env, reports>>
        BY <1>2 DEF ApplyService, Apply
    <2>2. new \in Kept /\ new.owner = rec.spec.uid
        BY <2>1, Names, AppliedTyped DEF RestInv
    <2> HIDE DEF new
    <2>3. Noted /\ store'["service"] = new
        BY <2>1, <2>2, Names, ChangeNoted DEF RestInv, Inv
    <2>4. spec' = spec /\ gateway' = gateway
        BY <2>1 DEF Env
    <2>5. TypeOK /\ rec.want = {} /\ rec.exposure = "none" /\ rec.spec.mode \in Modes
        BY <2>1 DEF RestInv, Inv, Shape, TypeOK, Specs
    <2> DEFINE m == rec.spec.mode
    <2>6. /\ rec'.spec = rec.spec /\ rec'.pc \notin {"idle", "service"}
          /\ m = "Gateway" /\ ~gateway.available =>
               rec'.pc = "report" /\ rec'.exposure = "notInstalled"
          /\ m = "Gateway" /\ gateway.available =>
               /\ rec'.pc = "apply" /\ rec'.todo = rec'.want /\ rec'.want \subseteq Routes
               /\ "main" \in rec'.want /\ rec'.exposure = "none"
          /\ m = "Ingress" => rec'.pc = "apply" /\ rec'.todo = {"ingress"} /\ rec'.want = {}
          /\ m = "None" =>
               /\ rec'.pc \in {"prune", "dropIngress"}
               /\ rec'.pc = "prune" => gateway.available
               /\ gateway.available =>
                    \A o \in Routes :
                        seen[o].owner = rec.spec.uid => rec'.pc = "prune" /\ o \in rec'.todo
        BY <2>1, <2>5, ResolvedShape
    <2>7. Shape'
        BY <2>4, <2>5, <2>6 DEF Shape, Modes
    <2>8. ASSUME ~queued', spec.uid # 0 PROVE Settled'
        <3>1. /\ rec.spec = spec /\ Workload
              /\ \A o \in Objects \ {"service"} : Held(o) => Held(o)'
            BY <2>1, <2>3, <2>4, <2>8, PassKeeps
        <3>2. Workload'
            BY <2>2, <2>3, <2>4, <3>1, Watched DEF Workload, Owned
        <3>3. ASSUME NEW o \in Routes, gateway.available, m = "None" PROVE Gone(o)' \/ Pruning(o)'
            <4>1. CASE seen[o].owner = spec.uid
                BY <2>6, <3>1, <3>3, <4>1 DEF Pruning
            <4>2. CASE seen[o].owner # spec.uid
                BY <2>3, <2>4, <2>8, <4>2, Unlisted DEF RestInv, Inv
            <4> QED BY <4>1, <4>2
        <3>4. ModeHeld'
            BY <2>4, <2>5, <2>6, <3>1 DEF ModeHeld, Passed, Modes
        <3>5. ModeGone'
            BY <2>4, <2>5, <2>6, <3>1, <3>3 DEF ModeGone, Passed, Modes
        <3>6. RoutesFit'
            BY <2>4, <2>6, <3>1 DEF RoutesFit
        <3>7. Claims'
            BY <2>6 DEF Claims
        <3> QED BY <2>4, <2>6, <3>1, <3>2, <3>4, <3>5, <3>6, <3>7 DEF Settled
    <2>9. Settled'
        BY <2>4, <2>8, QueuedSettled
    <2> QED BY <2>3, <2>7, <2>9
<1> QED BY <1>1, <1>2

\* A verdict of ok is about the route just applied and every one before it.
LEMMA ExposedGood ==
    ASSUME TypeOK, NEW o \in Routes, Exposed(o) \in {"none", "ok"}
    PROVE  store[o].health = "good" /\ ~rec.skipped /\ rec.exposure \notin {"pending", "rejected"}
<1>1. o # "ingress" /\ store[o].health \in Healths
    BY Names DEF TypeOK
<1>2. ~rec.skipped
    BY <1>1 DEF Exposed
<1> DEFINE hs == {store[o].health} \cup (IF rec.exposure = "pending" THEN {"pending"} ELSE {})
                                   \cup (IF rec.exposure = "rejected" THEN {"bad"} ELSE {})
<1>3. Exposed(o) = deriveGatewayExposureCondition(hs)
    BY <1>1, <1>2 DEF Exposed
<1>4. "pending" \notin hs /\ "bad" \notin hs
    BY <1>3 DEF deriveGatewayExposureCondition
<1>5. rec.exposure \notin {"pending", "rejected"} /\ store[o].health \notin {"pending", "bad"}
    BY <1>4
<1> QED BY <1>1, <1>2, <1>5 DEF Healths

\* An Ingress or a route is applied.
LEMMA ApplyExposureSettled ==
    ASSUME RestInv, Inv', NEW o \in Objects, ApplyExposure(o) PROVE Shape' /\ Settled'
<1>1. CASE Refused(o)
    BY <1>1, RefusedSettled
<1>2. CASE ~Refused(o)
    <2> DEFINE new == [store[o] EXCEPT !.owner = rec.spec.uid]
               r == [rec EXCEPT !.todo = rec.todo \ {o}, !.exposure = Exposed(o)]
    <2>1. /\ Change(o, new) /\ rec' = IF r.todo = {} THEN Listed(r) ELSE r
          /\ rec.pc = "apply" /\ o \in rec.todo /\ ("main" \in rec.todo => o = "main")
          /\ UNCHANGED <<Env, reports>>
        BY <1>2 DEF ApplyExposure, Apply
    <2>2. new \in Kept /\ new.owner = rec.spec.uid /\ new.health = store[o].health
        <3>1. store[o] \in Kept
            BY DEF RestInv, Inv, TypeOK, Kept
        <3>2. new.health = store[o].health
            BY <3>1 DEF Kept
        <3> QED BY <2>1, <3>2, AppliedTyped DEF RestInv
    <2> HIDE DEF new
    <2>3. Noted /\ store'[o] = new
        BY <2>1, <2>2, ChangeNoted DEF RestInv, Inv
    <2>4. spec' = spec /\ gateway' = gateway
        BY <2>1 DEF Env
    <2>5. rec \in Recs /\ TypeOK /\ TypeOK' /\ Inv
        BY DEF RestInv, Inv, TypeOK, Recs
    <2>6. /\ r \in Recs /\ r.spec = rec.spec /\ r.pc = "apply" /\ r.want = rec.want
          /\ r.todo = rec.todo \ {o} /\ r.exposure = Exposed(o) /\ r.skipped = rec.skipped
        BY <2>1, <2>5, ExposedTyped DEF Recs
    <2> HIDE DEF r
    <2> DEFINE m == rec.spec.mode
    <2>7. CASE m = "Ingress"
        <3>1. o = "ingress" /\ rec.todo = {"ingress"} /\ rec.want = {}
            BY <2>1, <2>7 DEF RestInv, Shape
        <3>2. rec' = Listed(r)
            BY <2>1, <2>6, <3>1
        <3>3. /\ rec'.spec = rec.spec /\ rec'.pc \in {"prune", "report"}
              /\ rec'.pc = "prune" => gateway.available
              /\ gateway.available =>
                   \A x \in Routes :
                       seen[x].owner = rec.spec.uid => rec'.pc = "prune" /\ x \in rec'.todo
            BY <2>6, <2>7, <3>1, <3>2, ListedShape
        <3>4. Shape'
            BY <2>4, <2>7, <3>3 DEF Shape
        <3>5. ASSUME ~queued', spec.uid # 0 PROVE Settled'
            <4>1. /\ rec.spec = spec /\ Workload
                  /\ \A x \in Objects \ {"service"} : Held(x) => Held(x)'
                  /\ Owned("service") => Owned("service")'
                BY <2>1, <2>3, <2>4, <3>5, PassKeeps
            <4>2. Workload'
                BY <2>1, <3>3, <4>1, Watched DEF Workload
            <4>3. ModeHeld'
                BY <2>2, <2>3, <2>4, <2>7, <3>1, <4>1 DEF ModeHeld, Held, Owned
            <4>4. ASSUME NEW x \in Routes, gateway.available PROVE Gone(x)' \/ Pruning(x)'
                <5>1. CASE seen[x].owner = spec.uid
                    BY <3>3, <4>1, <4>4, <5>1 DEF Pruning
                <5>2. CASE seen[x].owner # spec.uid
                    BY <2>3, <2>4, <2>5, <3>5, <5>2, Unlisted
                <5> QED BY <5>1, <5>2
            <4>5. ModeGone'
                BY <2>4, <2>7, <4>1, <4>4 DEF ModeGone
            <4>6. RoutesFit' /\ Claims'
                BY <2>4, <2>7, <3>3, <4>1 DEF RoutesFit, Claims
            <4> QED BY <2>4, <3>3, <4>1, <4>2, <4>3, <4>5, <4>6 DEF Settled
        <3> QED BY <2>3, <2>4, <3>4, <3>5, QueuedSettled
    <2>8. CASE m # "Ingress"
        <3>1. /\ m = "Gateway" /\ gateway.available
              /\ rec.todo \subseteq rec.want /\ rec.want \subseteq Routes /\ "main" \in rec.want
              /\ rec.exposure \in {"none", "ok", "pending", "rejected"} \/ rec.skipped
            BY <2>1, <2>8 DEF RestInv, Shape
        <3>2. o \in Routes
            BY <2>1, <3>1
        <3>3. r.exposure \in Reasons \ {"notInstalled"} /\ (r.exposure = "conflict" => r.skipped)
            BY <2>6, <3>2, Names DEF Exposed, deriveGatewayExposureCondition, Reasons
        <3>4. /\ rec'.spec = rec.spec /\ rec'.want = rec.want /\ rec'.exposure = r.exposure
              /\ rec'.pc \in {"apply", "prune", "dropIngress"}
              /\ rec'.pc = "apply" => rec'.todo = rec.todo \ {o} /\ rec'.skipped = r.skipped
              /\ rec'.pc # "apply" =>
                   /\ rec.todo = {o}
                   /\ \A x \in Routes \ rec.want :
                        seen[x].owner = rec.spec.uid => rec'.pc = "prune" /\ x \in rec'.todo
            <4>1. CASE r.todo = {}
                <5>1. rec' = Listed(r) /\ rec.todo = {o}
                    BY <2>1, <2>6, <4>1
                <5> QED BY <2>6, <2>8, <3>1, <5>1, ListedShape
            <4>2. CASE r.todo # {}
                BY <2>1, <2>6, <4>2
            <4> QED BY <4>1, <4>2
        <3>5. Shape'
            BY <2>4, <3>1, <3>3, <3>4 DEF Shape, Reasons
        <3>6. ASSUME ~queued', spec.uid # 0 PROVE Settled'
            <4>1. /\ rec.spec = spec /\ Workload /\ ModeHeld /\ RoutesFit
                  /\ \A x \in Objects \ {"service"} : (Held(x) => Held(x)') /\ (Fit(x) => Fit(x)')
                  /\ Owned("service") => Owned("service")'
                BY <2>1, <2>3, <2>4, <3>6, PassKeeps
            <4>2. Workload'
                BY <2>1, <3>4, <4>1, Watched DEF Workload
            <4>3. "main" \notin rec.todo \ {o} => Held("main")'
                <5>1. CASE o = "main"
                    BY <2>2, <2>3, <2>4, <4>1, <5>1 DEF Held, Owned
                <5>2. CASE "main" \notin rec.todo
                    BY <2>1, <3>1, <4>1, <5>2, Watched DEF ModeHeld
                <5> QED BY <5>1, <5>2
            <4>4. ModeHeld'
                BY <2>4, <3>1, <3>4, <4>1, <4>3 DEF ModeHeld, Passed
            <4>5. ModeGone'
                BY <2>4, <3>1, <3>4, <4>1 DEF ModeGone
            <4>6. ASSUME rec'.exposure \in {"none", "ok"}, NEW x \in rec.want \ (rec.todo \ {o})
                  PROVE  Fit(x)'
                <5>1. /\ store[o].health = "good"
                      /\ rec.exposure \notin {"pending", "rejected"} /\ ~rec.skipped
                    BY <2>5, <2>6, <3>2, <3>4, <4>6, ExposedGood
                <5>2. CASE x = o
                    BY <2>2, <2>3, <5>1, <5>2 DEF Fit
                <5>3. CASE x # o
                    <6>1. Fit(x)
                        BY <2>1, <3>1, <4>1, <5>1, <5>3 DEF RoutesFit
                    <6> QED BY <3>1, <4>1, <6>1, Watched
                <5> QED BY <5>2, <5>3
            <4>7. ASSUME NEW x \in Routes \ rec.want, rec'.pc # "apply" PROVE Fit(x)' \/ Pruning(x)'
                <5>1. CASE seen[x].owner = spec.uid
                    BY <3>4, <4>1, <4>7, <5>1 DEF Pruning
                <5>2. CASE seen[x].owner # spec.uid
                    BY <2>3, <2>4, <2>5, <3>6, <5>2, Unlisted
                <5> QED BY <5>1, <5>2
            <4>8. RoutesFit'
                <5>1. rec'.pc = "apply" /\ rec'.exposure \in {"none", "ok"}
                        => \A x \in rec'.want \ rec'.todo : Fit(x)'
                    BY <3>4, <4>6
                <5>2. rec'.pc # "apply" /\ rec'.exposure = "ok"
                        => \A x \in Routes : Fit(x)' \/ Pruning(x)'
                    BY <3>4, <4>6, <4>7
                <5> QED BY <3>4, <5>1, <5>2 DEF RoutesFit
            <4>9. Claims'
                BY <3>4 DEF Claims
            <4> QED BY <2>4, <3>4, <4>1, <4>2, <4>4, <4>5, <4>8, <4>9 DEF Settled
        <3> QED BY <2>3, <2>4, <3>5, <3>6, QueuedSettled
    <2> QED BY <2>7, <2>8
<1> QED BY <1>1, <1>2

\* A route the spec no longer wants goes.
LEMMA PruneRouteSettled ==
    ASSUME RestInv, Inv', NEW o \in Objects, PruneRoute(o) PROVE Shape' /\ Settled'
<1> DEFINE pc == IF rec.todo = {o} THEN AfterPrune(rec.spec.mode) ELSE "prune"
<1>1. /\ Change(o, Nothing) /\ rec.pc = "prune" /\ o \in rec.todo
      /\ rec' = [rec EXCEPT !.todo = rec.todo \ {o}, !.pc = pc]
      /\ UNCHANGED <<Env, reports>>
    BY DEF PruneRoute
<1>2. /\ pc \in {"prune", "dropIngress", "report"}
      /\ pc = "dropIngress" => rec.spec.mode # "Ingress"
      /\ pc = "report" => rec.spec.mode = "Ingress"
      /\ pc # "prune" => rec.todo = {o}
    BY DEF AfterPrune
<1> HIDE DEF pc
<1>3. /\ rec'.pc = pc /\ rec'.spec = rec.spec /\ rec'.todo = rec.todo \ {o}
      /\ rec'.exposure = rec.exposure
    BY <1>1 DEF RestInv, Inv, TypeOK
<1>4. Noted /\ store'[o] = Nothing
    BY <1>1, NothingTyped, ChangeNoted DEF RestInv, Inv
<1>5. spec' = spec /\ gateway' = gateway /\ gateway.available
    BY <1>1 DEF Env, RestInv, Shape
<1>6. Shape'
    BY <1>2, <1>3, <1>5 DEF Shape
<1>7. ASSUME ~queued', spec.uid # 0 PROVE Settled'
    <2>1. /\ rec.spec = spec /\ Workload /\ ModeHeld /\ ModeGone /\ RoutesFit
          /\ \A x \in Objects \ {"service"} :
               (Held(x) => Held(x)') /\ (Gone(x) => Gone(x)') /\ (Fit(x) => Fit(x)')
          /\ Owned("service") => Owned("service")'
        BY <1>1, <1>4, <1>5, <1>7, PassKeeps
    <2>2. Workload'
        BY <1>1, <1>2, <1>3, <2>1, Watched DEF Workload
    <2>3. ModeHeld'
        BY <1>1, <1>5, <2>1, Watched DEF ModeHeld, Passed
    <2>4. Gone(o)' /\ Fit(o)'
        BY <1>4, <1>5, <1>7, NothingTyped DEF Gone, Fit, Owned
    <2>5. ASSUME NEW x \in Routes, Pruning(x), x # o PROVE Pruning(x)'
        BY <1>2, <1>3, <2>5 DEF Pruning
    <2>6. ModeGone'
        <3>1. spec.mode # "Gateway" => \A x \in Routes : Gone(x) \/ Pruning(x)
            BY <1>1, <1>5, <2>1 DEF ModeGone, Passed
        <3>2. spec.mode # "Gateway" => \A x \in Routes : Gone(x)' \/ Pruning(x)'
            BY <2>1, <2>4, <2>5, <3>1, Watched
        <3> QED BY <1>2, <1>3, <1>5, <2>1, <3>2 DEF ModeGone
    <2>7. RoutesFit'
        <3>1. spec.mode = "Gateway" /\ rec.exposure = "ok" => \A x \in Routes : Fit(x) \/ Pruning(x)
            BY <1>1, <1>5, <2>1 DEF RoutesFit
        <3>2. spec.mode = "Gateway" /\ rec.exposure = "ok"
                => \A x \in Routes : Fit(x)' \/ Pruning(x)'
            BY <2>1, <2>4, <2>5, <3>1, Watched
        <3> QED BY <1>2, <1>3, <1>5, <3>2 DEF RoutesFit
    <2>8. Claims'
        BY <1>2, <1>3 DEF Claims
    <2> QED BY <1>2, <1>3, <1>5, <2>1, <2>2, <2>3, <2>6, <2>7, <2>8 DEF Settled
<1> QED BY <1>4, <1>5, <1>6, <1>7, QueuedSettled

\* So does the Ingress, in the modes without one.
LEMMA deleteOwnedIngressSettled ==
    ASSUME RestInv, Inv', deleteOwnedIngress PROVE Shape' /\ Settled'
<1>1. /\ \/ seen["ingress"].owner = rec.spec.uid /\ Change("ingress", Nothing)
         \/ seen["ingress"].owner # rec.spec.uid /\ UNCHANGED <<store, seen, news, queued>>
      /\ rec.pc = "dropIngress" /\ rec' = [rec EXCEPT !.pc = "report"]
      /\ UNCHANGED <<Env, reports>>
    BY DEF deleteOwnedIngress
<1>2. rec'.pc = "report" /\ rec'.spec = rec.spec /\ rec'.exposure = rec.exposure
    BY <1>1 DEF RestInv, Inv, TypeOK
<1>3. spec' = spec /\ gateway' = gateway
    BY <1>1 DEF Env
<1>4. Noted
    <2>1. CASE Change("ingress", Nothing)
        BY <2>1, Names, NothingTyped, ChangeNoted DEF RestInv, Inv
    <2>2. CASE UNCHANGED <<store, seen, news, queued>>
        BY <2>2 DEF Noted
    <2> QED BY <1>1, <2>1, <2>2
<1>5. Shape'
    BY <1>1, <1>2, <1>3 DEF RestInv, Shape
<1>6. ASSUME ~queued', spec.uid # 0 PROVE Settled'
    <2>1. /\ rec.spec = spec /\ Workload /\ ModeHeld /\ ModeGone /\ RoutesFit
          /\ \A x \in Objects \ {"service"} :
               (Held(x) => Held(x)') /\ (Gone(x) => Gone(x)') /\ (Fit(x) => Fit(x)')
          /\ Owned("service") => Owned("service")'
        BY <1>1, <1>3, <1>4, <1>6, PassKeeps
    <2>2. Workload'
        BY <1>1, <1>2, <2>1, Watched DEF Workload
    <2>3. ModeHeld'
        BY <1>1, <1>3, <2>1, Watched DEF ModeHeld, Passed
    <2>4. Gone("ingress")'
        <3>1. CASE Change("ingress", Nothing)
            <4>1. store'["ingress"] = Nothing
                BY <3>1, Names, NothingTyped, ChangeNoted DEF RestInv, Inv
            <4> QED BY <1>3, <1>6, <4>1, NothingTyped DEF Gone, Owned
        <3>2. CASE seen["ingress"].owner # rec.spec.uid
            <4>1. Gone("ingress")
                BY <2>1, <3>2, Names DEF RestInv, Inv, InSync, Gone, Owned
            <4> QED BY <2>1, <4>1, Watched
        <3> QED BY <1>1, <3>1, <3>2
    <2>5. ModeGone'
        <3>1. spec.mode # "Gateway" /\ gateway.available => \A x \in Routes : Gone(x)
            BY <1>1, <2>1 DEF ModeGone, Passed, Pruning
        <3> QED BY <1>3, <2>1, <2>4, <3>1, Watched DEF ModeGone
    <2>6. RoutesFit'
        <3>1. spec.mode = "Gateway" /\ gateway.available /\ rec.exposure = "ok"
                => \A x \in Routes : Fit(x)
            BY <1>1, <2>1 DEF RoutesFit, Pruning
        <3> QED BY <1>2, <1>3, <2>1, <3>1, Watched DEF RoutesFit
    <2>7. Claims'
        BY <1>2 DEF Claims
    <2> QED BY <1>2, <1>3, <2>1, <2>2, <2>3, <2>5, <2>6, <2>7 DEF Settled
<1> QED BY <1>3, <1>4, <1>5, <1>6, QueuedSettled

\* The verdict is about the objects as the pass left them, and about the Deployment as the
\* informer shows it, which is as it is unless an event is on the way.
LEMMA ReportSettled == ASSUME RestInv, Inv', Report PROVE Shape' /\ Settled'
<1>1. /\ UNCHANGED <<Env, store, seen, news>> /\ rec' = Idle /\ rec.pc = "report"
      /\ rec'.pc = "idle"
    BY IdleTyped DEF Report, failReconcile
<1>2. Shape'
    BY <1>1, IdleShape
<1>3. ASSUME ~queued', spec.uid # 0 PROVE Settled'
    <2> DEFINE up == seen["deployment"].health = "good"
               w == IF up THEN "healthy" ELSE "progressing"
               url == IF up THEN deriveFreqUIURL(rec.spec.mode) ELSE ""
    <2>1. /\ queued' = queued
          /\ ~lost' => /\ status'.ready = aggregateReadyCondition(w, rec.exposure)
                       /\ status'.url = url
        <3>1. ~(rec' = Idle /\ queued' = TRUE)
            BY <1>3
        <3>2. /\ queued' = queued
              /\ ~lost' =>
                   status' = [workload |-> w, exposure |-> rec.exposure,
                              resolved |-> IF rec.unresolved THEN "no" ELSE "yes",
                              ready |-> aggregateReadyCondition(w, rec.exposure),
                              observed |-> TRUE, url |-> url,
                              phase |-> deriveFreqUIPhase(w, rec.exposure)]
            BY <3>1 DEF Report, failReconcile, Stored
        <3> HIDE DEF w, url
        <3> QED BY <3>2
    <2> DEFINE claimed == status'.ready /\ ~lost'
    <2>2. claimed => up /\ rec.exposure = "ok" /\ status'.url = rec.spec.mode
        BY <2>1 DEF aggregateReadyCondition, deriveFreqUIURL
    <2> HIDE DEF up, w, url
    <2>3. spec' = spec /\ gateway' = gateway
        BY <1>1 DEF Env
    <2>4. Noted
        BY <1>1, <2>1 DEF Noted
    <2>5. /\ rec.spec = spec /\ Workload /\ ModeHeld /\ ModeGone /\ RoutesFit
          /\ \A x \in Objects \ {"service"} :
               (Held(x) => Held(x)') /\ (Gone(x) => Gone(x)') /\ (Fit(x) => Fit(x)')
          /\ Owned("service") => Owned("service")'
        BY <1>1, <1>3, <2>3, <2>4, PassKeeps
    <2>6. Workload' /\ ModeHeld'
        BY <1>1, <2>3, <2>5, Watched DEF Workload, ModeHeld, Passed
    <2>7. ModeGone'
        <3>1. spec.mode # "Gateway" /\ gateway.available => \A x \in Routes : Gone(x)
            BY <1>1, <2>5 DEF ModeGone, Passed, Pruning
        <3> QED BY <1>1, <2>3, <2>5, <3>1, Watched DEF ModeGone
    <2>8. RoutesFit'
        <3>1. spec.mode = "Gateway" /\ gateway.available /\ rec.exposure = "ok"
                => \A x \in Routes : Fit(x)
            BY <1>1, <2>5 DEF RoutesFit, Pruning
        <3> QED BY <1>1, <2>2, <2>3, <2>5, <3>1, Watched DEF RoutesFit
    <2>9. Claims'
        <3>1. claimed => Fit("deployment")
            BY <2>2, Names DEF RestInv, Inv, InSync, Fit, up
        <3>2. claimed /\ spec.mode = "Gateway" => gateway.available
            BY <1>1, <2>2, <2>5 DEF RestInv, Shape
        <3> QED BY <2>2, <2>3, <2>5, <3>1, <3>2, Watched DEF Claims
    <2> QED BY <1>1, <2>6, <2>7, <2>8, <2>9 DEF Settled
<1> QED BY <1>1, <1>2, <1>3, QueuedSettled DEF Env

\* A change of one object by others.
LEMMA ChangeSettled ==
    ASSUME RestInv, Inv', NEW o \in Objects, NEW new \in Kept, Change(o, new),
           UNCHANGED <<spec, rec, reports, gateway>>
    PROVE  Shape' /\ Settled'
<1>1. Noted
    BY ChangeNoted DEF RestInv, Inv
<1> QED BY <1>1, OthersSettled DEF reports

\* A step that queues a pass.
LEMMA WakeSettled ==
    ASSUME RestInv, queued' = TRUE,
           rec'.pc = "idle" \/ UNCHANGED <<rec, gateway>>
    PROVE  Shape' /\ Settled'
<1>1. Shape'
    BY IdleShape DEF RestInv, Shape
<1> QED BY <1>1, QueuedSettled

\* The invariant of the resting state is inductive.
LEMMA NextSettled == RestInv /\ [Next]_vars => RestInv'
<1> SUFFICES ASSUME RestInv, [Next]_vars PROVE RestInv'
    OBVIOUS
<1>0. Inv' /\ store \in [Objects -> Kept]
    BY NextInv DEF RestInv, Inv, TypeOK, Kept
<1> SUFFICES Shape' /\ Settled'
    BY <1>0 DEF RestInv
<1>1. CASE Fetch
    <2>1. UNCHANGED <<rec, gateway>> /\ spec'.uid = 0
        BY <1>1 DEF Fetch, Env
    <2>2. Shape'
        BY <2>1 DEF RestInv, Shape
    <2> QED BY <2>1, <2>2, QueuedSettled
<1>2. CASE ApplyDeployment \/ ApplyService \/ deleteOwnedIngress \/ Report
           \/ \E o \in Objects : ApplyExposure(o) \/ PruneRoute(o)
    BY <1>0, <1>2, ApplyDeploymentSettled, ApplyServiceSettled, deleteOwnedIngressSettled,
       ReportSettled, ApplyExposureSettled, PruneRouteSettled
<1>3. CASE RequestFails
    <2>1. queued' = TRUE /\ rec'.pc = "idle"
        BY <1>3, IdleTyped DEF RequestFails, failReconcile
    <2> QED BY <2>1, WakeSettled
<1>4. CASE TimerFires \/ EditSpec \/ DeleteFreqUI \/ CreateFreqUI
    <2>1. UNCHANGED <<rec, gateway>> /\ queued' = TRUE
        BY <1>4 DEF TimerFires, EditSpec, DeleteFreqUI, CreateFreqUI, Env
    <2> QED BY <2>1, WakeSettled
<1>5. CASE Restart
    <2>1. queued' = TRUE /\ rec'.pc = "idle"
        BY <1>5, IdleTyped DEF Restart
    <2> QED BY <2>1, IdleShape, QueuedSettled
<1>6. CASE StatusSync \/ InstallGatewayAPI \/ (\E b \in Bots : BotChanges(b)) \/ UNCHANGED vars
    <2>1. UNCHANGED <<spec, status, lost, store, seen, news, rec, queued>>
        BY <1>6 DEF StatusSync, InstallGatewayAPI, BotChanges, vars, Env, reports
    <2>2. gateway'.available = gateway.available
        BY <1>6 DEF StatusSync, InstallGatewayAPI, BotChanges, vars, Env, RestInv, Inv, TypeOK
    <2>3. Noted
        BY <2>1 DEF Noted
    <2> QED BY <1>0, <2>1, <2>2, <2>3, OthersSettled
<1>7. ASSUME NEW o \in Objects, Deliver(o) PROVE Shape' /\ Settled'
    <2>1. queued' = TRUE /\ UNCHANGED <<rec, gateway>>
        BY <1>7 DEF Deliver, Env
    <2> QED BY <2>1, WakeSettled
<1>8. ASSUME NEW o \in Objects, CollectGarbage(o) \/ UserDeletes(o)
      PROVE  Shape' /\ Settled'
    <2>1. Change(o, Nothing) /\ UNCHANGED <<spec, rec, reports, gateway>>
        BY <1>8 DEF CollectGarbage, UserDeletes, Env
    <2> QED BY <1>0, <2>1, NothingTyped, ChangeSettled
<1>9. ASSUME NEW o \in Objects, HealthChanges(o) PROVE Shape' /\ Settled'
    <2>1. PICK h \in Healths : Change(o, [store[o] EXCEPT !.health = h])
        BY <1>9 DEF HealthChanges
    <2>2. UNCHANGED <<spec, rec, reports, gateway>>
        BY <1>9 DEF HealthChanges
    <2>3. PICK new \in Kept : new = [store[o] EXCEPT !.health = h]
        BY <1>0 DEF Kept
    <2> QED BY <1>0, <2>1, <2>2, <2>3, ChangeSettled
<1>10. ASSUME NEW o \in Routes, RivalApplies(o) PROVE Shape' /\ Settled'
    <2>1. Change(o, [store[o] EXCEPT !.owner = Rival]) /\ UNCHANGED <<spec, rec, reports, gateway>>
        BY <1>10 DEF RivalApplies, Env
    <2>2. PICK new \in Kept : new = [store[o] EXCEPT !.owner = Rival]
        BY <1>0, Names, OwnersTyped DEF Kept
    <2> QED BY <1>0, <2>1, <2>2, Names, ChangeSettled
<1>11. ASSUME NEW o \in Exposure, NEW owner \in {User, Other}, OtherCreates(o, owner)
       PROVE  Shape' /\ Settled'
    <2>1. /\ Change(o, [owner |-> owner, health |-> "pending"])
          /\ UNCHANGED <<spec, rec, reports, gateway>>
        BY <1>11 DEF OtherCreates
    <2>2. [owner |-> owner, health |-> "pending"] \in Kept /\ o \in Objects
        BY OwnersTyped, Names DEF Kept, Healths
    <2> QED BY <1>0, <2>1, <2>2, ChangeSettled
<1> QED BY <1>1, <1>2, <1>3, <1>4, <1>5, <1>6, <1>7, <1>8, <1>9, <1>10, <1>11 DEF Next, Pass

\* It holds throughout.
LEMMA RestInvariance == Spec => []RestInv
<1>1. Init => RestInv
    <2> SUFFICES ASSUME Init PROVE Shape /\ Settled
        BY InitInv DEF RestInv
    <2>1. rec.pc = "idle" /\ queued = TRUE
        BY IdleTyped DEF Init
    <2> QED BY <2>1 DEF Shape, Settled
<1> QED BY <1>1, NextSettled, PTL DEF Spec

\* At rest no event of a watched object is on the way.
LEMMA RestQuiet ==
    ASSUME RestInv, Rest
    PROVE  /\ rec.pc = "idle" /\ "deployment" \notin news /\ "ingress" \notin news
           /\ gateway.available => \A o \in Routes : o \notin news
           /\ Workload /\ ModeHeld /\ ModeGone /\ RoutesFit /\ Claims
<1>1. /\ rec.pc = "idle" /\ ~queued /\ spec.uid # 0
      /\ \A o \in news : o \in Routes /\ ~gateway.available
    BY DEF Rest
<1>2. "deployment" \notin news /\ "ingress" \notin news
    BY <1>1, Names
<1> QED BY <1>1, <1>2 DEF RestInv, Settled

\* At rest the FreqUI has exactly its own mode's exposure, for any bots, any number of
\* FreqUIs of the name, of mode changes, failed passes, restarts and deletions: whatever a
\* pass did not see is in an event that queues another one (reconcileExposure,
\* main.go:345-438).
THEOREM RestClean == Spec => []RestIsClean
<1>1. RestInv => RestIsClean
    <2> SUFFICES ASSUME RestInv, Rest
                 PROVE  /\ spec.mode = "Ingress" => Owned("ingress")
                        /\ spec.mode = "None" => ~Owned("ingress")
                        /\ spec.mode = "Gateway" /\ gateway.available =>
                             Owned("main") /\ ~Owned("ingress")
                        /\ spec.mode # "Gateway" /\ gateway.available =>
                             \A o \in Routes : ~Owned(o)
        BY DEF RestIsClean
    <2>1. /\ rec.pc = "idle" /\ "ingress" \notin news
          /\ gateway.available => \A o \in Routes : o \notin news
          /\ ModeHeld /\ ModeGone
        BY RestQuiet
    <2> QED BY <2>1, Names DEF ModeHeld, ModeGone, Held, Gone, Pruning, Passed
<1> QED BY <1>1, RestInvariance, PTL

\* Ready is never claimed on old evidence, for any bots and any number of upsets: at rest it
\* means a Deployment that is up, the workload's Service, the URL of the mode, and in
\* Gateway mode routes that are all accepted (Report, Exposed, aggregateReadyCondition).
\* Where PatchStatus dropped the last report because a late copy of the status had it
\* already, nothing is claimed of the one that stands.
THEOREM ReadyCorrect == Spec => []ReadyIsTrue
<1>1. RestInv => ReadyIsTrue
    <2> SUFFICES ASSUME RestInv, Rest, status.ready, ~lost
                 PROVE  /\ Owned("deployment") /\ store["deployment"].health = "good"
                        /\ Owned("service") /\ status.url = spec.mode
                        /\ spec.mode = "Gateway" =>
                             /\ gateway.available
                             /\ \A o \in Routes : Owned(o) => store[o].health = "good"
        BY DEF ReadyIsTrue
    <2>1. /\ rec.pc = "idle" /\ "deployment" \notin news
          /\ gateway.available => \A o \in Routes : o \notin news
          /\ Workload /\ RoutesFit /\ Claims
        BY RestQuiet
    <2>2. Owned("deployment") /\ Owned("service")
        BY <2>1 DEF Workload, Held
    <2>3. Fit("deployment") /\ status.url = spec.mode
          /\ (spec.mode = "Gateway" => gateway.available)
        BY <2>1 DEF Claims
    <2>4. spec.mode = "Gateway" => \A o \in Routes : Fit(o)
        BY <2>1, <2>3 DEF RoutesFit
    <2> QED BY <2>1, <2>2, <2>3, <2>4 DEF Fit
<1> QED BY <1>1, RestInvariance, PTL
===============================================================================
