-------------------------------- MODULE FreqUI --------------------------------
(***************************************************************************)
(* The FreqUI reconciler (controllers/frequi): one FreqUI, the Deployment,  *)
(* Service, Ingress and HTTPRoutes it keeps, the informers it reads them    *)
(* from, the TradeBots it routes to (which it does not watch), and operator *)
(* restarts, at which alone it looks for Gateway API.  A pass is a sequence *)
(* of steps, one per request to the API server.                             *)
(***************************************************************************)
EXTENDS Naturals, FiniteSets

CONSTANTS
    Bots,       \* names of TradeBots the spec may refer to
    LongNames,  \* bots whose HTTPRoute name would be over-long
    MaxUids,    \* bound on how often the FreqUI is created
    LaterModes, \* the exposure modes it is created with after the first time
    MaxUpsets   \* bound on what users and other controllers do, failures and restarts

ASSUME FreqUIAssumption ==
    /\ LongNames \subseteq Bots /\ Bots \cap {"deployment", "service", "ingress", "main"} = {}
    /\ MaxUids \in Nat \ {0} /\ MaxUpsets \in Nat
    /\ LaterModes \subseteq {"Ingress", "Gateway", "None"}

VARIABLES
    spec,       \* the FreqUI: uid 0 when it does not exist
    status,     \* its status subresource
    statusSeen, \* that, in the informer's copy of the FreqUI
    lost,       \* the last report was dropped: a late copy had it already
    bots,       \* per bot: absent, without an enabled API server, or with one
    store,      \* the child objects at the API server
    seen,       \* the informers' copies of them
    news,       \* objects with events of an owned version still to deliver
    rival,      \* the routes whose names another FreqUI generates too
    gateway,    \* Gateway API: installed in the cluster, available to this process
    replaced,   \* objects that others put in place, as far as the pass cannot know
    rec,        \* the pass in progress
    queued,     \* the FreqUI's key is in the work queue
    timer,      \* a RequeueAfter is pending
    uids, upsets

reports == <<status, statusSeen, lost>>
vars == <<spec, reports, bots, store, seen, news, rival, gateway, replaced, rec, queued, timer,
          uids, upsets>>

\* An over-long name is no object's.
Routes == {"main"} \cup (Bots \ LongNames)
Exposure == {"ingress"} \cup Routes
Objects == {"deployment", "service"} \cup Exposure
Modes == {"Ingress", "Gateway", "None"}

\* An object's controller: this FreqUI's uid, nobody (a user made it), another
\* FreqUI, or a controller that is not this operator.  0 stands for no object.
\* Health is what other controllers report in its status: a Deployment's replicas,
\* a route's parents.
User == MaxUids + 1
Rival == MaxUids + 2
Other == MaxUids + 3
Owners == 0..Other
Healths == {"pending", "good", "bad"}
Nothing == [owner |-> 0, health |-> "pending"]

Specs == [uid: 0..MaxUids, mode: Modes, refs: SUBSET Bots]

\* observed: the observedGeneration is that of the spec.
Reasons == {"none", "ok", "notInstalled", "conflict", "pending", "rejected"}
Statuses == [workload: {"none", "healthy", "progressing", "error"}, exposure: Reasons,
             resolved: {"none", "yes", "no"}, ready: BOOLEAN, observed: BOOLEAN, url: Modes \cup {""},
             phase: {"", "Initializing", "Pending", "Running", "Degraded", "ResourceError"}]
Fresh == [workload |-> "none", exposure |-> "none", resolved |-> "none", ready |-> FALSE,
          observed |-> FALSE, url |-> "", phase |-> ""]

Pcs == {"idle", "service", "apply", "prune", "dropIngress", "report"}
Idle == [pc |-> "idle", spec |-> [uid |-> 0, mode |-> "None", refs |-> {}], todo |-> {},
         want |-> {}, unresolved |-> FALSE, skipped |-> FALSE, exposure |-> "none"]

TypeOK ==
    /\ spec \in Specs /\ status \in Statuses /\ statusSeen \in Statuses /\ lost \in BOOLEAN
    /\ bots \in [Bots -> {"absent", "noapi", "api"}]
    /\ store \in [Objects -> [owner: Owners, health: Healths]]
    /\ seen \in [Objects -> [owner: Owners, health: Healths]]
    /\ news \subseteq Objects \ {"service"} /\ rival \subseteq Routes /\ replaced \subseteq Objects
    /\ gateway \in [installed: BOOLEAN, available: BOOLEAN]
    /\ rec \in [pc: Pcs, spec: Specs, todo: SUBSET Objects, want: SUBSET Objects,
                unresolved: BOOLEAN, skipped: BOOLEAN, exposure: Reasons]
    /\ queued \in BOOLEAN /\ timer \in BOOLEAN
    /\ uids \in 0..MaxUids /\ upsets \in 0..MaxUpsets

-------------------------------------------------------------------------------
\* Changes of objects and how the informers hear of them.

Mine(object) == object.owner \in 1..MaxUids

\* An object at the API server becomes new (Nothing when deleted).  A version
\* with this FreqUI's name as its owner makes an event for it.  Nothing reads
\* the Service's copy, so its event counts as delivered at once.
Change(o, new) ==
    /\ store' = [store EXCEPT ![o] = new]
    /\ LET owned == new # store[o] /\ (Mine(store[o]) \/ Mine(new))
           lags == owned /\ o # "service"
       IN  /\ news' = IF lags THEN news \cup {o} ELSE news
           /\ seen' = IF lags THEN seen ELSE [seen EXCEPT ![o] = IF o \in news THEN @ ELSE new]
           /\ queued' = (queued \/ (owned /\ o = "service"))

-------------------------------------------------------------------------------
\* What the status says (deriveFreqUIPhase, aggregateReadyCondition).

deriveFreqUIPhase(workload, exposure) ==
    CASE workload = "none" -> "Initializing"
      [] workload = "healthy" -> IF exposure \notin {"none", "ok"} THEN "Degraded" ELSE "Running"
      [] workload = "error" -> "ResourceError"
      [] OTHER -> "Pending"

aggregateReadyCondition(workload, exposure) == workload = "healthy" /\ exposure = "ok"

\* A route without a parent's verdict makes the whole exposure pending; else one
\* that every parent rejected makes it rejected.
deriveGatewayExposureCondition(healths) ==
    IF "pending" \in healths THEN "pending" ELSE IF "bad" \in healths THEN "rejected" ELSE "ok"

\* Mutant: a cluster-local address, whatever the mode.
URLClusterLocal(mode) == "cluster.local"

\* The host the mode serves the UI on: the Service's own in None mode, the main
\* host of the spec otherwise.
deriveFreqUIURL(mode) == mode

BuildFreqUIHTTPRoutes(refs) ==
    {"main"} \cup {b \in refs \ LongNames : bots[b] = "api"}

\* What the FreqUI should have now: the names of its exposure objects.
Exposing(mode) ==
    CASE mode = "Ingress" -> {"ingress"}
      [] mode = "Gateway" -> BuildFreqUIHTTPRoutes(spec.refs)
      [] mode = "None" -> {}
Desired == Exposing(spec.mode)

\* The manager starts, on a FreqUI that has just been created in a cluster that
\* may hold one object of a name it would use, a user's or another controller's;
\* or on one that an earlier process has brought up, in the mode it has now or, the
\* exposure having been turned off while no process ran, in another.  Two FreqUIs can only meet in
\* the name of a route: a bot's route is FreqUI and bot joined by a hyphen.
New ==
    /\ status = Fresh
    /\ \E o \in Exposure, w \in {0, User, Rival, Other} :
         /\ o \in Routes => gateway.installed
         /\ w = Rival => o \in Routes
         /\ store = [[x \in Objects |-> Nothing] EXCEPT ![o].owner = w]
         /\ rival = IF w = Rival THEN {o} ELSE {}

Up ==
    /\ rival = {}
    /\ \E m \in Modes :
         /\ spec.mode \in {m, "None"}
         /\ m = "Gateway" => gateway.installed
         /\ status = [workload |-> "healthy", exposure |-> "ok", resolved |-> "yes",
                      ready |-> TRUE, observed |-> m = spec.mode,
                      url |-> deriveFreqUIURL(m), phase |-> "Running"]
         /\ store = [o \in Objects |->
                       IF o \in {"deployment", "service"} \cup Exposing(m)
                       THEN [owner |-> spec.uid, health |-> "good"] ELSE Nothing]

Init ==
    /\ spec \in [uid: {1}, mode: Modes, refs: {Bots \ LongNames}]
    /\ bots = [b \in Bots |-> "api"]
    /\ \E on \in BOOLEAN : gateway = [installed |-> on, available |-> on]
    /\ New \/ Up
    /\ seen = store /\ news = {} /\ statusSeen = status /\ lost = FALSE /\ replaced = {}
    /\ rec = Idle /\ queued = TRUE /\ timer = FALSE
    /\ uids = 1 /\ upsets = 0

-------------------------------------------------------------------------------
\* The pass.  A step is one request to the API server with the reads of the
\* cache that come before it.

Env == <<spec, bots, rival, gateway, uids>>
Upset == upsets < MaxUpsets /\ upsets' = upsets + 1

\* PatchStatus changes the informer's copy of the FreqUI and stores the result.  A
\* late copy that comes out unchanged counts as success, and nothing is stored;
\* one that does not, or no FreqUI, is an error, once the retries are used up.
Stored(new) == spec.uid # 0 /\ statusSeen = status /\ status' = new
Skipped(new) ==
    spec.uid # 0 /\ statusSeen # status /\ new = statusSeen /\ UNCHANGED status
Conflict(new) ==
    spec.uid = 0 \/ (statusSeen # status /\ new # statusSeen)

\* failReconcile: the other conditions and the URL stay as they were; the error
\* returned queues the FreqUI again, whether or not the status was stored.
failReconcile ==
    /\ LET new == [statusSeen EXCEPT !.workload = "error", !.ready = FALSE, !.observed = TRUE,
                                     !.phase = deriveFreqUIPhase("error", statusSeen.exposure)]
       IN  Stored(new) \/ ((Skipped(new) \/ Conflict(new)) /\ UNCHANGED status)
    /\ rec' = Idle /\ queued' = TRUE
    /\ UNCHANGED <<statusSeen, lost>>

\* shared.Apply: server-side apply with the FreqUI of this pass as controller.
\* The owner reference of another FreqUI, or of an earlier one of this name, was
\* applied by the same field manager and is replaced; an object without a
\* controller is adopted; one that another manager gave a controller would have
\* two, and is refused by the API server.
Free(o) == store[o].owner # Other
Apply(o, uid) == Free(o) /\ Change(o, [store[o] EXCEPT !.owner = uid])
Refused(o) == ~Free(o) /\ failReconcile /\ UNCHANGED <<store, seen, news>>

\* The FreqUI is fetched (nothing to do when it is gone) and the Deployment
\* applied.  The cached FreqUI is as new as its last event.  From here on the pass
\* cannot know what others put in place; what the informers have yet to report it
\* does not know already.
Fetch ==
    /\ rec.pc = "idle" /\ queued /\ spec.uid = 0
    /\ queued' = FALSE
    /\ UNCHANGED <<Env, reports, store, seen, news, replaced, rec, timer, upsets>>

ApplyDeployment ==
    /\ rec.pc = "idle" /\ queued /\ spec.uid # 0
    /\ \/ /\ Free("deployment")
          /\ store' = [store EXCEPT !["deployment"].owner = spec.uid]
          /\ news' = IF store' = store THEN news ELSE news \cup {"deployment"}
          /\ queued' = FALSE
          /\ rec' = [Idle EXCEPT !.pc = "service", !.spec = spec]
          /\ lost' = FALSE
          /\ UNCHANGED <<status, statusSeen, seen>>
       \/ Refused("deployment")
    /\ replaced' = replaced \cap news
    /\ UNCHANGED <<Env, timer, upsets>>

\* Mutant: the label alone decides.
PrunableByLabel(o, want, uid) == o \in Routes \ want /\ seen[o].owner \in 1..User

\* Mutant: nothing is pruned.
PrunableNever(o, want, uid) == FALSE

\* pruneHTTPRoutes lists the informer's routes with the FreqUI's label (a user's
\* route may carry it) and keeps those it controls and does not want.
Prunable(o, want, uid) == o \in Routes \ want /\ seen[o].owner = uid

AfterPrune(mode) == IF mode = "Ingress" THEN "report" ELSE "dropIngress"

\* The pass with its exposure objects applied, or none to apply, as it goes on.
Listed(r) ==
    LET stale == IF gateway.available
                 THEN {o \in Routes : Prunable(o, r.want, r.spec.uid)} ELSE {}
    IN  [r EXCEPT !.todo = stale,
                  !.pc = IF stale = {} THEN AfterPrune(r.spec.mode) ELSE "prune"]

\* The Service is applied and the TradeBotRefs become routes, where the bot's
\* config is Valid and enables the API server; reconcileExposure then decides
\* what the mode needs.
Resolved ==
    LET refs == rec.spec.refs
        new == [rec EXCEPT !.unresolved = \E b \in refs : bots[b] = "absent",
                           !.skipped = \E b \in refs \cap LongNames : bots[b] = "api"]
        routes == BuildFreqUIHTTPRoutes(refs)
    IN  CASE rec.spec.mode = "Gateway" /\ ~gateway.available ->
               [new EXCEPT !.pc = "report", !.exposure = "notInstalled"]
          [] rec.spec.mode = "Gateway" /\ gateway.available ->
               [new EXCEPT !.pc = "apply", !.todo = routes, !.want = routes]
          [] rec.spec.mode = "None" -> Listed([new EXCEPT !.exposure = "ok"])
          [] rec.spec.mode = "Ingress" -> [new EXCEPT !.pc = "apply", !.todo = {"ingress"}]

ApplyService ==
    /\ rec.pc = "service"
    /\ \/ /\ Apply("service", rec.spec.uid)
          /\ rec' = Resolved
          /\ UNCHANGED reports
       \/ Refused("service")
    /\ UNCHANGED <<Env, replaced, timer, upsets>>

\* One object of the exposure, the main route first.  The answer to the apply of
\* a route carries the status its Gateway controller has written; a route whose
\* name is too long to apply makes the verdict a conflict.
Exposed(o) ==
    CASE o = "ingress" -> "ok"
      [] o # "ingress" /\ rec.skipped -> "conflict"
      [] o # "ingress" /\ ~rec.skipped ->
           deriveGatewayExposureCondition(
             {store[o].health} \cup (IF rec.exposure = "pending" THEN {"pending"} ELSE {})
                               \cup (IF rec.exposure = "rejected" THEN {"bad"} ELSE {}))

ApplyExposure(o) ==
    /\ rec.pc = "apply" /\ o \in rec.todo /\ ("main" \in rec.todo => o = "main")
    /\ \/ /\ Apply(o, rec.spec.uid)
          /\ LET new == [rec EXCEPT !.todo = @ \ {o}, !.exposure = Exposed(o)]
             IN  rec' = IF new.todo = {} THEN Listed(new) ELSE new
          /\ UNCHANGED reports
       \/ Refused(o)
    /\ UNCHANGED <<Env, replaced, timer, upsets>>

\* Delete carries no precondition: whatever has the name by now is deleted.
PruneRoute(o) ==
    /\ rec.pc = "prune" /\ o \in rec.todo
    /\ Change(o, Nothing)
    /\ rec' = [rec EXCEPT !.todo = @ \ {o},
                          !.pc = IF rec.todo = {o} THEN AfterPrune(rec.spec.mode) ELSE "prune"]
    /\ UNCHANGED <<Env, reports, replaced, timer, upsets>>

deleteOwnedIngress ==
    /\ rec.pc = "dropIngress"
    /\ IF seen["ingress"].owner = rec.spec.uid
       THEN Change("ingress", Nothing) ELSE UNCHANGED <<store, seen, news, queued>>
    /\ rec' = [rec EXCEPT !.pc = "report"]
    /\ UNCHANGED <<Env, reports, replaced, timer, upsets>>

\* The Deployment is read through the informer, which may not have it yet; then
\* PatchStatus re-reads the FreqUI by name, which may be another by now, or gone.
\* A report that counts as success ends the pass, with the periodic one to follow.
Report ==
    /\ rec.pc = "report"
    /\ LET up == seen["deployment"].health = "good"
           w == IF up THEN "healthy" ELSE "progressing"
           new == [workload |-> w, exposure |-> rec.exposure,
                   resolved |-> IF rec.unresolved THEN "no" ELSE "yes",
                   ready |-> aggregateReadyCondition(w, rec.exposure), observed |-> TRUE,
                   url |-> IF up THEN deriveFreqUIURL(rec.spec.mode) ELSE "",
                   phase |-> deriveFreqUIPhase(w, rec.exposure)]
       IN  \/ /\ seen["deployment"].owner = 0
              /\ failReconcile
              /\ UNCHANGED timer
           \/ /\ seen["deployment"].owner # 0
              /\ \/ Stored(new) /\ lost' = FALSE
                 \/ Skipped(new) /\ lost' = TRUE
              /\ timer' = TRUE /\ rec' = Idle
              /\ UNCHANGED <<statusSeen, queued>>
           \/ /\ seen["deployment"].owner # 0 /\ Conflict(new)
              /\ rec' = Idle /\ queued' = TRUE
              /\ UNCHANGED <<reports, timer>>
    /\ UNCHANGED <<Env, store, seen, news, replaced, upsets>>

\* A request fails, and the status patch that reports it may fail too.
RequestFails ==
    /\ rec.pc # "idle" \/ (queued /\ spec.uid # 0)
    /\ Upset
    /\ failReconcile \/ (rec' = Idle /\ queued' = TRUE /\ UNCHANGED reports)
    /\ UNCHANGED <<Env, store, seen, news, replaced, timer>>

Pass ==
    \/ Fetch \/ ApplyDeployment \/ ApplyService \/ deleteOwnedIngress \/ Report
    \/ \E o \in Objects : ApplyExposure(o) \/ PruneRoute(o)

-------------------------------------------------------------------------------
\* The informers, the work queue, the other controllers and the users.

\* Mutant: HTTPRoutes are not among the owned kinds the controller watches.
DeliverUnwatched(o) ==
    /\ o \in news /\ (o \in Routes => gateway.available)
    /\ seen' = [seen EXCEPT ![o] = store[o]] /\ news' = news \ {o}
    /\ queued' = (queued \/ o \notin Routes)
    /\ UNCHANGED <<Env, reports, store, replaced, rec, timer, upsets>>

\* An owned object's event queues its owner by name, whatever its uid.  Without
\* Gateway API at start-up there is no informer for routes.
Deliver(o) ==
    /\ o \in news /\ (o \in Routes => gateway.available)
    /\ seen' = [seen EXCEPT ![o] = store[o]] /\ news' = news \ {o}
    /\ queued' = TRUE
    /\ UNCHANGED <<Env, reports, store, replaced, rec, timer, upsets>>

\* Mutant: only the event handlers queue a pass; RequeueAfter is not set.
TimerNever == FALSE

TimerFires ==
    /\ timer
    /\ timer' = FALSE /\ queued' = TRUE
    /\ UNCHANGED <<Env, reports, store, seen, news, replaced, rec, upsets>>

\* A new process: new informers, every FreqUI queued, and the one look for
\* Gateway API, which counts as absent when discovery fails.
Restart ==
    /\ Upset
    /\ \E found \in BOOLEAN :
         /\ found => gateway.installed
         /\ gateway' = [gateway EXCEPT !.available = found]
    /\ rec' = Idle /\ queued' = TRUE /\ timer' = FALSE /\ seen' = store /\ news' = {}
    /\ statusSeen' = status
    /\ UNCHANGED <<spec, bots, rival, uids, status, lost, store, replaced>>

\* The other FreqUI's pass applies its own route under the same name.
RivalApplies(o) ==
    /\ o \in rival /\ store[o].owner # Rival
    /\ Change(o, [store[o] EXCEPT !.owner = Rival])
    /\ replaced' = replaced \cup {o}
    /\ UNCHANGED <<Env, reports, rec, timer, upsets>>

\* The garbage collector deletes what belongs to a FreqUI that is gone.
CollectGarbage(o) ==
    /\ Mine(store[o]) /\ store[o].owner # spec.uid
    /\ Change(o, Nothing)
    /\ UNCHANGED <<Env, reports, replaced, rec, timer, upsets>>

\* The event of an edit brings the whole FreqUI, status included; that of a status
\* alone queues nothing.
EditSpec ==
    /\ Upset /\ spec.uid # 0
    /\ \/ \E m \in Modes \ {spec.mode} : spec' = [spec EXCEPT !.mode = m]
       \/ \E r \in (SUBSET Bots) \ {spec.refs} : spec' = [spec EXCEPT !.refs = r]
    /\ status' = [status EXCEPT !.observed = FALSE] /\ statusSeen' = status'
    /\ queued' = TRUE
    /\ UNCHANGED <<lost, bots, store, seen, news, rival, gateway, replaced, rec, timer, uids>>

StatusSync ==
    /\ statusSeen # status
    /\ statusSeen' = status
    /\ UNCHANGED <<Env, status, lost, store, seen, news, replaced, rec, queued, timer, upsets>>

DeleteFreqUI ==
    /\ Upset /\ spec.uid # 0
    /\ spec' = [spec EXCEPT !.uid = 0]
    /\ status' = Fresh /\ statusSeen' = Fresh
    /\ queued' = TRUE
    /\ UNCHANGED <<lost, bots, store, seen, news, rival, gateway, replaced, rec, timer, uids>>

CreateFreqUI ==
    /\ spec.uid = 0 /\ uids < MaxUids
    /\ uids' = uids + 1
    /\ \E m \in LaterModes : spec' = [spec EXCEPT !.uid = uids', !.mode = m]
    /\ status' = Fresh /\ statusSeen' = Fresh
    /\ queued' = TRUE
    /\ UNCHANGED <<lost, bots, store, seen, news, rival, gateway, replaced, rec, timer, upsets>>

\* A TradeBot or its config changes; no event reaches this controller.
BotChanges(b) ==
    /\ Upset
    /\ \E s \in {"absent", "noapi", "api"} \ {bots[b]} : bots' = [bots EXCEPT ![b] = s]
    /\ UNCHANGED <<spec, reports, store, seen, news, rival, gateway, replaced, rec, queued, timer,
                    uids>>

\* The Deployment controller or a Gateway controller writes the object's status.
HealthChanges(o) ==
    /\ Upset /\ o \in {"deployment"} \cup Routes /\ store[o].owner # 0
    /\ \E h \in Healths \ {store[o].health} :
         /\ o = "deployment" => h # "bad"
         /\ Change(o, [store[o] EXCEPT !.health = h])
    /\ UNCHANGED <<spec, reports, bots, rival, gateway, replaced, rec, timer, uids>>

UserDeletes(o) ==
    /\ Upset /\ store[o].owner # 0
    /\ Change(o, Nothing)
    /\ UNCHANGED <<spec, reports, bots, rival, gateway, replaced, rec, timer, uids>>

\* A user or a controller that is not this operator creates an object under a name
\* of this FreqUI's, after deleting the FreqUI's own.
OtherCreates(o, owner) ==
    /\ Upset /\ (store[o].owner = 0 \/ Mine(store[o]))
    /\ o \in Routes => gateway.installed
    /\ Change(o, [owner |-> owner, health |-> "pending"])
    /\ replaced' = replaced \cup {o}
    /\ UNCHANGED <<spec, reports, bots, rival, gateway, rec, timer, uids>>

InstallGatewayAPI ==
    /\ Upset /\ ~gateway.installed
    /\ gateway' = [gateway EXCEPT !.installed = TRUE]
    /\ UNCHANGED <<spec, reports, bots, store, seen, news, rival, replaced, rec, queued, timer,
                    uids>>

Next ==
    \/ Pass \/ RequestFails \/ TimerFires \/ Restart \/ StatusSync
    \/ EditSpec \/ DeleteFreqUI \/ CreateFreqUI \/ InstallGatewayAPI
    \/ \E o \in Objects : Deliver(o) \/ CollectGarbage(o) \/ HealthChanges(o) \/ UserDeletes(o)
    \/ \E o \in Exposure, owner \in {User, Other} : OtherCreates(o, owner)
    \/ \E o \in Routes : RivalApplies(o)
    \/ \E b \in Bots : BotChanges(b)

\* The worker, the informers, the delaying queue and the garbage collector keep
\* going; users, faults and other controllers owe nothing.
Fairness ==
    /\ WF_vars(Pass) /\ WF_vars(TimerFires) /\ WF_vars(StatusSync)
    /\ \A o \in Objects : WF_vars(Deliver(o)) /\ WF_vars(CollectGarbage(o))
    /\ \A o \in Routes : WF_vars(RivalApplies(o))

Spec == Init /\ [][Next]_vars
FairSpec == Spec /\ Fairness

-------------------------------------------------------------------------------
\* No pass is due and no event of an object is under way.
Rest ==
    /\ rec.pc = "idle" /\ ~queued /\ spec.uid # 0
    /\ \A o \in news : o \in Routes /\ ~gateway.available

Owned(o) == store[o].owner = spec.uid

\* At rest the FreqUI keeps exactly its own mode's exposure, after any sequence
\* of mode changes, failed passes and late events: an Ingress in Ingress mode
\* only, and where this process knows Gateway API, the main route in Gateway
\* mode and no route in another (reconcileExposure, main.go:345-438).
RestIsClean ==
    Rest => LET m == spec.mode
            IN  /\ m = "Ingress" => Owned("ingress")
                /\ m = "None" => ~Owned("ingress")
                /\ m = "Gateway" /\ gateway.available => Owned("main") /\ ~Owned("ingress")
                /\ m # "Gateway" /\ gateway.available => \A o \in Routes : ~Owned(o)

\* Ready and Running are never claimed on old evidence: at rest they mean a
\* Deployment that is up, the workload's Service, and in Gateway mode routes
\* that are all accepted, with the URL of the mode asked for.  Only a last report
\* that PatchStatus dropped, because a late copy of the status had it already, leaves
\* an older status standing, until the periodic pass
\* (main.go:86-131, deriveGatewayExposureCondition, aggregateReadyCondition).
ReadyIsTrue ==
    Rest /\ status.ready /\ ~lost =>
        /\ Owned("deployment") /\ store["deployment"].health = "good" /\ Owned("service")
        /\ status.url = spec.mode
        /\ spec.mode = "Gateway" =>
             gateway.available /\ \A o \in Routes : Owned(o) => store[o].health = "good"

\* What a pass deletes is this FreqUI's: not a user's labelled route, not another
\* controller's object of the same name, not one of an earlier FreqUI of this name,
\* whenever the pass could know.  As Delete names no uid, the exceptions are the
\* objects that a user, a controller or another FreqUI put in place of one of its
\* own during the pass, or before it without the informers having said so yet
\* (pruneHTTPRoutes, deleteOwnedIngress; main.go:552,576).
DeletesOnlyItsOwn ==
    [][\A o \in Objects :
         rec.pc \in {"prune", "dropIngress"} /\ rec' # rec /\ store[o].owner # 0
             /\ store'[o].owner = 0
           => store[o].owner = rec.spec.uid \/ o \in replaced]_vars

\* Another controller holds a name the FreqUI needs, or another FreqUI needs it too.
Contested == rival \cap Desired # {}
Blocked == Contested \/ \E o \in {"deployment", "service"} \cup Desired : store[o].owner = Other

\* What a pass of this process can bring about: without Gateway API it leaves
\* routes alone, and in Gateway mode an old Ingress too.
InReach ==
    IF gateway.available THEN Exposure ELSE IF spec.mode = "Gateway" THEN {} ELSE {"ingress"}

\* Once users and other controllers are quiet the exposure follows the spec and
\* the bots, which no watch reports, through the periodic pass; a deleted FreqUI
\* leaves nothing behind; only a name that is another controller's too stops it
\* (setup.go:17-44, main.go:91-97).
Settles ==
    <>[]\/ spec.uid = 0 /\ \A o \in Objects : ~Mine(store[o])
        \/ spec.uid # 0 /\ Blocked
        \/ spec.uid # 0 /\ {o \in InReach : Owned(o)} = Desired \cap InReach

\* A route whose name another FreqUI generates too is reported as RouteNameConflict
\* "instead of a generic reconcile error that requeues forever"
\* (api/v1alpha1/conditions.go:154-159, docs/exposure.md:102).
CollisionReported ==
    []<>(spec.uid = 0 \/ ~gateway.available \/ ~Contested \/ status.exposure = "conflict")
===============================================================================
