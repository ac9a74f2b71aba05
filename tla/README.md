# Freqtrade operator in TLA+

Models of the Kubernetes operator in this repository, checked with TLC on small
instances and, for their main safety properties, proved with TLAPS for every
value of the constants. `PROJECT.json` lists runs, mutants, the lines every
definition stands for, findings, hazards and theorems.

## 1. The system

| part | state | operations | talks to |
|---|---|---|---|
| TradeBot controller (`controllers/tradebot`) | none of its own between passes; works on the TradeBot, its status, and the Secret, ConfigMap, PVC, StatefulSet, Service and NetworkPolicy it owns | `Reconcile`: add or remove the finalizer, resolve references, render, apply six objects in order, observe, patch status, compare `spec.state` with the bot and call start/stop | API server (writes direct, reads from informer caches), the bot's REST API, the work queue |
| BotPoller (`controllers/tradebot/poller.go`) | map of per-bot memory under a mutex, bounded channel, Prometheus series | a scheduler tick (`scheduleDue`), N workers (`pollOne`) | bot REST API, TradeBot status, metrics registry |
| Backtest controller (`controllers/backtest`) | Backtest, status, Secret, ConfigMap, PVC, Job, sidecar RBAC, results ConfigMap | `Reconcile`: finalizer, create once, observe the Job, adopt results, patch | API server, work queue |
| results sidecar (`controllers/backtest/collectresults`) | the run's pod | wait for the main container, extract, create the ConfigMap | API server |
| FreqUI controller (`controllers/frequi`) | Deployment, Service, Ingress or HTTPRoutes; whether Gateway API was there at start-up | `Reconcile`: apply, resolve bots, expose, prune the other modes' objects, report | API server, work queue |
| Strategy, TradeBotConfig controllers | phase and condition of one object | validate | API server |
| config builder (`controllers/tradebotconfig/configbuilder`) | none; the JWT key it generates lives in the rendered Secret | spec and Secrets to `config.json` | called by the TradeBot and Backtest controllers |
| API types (`api/v1alpha1`, `api/v1beta1`) | none | conversions both ways, validating webhooks | called by the API server |
| shared (`controllers/shared`) | metrics | server-side apply, `PatchStatus` with retry on conflict, enqueue functions, API discovery | every controller |
| `cmd/main.go` | process | wiring, flags, leader election | - |

How they interact. The work queue runs at most one `Reconcile` per key; a key
comes back through watch events (of the object itself only when its generation,
labels or annotations change, of owned kinds, of TradeBotConfig, Strategy and
FreqUI), through `RequeueAfter`, or through the error backoff. The poller and
the controller write the same TradeBot status; the poller's writes enqueue
nothing. Every write of a custom resource, the controllers' own included, passes
a webhook and a conversion. The StatefulSet, Deployment, Job, Gateway, TTL and
garbage-collection controllers, users and the freqtrade process change the cluster
between any two calls.

What is hard: passes that fail or are cut off after some of their writes; reads
from caches that lag the controller's own writes; edits and deletions between
two steps of a pass; a name deleted and created again; two objects that want one
name; the poller's state shared by goroutines with unlocked stretches; a queue at
its limit; two writers of one status; a pod that reads its configuration at another
moment than the one at which it was hashed; a resource that is watched through the
informer of one version and read through that of the other; a Job that disappears once it is
finished; calls that time out with unknown effect; a webhook that also judges the
controllers' own updates; a hundred optional fields copied by hand, twice.

What makes each part correct:

- TradeBot: a pass never acts for an object that is gone; whatever the
  controller leaves alone is what the spec asks for; it comes to rest; deletion
  waits for the pod and finishes; Manual does not restart a bot; Phase and Ready agree.
- BotPoller: no bot is lost, none is polled twice at once, memory and series
  follow the bots there are.
- Backtest: a recorded run is not run again; a pass writes to the run it read;
  the results are owned; Retain keeps the claim; an outcome is reached.
- FreqUI: one exposure at a time and nothing left behind; nothing of anybody else
  deleted; Ready only with the evidence for it; the exposure follows bots that no
  watch reports.
- `PatchStatus`: no writer's fields are lost to another's read-modify-write.
- Config builder: every field reaches the bot; the JWT key is there, and stays.
- API: what is admitted reads back; a client of the old version does not start a
  stopped bot; a live config has credentials; deletion is not refused.

## 2. Modules

| module | models | source |
|---|---|---|
| `TradeBot` | TradeBot controller and its environment, one TradeBot | tradebot/main.go, resources.go, finalizers.go, status.go, setup.go |
| `BotPoller` | scheduler, channel, workers, gauges, for a set of bots | tradebot/poller.go, shared/metrics.go |
| `Backtest` | Backtest controller, Job, pod with sidecar, TTL and garbage collection, one name created up to `MaxRuns` times | backtest/*.go, collectresults |
| `FreqUI` | FreqUI controller, one name created up to `MaxUids` times, its children and their informers, the bots, Gateway API | frequi/*.go, shared/utils.go, shared/apiavailability.go |
| `StatusRegister` | abstract: one status with fields per writer, written in one step | what callers of `PatchStatus` rely on |
| `StatusPatch` | `PatchStatus`: read, mutate, write with a resource version, retry; implements `StatusRegister` | shared/utils.go |
| `ApiStore` | both served versions of four kinds, conversions, webhooks, Strategy and TradeBotConfig reconcilers | api/v1alpha1, api/v1beta1, controllers/strategy, controllers/tradebotconfig/main.go |
| `ConfigBuilder` | the builder as operators from presence and zero of fields to `config.json` | configbuilder/*.go |
| `ConfigRender` | the passes that render: Secrets, the rendered Secret, its informer, the JWT key | configbuilder/build_config.go, tradebot/resources.go, setup.go |
| `MCTradeBot`, `MCBotPoller`, `MCBacktest` | model values, symmetry and a state bound for TLC (the others need none) | - |
| `TradeBotProofs`, `BotPollerProofs`, `BacktestProofs`, `FreqUIProofs`, `StatusPatchProofs`, `ApiStoreProofs`, `ConfigRenderProofs` | theorems | - |

The models meet in two places. `TradeBot`, `Backtest` and `FreqUI` take a call of
`PatchStatus` in one step, with the outcomes that `StatusRegister` has as the
interface and `StatusPatch` is shown to refine: the status computed from a current
copy is stored; one computed from an old copy is an error once the attempts are used
up; and one that comes out equal to that old copy is not written and still counts as
success (shared/utils.go:57-65). `lost` remembers the third case, so that the
properties say what is left of them. In `BotPoller`, whose properties are not about
what the status holds, a patch succeeds or fails. `ConfigRender` uses the operators of
`ConfigBuilder`, and is what `TradeBot` sees as one configuration value.

Definitions that a comment marks "Mutant" are used by nothing. Each is a
plausible bug in the definition that follows it (a dropped guard, a swallowed
error, a missing reset, an off-by-one); with the real definition replaced by it
the property named in `PROJECT.json` is violated.

### TradeBot

A `Reconcile` call is a sequence of steps, `rec.pc` its place; a step ends where
the code makes a call to the API server or the bot, so that every other actor
can fall between two calls. `Fetch` is the read of the object with the early
returns; `AddFinalizer`, `ResolveConfig`, `ApplySecret` ... `ApplyNetworkPolicy`,
`ComputeWorkloadStatus`, `PatchSuccess`, `ReconcileState`, `StateCall` and
`StateConfirm` follow in the code's order; `Finalize`, `PreservePVC`,
`RemoveFinalizer` are deletion. Every step has its failure: `FailStep` where the
code calls `failReconcile` (whose own patch may fail too), `RetryStep` where it
returns the error. `queued` is the key in the queue (or dirty while it is
processed), `timer` a pending delayed add.

A configuration is one value, content and hash at once: `files` is what the Secret
and the ConfigMap hold, `sts.hash` the template annotation, `rec.hash` what the pass
rendered. Conditions are their reasons; a condition is True exactly for its reason of
success. Phase is an operator, because the code derives it on every write of the two
conditions it depends on.

Reads are from three copies, each of which catches up in a step of its own and may be
arbitrarily late:

- `specSeen`, the v1alpha1 informer's TradeBot. It wakes `Reconcile`, which reads it
  (main.go:184) and decides on deletion, finalizer, one-shot command, update strategy
  and `preserve`. A change of the finalizer alone wakes nothing (`tradeBotChanged`).
- `beta`, the v1beta1 informer's TradeBot with its status. Every write starts from it:
  the finalizer (main.go:253-259), `PatchStatus`, and `reconcileState` takes `spec.state`
  from it (main.go:451). Nothing watches it, so its catching up wakes nothing.
- `stsSeen`, the StatefulSet, read for the hash that Manual keeps, for readiness and by
  the finalizer.

An `Update` from a copy that is not `Current` is refused with a conflict. The update that
adds the finalizer also passes the v1alpha1 webhook (`Admitted`): refused while a
reference is missing, and for good while the stored state is Stopped. `generation`
and `observedGeneration` tell which edit a status speaks of. `lost` and `rec.unseen` are
history: the last report was left out, as above; a finalizing pass found no StatefulSet
although there was one.

Copies are compared by value: one that equals the object counts as current, also when
the object changed and changed back in between, and a copy moves to the latest state
at once. The state of the pod is part of the StatefulSet's status and is seen without
delay, which its events (`queued`) make the harder case for rest.

The poller is here one read (`PollRead`) and one write (`PollWrite`).

### BotPoller

A step is a stretch of code between two points where another goroutine can run:
a critical section, an API call, the poll, the push of the gauges. Times are
counted in the bot's own intervals (1, 2, 4, 8, 10: the back-off with its cap);
`Elapse` is the moment `nextPollAt` comes. `consecutiveFailures` is cut off one
above the capped shift, where it has no more effect.

The critical section of `scheduleDue` is one step. A worker may receive from
the channel while it runs, which only makes room one bot earlier; the model
reaches the same state with the next tick. The order of the List is arbitrary.

### Backtest

`bt.run` stands for the UID: each creation of the name is a new run, and every
object remembers the run that owns or made it. All objects are applied by one
field manager, so an apply for a new run takes over an object that a gone run
still owns; garbage collection removes, in any order, what a gone run owns. The
Job's pod starts, exits, has its results collected and is counted; a finished Job
may be reaped at any time, since `ttlSecondsAfterFinished` has no minimum.

`btSeen` with `statusSeen` is the informer's one copy of the Backtest, `jobSeen` its Job
and `pvcSeen` its results claim; each catches up in a step of its own. A pass goes by the
copy it fetched, metadata, spec and status; `rec.fresh` remembers whether that was the
object as it is, which decides whether the Updates of the finalizer go through. For a
name deleted and created again, the copy shows the old object until it shows the new
one. The results ConfigMap has no copy: to a pass it may not be there yet at any time.
`lost` is the report left out, `ended` that an outcome of this run was once recorded,
`rec.unseen` that the finalizer did not see a claim that exists.

### FreqUI

A pass is `Fetch` or `ApplyDeployment`, `ApplyService` (after which the bots are
resolved and the mode is looked at), one `ApplyExposure` per object with the main
route first, one `PruneRoute` per route found stale, `deleteOwnedIngress`, and
`Report`; a step is one request with the cached reads before it. `store` is the API
server, `seen` the informers' copies, `news` what they still have to deliver; a
delivery queues the owner. An object is its controller (this FreqUI by uid, a
user, another FreqUI, something that is not this operator) and its health. Deletes
carry no precondition, as in the code, and `OtherCreates` is a user or a foreign
controller that puts an object of its own under one of the names at any time;
`replaced` remembers which of them the pass at hand cannot know of. `statusSeen` is the
status in the informer's copy of the FreqUI, which `PatchStatus` starts from
(`Stored`, `Skipped`, `Conflict`). Gateway API is looked for by `Restart` only.
`RivalApplies` is the pass of another FreqUI that generates the same route name.

### StatusPatch

Each writer has a call in progress: `Begin`, `Get`, `Update`, `Reply`, with a number
of attempts left; `Fail` is a lost request or reply. A status with an outdated
resource version is refused and the attempt starts over; running out of attempts is
an error. `Deliver` is the informer, `EditSpec` a change of generation. With `lag` a
call reads the informer's copy.

### ApiStore

What is stored is v1beta1. A write through either version is one step: all
webhooks registered for the kind judge it (they are registered with the default
`matchPolicy`, so the API server converts and sends them writes of the other
version too), and the conversion stores it or refuses it. `last` is the last write
and its answer, which is what `ReadsBack` compares storage with. The controller's
updates of its finalizer pass the same webhook. Fields without a rule of their own
are one payload; credentials, defaults, renamed, restructured and dropped fields (the
arguments and the data settings of a v1alpha1 TradeBot) are modelled one by one.

### ConfigBuilder and ConfigRender

A spec is a function from the sections present to functions from the fields set to
their values, where a zero that is set is a value and an absent field is absent;
`config.json` has the same shape. Every builder function is an operator over the
field names of its struct. `ConfigRender` has a pass in two steps, `Build` (which
reads the spec, the Secrets and, through the informer, the key in use) and
`ApplySecret`, with failure in between. The FreqUIs whose hosts become CORS origins are
watched through the v1alpha1 informer (setup.go:68) and listed through the v1beta1 one
(main.go:308-309): `FreqUIEvent` and `FreqUIListSync` are two steps in either order, and
`behind` remembers that the last pass read the list too early.

## 3. Runs

| run | bounds | shows |
|---|---|---|
| `TradeBotSafe` | 2 configs, 1 failure, 2 user actions (`FewUpsets`), poller off, all informers late | `Converged`, `HoldsFinalizer`, `PhaseMatchesReady`, `JobModeNeverTrades`, `ManualNeverRestarts`, `FinalizerWaitsForPod` (@TBS@) |
| `TradeBotLive` | 1 config, 1 user action (`OneEdit`), poller on, all informers late | `Converged` with status writes of the poller and start/stop calls in between; `Settles`, `DeletionCompletes` under fairness (@TBL@) |
| `PollerFull` | 3 bots, 1 worker, so a queue of 2 | `InFlightIsReal` and the bound of the queue when it is full (0.7 M) |
| `PollerLive` | 1 bot, 2 workers, 2 edits, 1 failure | `OnePollPerBot`, `PolledForever`, `DisabledSettles` (0.7 M) |
| `BacktestSafe` | 2 runs, 1 failure, 1 edit (`OneUpset`, `InvalidFirst`, `MostlyRetain`), informers late (`FewBehind`) | `HoldsRun`, `SummaryIsOwned`, `PhaseMatchesWorkload`, `RecordedNeverReruns`, `RetainKeepsClaim` (@BTS@) |
| `BacktestLive` | 1 run, 1 edit (`InvalidFirst`, `RetainOnly`), informers late one at a time (`OneBehind`) | `OutcomeReached`, `DeletionCompletes` under fairness (@BTL@) |
| `StatusPatch` | 2 writers, 2 values, 4 attempts, 2 calls each, 1 edit, 1 fault | `VersionsNameContents`, and `Implements`: the refinement |
| `FreqUI` | 2 bots, one with an over-long route name, 2 creations (the second in Gateway mode), 1 upset, one foreign object at the start, one later as the upset | `RestIsClean`, `ReadyIsTrue`, `DeletesOnlyItsOwn`, `Settles` under fairness (@FUI@) |
| `ApiStore` | 2 writes of any kind through any version, 2 payloads | `ReadsBack`, `StoppedStays`, `LiveHasCredentials`, `DeletionCompletes`, `AdmittedIsValid` (0.6 M) |
| `ConfigRender` | 2 edits of any section, Secret or FreqUI, 2 generated keys | `FieldsReachTheBot`, `EnabledHasKey`, `RestIsCurrent`, `KeySurvives` |
| `ApiStopped`, `FreqUICollision` | as small as the case allows | two disagreements with the documentation, section 5 |

Why the bounds are enough. A second configuration is what drift and a changed
hash need, a third adds no comparison the code makes. Two user actions give an
edit followed by another edit or by deletion in mid-pass; one failure at any step
includes an operator restart and a pod crash, and since a failed pass starts again
from its first step, two failures are two such passes. `FewUpsets` has a failure
together with one edit, or two edits without one, of which the second finds a bot
whose references resolve. `OneEdit` is one edit of a Manual bot, a state change or a
deletion included, with the poller; a failure falls to `TradeBotSafe`, and a
poll is taken before or after the steps of which it reads nothing. Three bots and
one worker are the least that fill the queue; one bot and two workers the least
in which two polls of one bot overlap, which takes two edits. Two runs are the
least in which an object of another run is met; `OneUpset` takes a failure, a second
run or a change of the references, one of them in a behaviour, with a deletion
where there is a failure. `FewBehind` has one informer of the three late at a
time, and two where two copies meet in one decision: the object's and the claim's in
finalization, the object's and the Job's once the run has ended, which is where a
pass can create a Job again. A constraint cuts a behaviour off where it leaves the
bound, so the liveness runs are about the fair behaviours that stay within it for
ever. All of these bounds are for TLC's sake: the theorems of section 4 have none of
them. Two writers with two
calls each make a conflict in every attempt but the last, four being
`DefaultBackoff.Steps`. For `FreqUI` one upset is one edit, deletion (with
re-creation), failure, restart, bot change, health change, child deleted or put in
place by somebody else, or late Gateway API, at any point of a pass that starts from
an empty cluster, one with a foreign object, or one already up; the names of objects
are as many as the code has kinds of, and one bot of each kind of name. Two writes in
`ApiStore` are a write and one that meets what it left; the initial states hold what
earlier ones can have left. In `ConfigRender` the first edit can make any section
minimal, full, full of zeros or absent, and the second can be one of the section it
contains or overlaps with, or the FreqUI that comes or goes.

`CHECK_DEADLOCK FALSE` is set where the system may come to rest for good: once the
object is gone and collected, or no more calls, writes or edits are left. The poller
never stops and its runs check deadlock. Symmetry is used in runs that check no
liveness: over configurations, which are only compared for equality, and over bots
and workers.

`MaxFaults`, `MaxEdits`, `MaxRuns`, `MaxUids`, `MaxUpsets`, `MaxCalls` and
`MaxWrites` are the bounds on what is unbounded in reality; they appear in the
guards of the actions they count.

### Fairness

Weak fairness of: the reconcilers (the queue hands out a key that is in it),
timers, informers, the poller's ticker and goroutines, the StatefulSet and Job
controllers starting and stopping pods, readiness, garbage collection, and the
passing of the grace period. Those are loops of this code or of Kubernetes that
run as long as their process does. In `FreqUI` the other FreqUI's passes are fair
too: they are the same reconciler's. Users, failures, crashes, the TTL controller
and what Gateway and Deployment controllers report owe nothing. The steps of one
`Reconcile` call share one fairness condition, since one of them is always enabled
while a call is in progress.

`PolledForever` is checked with a queue that has room: with more bots than places
who is dropped depends on the order of the List, and the code does not promise
that it is not always the same bot. `Settles` of `TradeBot` excuses a bot that is
Stopped before it has its finalizer, which the webhook then refuses for ever (section
5). `OutcomeReached` excuses Jobs that are reaped, time after time, before a pass has
looked at them. `Settles` of `FreqUI` excuses a name that
somebody else holds or wants, and what a process without Gateway API cannot reach.

## 4. Proofs

Each proof module shows `Init => Inv`, `Inv /\ [Next]_vars => Inv'` with one step
per action, and draws its theorems from `Inv`. The constants are arbitrary
within the named assumptions of the modules: any non-empty set of
configurations, any finite sets of bots and workers, any bounds.

- `TradeBotProofs`. `TypeOK` and `PhaseMatchesReady` are inductive on their own
  (`PhaseMatchesReady` because a step that writes status either keeps the three
  fields, or fails one condition and Ready together, or writes all three, and all of
  them start from a current copy). For the others `Inv` adds to `HoldsFinalizer` and
  `JobModeNeverTrades` what an old copy can still say (`SeenBefore`: a deletion it shows
  is under way, a finalizer without a deletion is still on; `BetaKnows`; `DeletionHeld`),
  that only an object seen to be deleted is finalized (`FinalizesDeleted`), that no pass
  resolves references for a stored one-shot command (`JobNeverApplied`), that hashes in
  play are of rendered configurations (`HashesRendered`: an empty one would let Manual
  take the fresh hash), that a pod needs a StatefulSet (`PodNeedsSet`), that replicas are
  zero for good (`ZeroIsFinal`), and that a deletion past the scale-down has the pod gone
  for good, the grace period over, or missed the StatefulSet (`ScaledDown`). Theorems
  `TypeCorrect`, `FinalizerHeld`, `JobModeSafe`, `PhaseCorrect`, `ManualSafe`,
  `DeletionSafe`. None assumes anything of the informers. What late ones can spoil is in
  the properties: Manual can put an older hash back when the copy of the StatefulSet
  lacks the controller's own last write, and the finalizer can miss a StatefulSet just
  created; the theorems say that nothing else does.
  `Converged` speaks of the state at rest, so its invariant `OnTrack` says of a key that
  is neither queued nor on a timer, with no new generation on its way, how far the pass
  in progress has come: it is the pass the object calls for (`RightPass`), what it
  resolved is what the references give now (`Fresh`), what it applied is still there
  (`Applied`), and what it observed still holds, as does what it wrote to status unless
  the write was left out (`Reported`). A step that would break one of these queues
  the key. Theorems `OnTrackInvariance`, `ConvergedCorrect`, and `DeletionAttended`, the
  safety half of `DeletionCompletes`: an object under deletion is never left with
  nothing to finalize it.
- `BotPollerProofs`. `InFlightIsReal` alone is not inductive: `Finish` clears the
  flag of the bot its worker holds, so `Inv` adds that a busy worker has a bot and
  that only tracked bots are flagged. Theorems `TypeCorrect` (with the bound of the
  channel, which needs cardinalities of finite sets) and `InFlightCorrect`.
  `OnePollPerBot` needs an account of who pays for a second poll of a bot: forgetting
  a bot drops its mark and takes the edit that made it unpollable, tracking it again
  takes another. `Counted` bounds the polls queued or running (`Outstanding`) by the
  mark and half the edits (`Within`), for the object and for the snapshot that the
  scheduler still goes by (`ListIsOlder`). Theorem `OnePollCorrect`.
- `BacktestProofs`. `Inv` is `TypeOK`, `HoldsRun`, what a pass remembers of the
  status against the status (`Remembers`), what an old copy can still say
  (`SeenBefore`: of this run since the finalizer was set, and one with the finalizer and
  without a deletion is of an object that has not gone), that a pass finalizes for a
  deletion (`FinalizesDeleted`), to which run claim, Job and pod can
  belong (`ClaimFits`, `JobFits`, `PodFits`), and that a deleting object holds its
  finalizer (`DeletingHolds`). Theorems `TypeCorrect`, `RunHeld`, `RetainSafe`; none
  assumes anything of the informers. `RecordedSafe` adds `OutcomeOrError`: once recorded,
  an outcome stands or an error has overwritten it. So the two ways to run a Backtest
  again that `RecordedNeverReruns` names, an old copy and a forgotten outcome, are the
  only ones.
  `Recorded` adds what a pass holds between reading the results and writing them
  (`SummaryHeld`). Theorems `SummaryOwned`, `PhaseMatches`. `OverInv` is about rest, as
  `OnTrack` is, and follows the verdict on the results through status, informer and
  pass (`SummaryHasVerdict`, `SuccessHasVerdict`). Theorem `RestOver`, the safety half of
  `OutcomeReached` and `DeletionCompletes`: a Backtest that nothing looks after has its
  finalizer and is not being deleted and, unless its last report was left out, has its
  outcome recorded, with a verdict on its results if it succeeded.
- `StatusPatchProofs`. `Inv` is `TypeOK`, `VersionsNameContents` (what a call holds
  of the current version is the current object with the call's own change), that a
  call at its read has an attempt left, and that what a call is about to report is
  still stored. Theorems `TypeCorrect`, `VersionsCorrect`, and `Refinement`,
  `Spec => Implements`: `Update` that is accepted maps to `Store`, `Begin` to `Ask`,
  the end of a call to `Answer`, and everything else to a stutter.
- `ApiStoreProofs`. `ReadsBack`, which leaves out just the two fields that the
  conversion drops, is inductive once storage is typed; the lemmas about
  the conversions (`TradeBotConverts` and its like) say what comes back of an object
  that `ConvertTo` accepts. Theorems `TypeCorrect`, `ReadsBackCorrect`,
  `StoppedCorrect`, `CredentialsCorrect`.
  `Judged`, that an admitted Strategy or TradeBotConfig is Valid or has a reconcile due,
  is the safety half of `AdmittedIsValid`. Theorem `AdmittedJudged`.
- `FreqUIProofs`. `DeletesOnlyItsOwn` is about decisions taken on old copies. Uids
  grow and one pass runs at a time, so no object or copy has an owner newer than the
  pass (`Bounded`); an object that its copy shows as owned by a uid is gone, replaced by
  somebody else without the pass being able to know (`Taken`), or of a uid at least as
  new (`Follows`); together only the pass's own uid is left, which `Doomed` carries from
  the list to each delete.
  Theorems `TypeCorrect`, `DeletesSafe`.
  `RestIsClean` and `ReadyIsTrue` share `RestInv`. It says that whatever a pass has
  seen to stays so, or an event is on its way that queues another pass, for as long as
  none is queued (`Settled`, with a part for the workload, for the exposure of the mode
  and of the other modes, for the routes and for the status); it needs that an informer
  with nothing to deliver is up to date (`InSync`) and what a pass carries from step to
  step (`Shape`). The lemmas rest on `Noted`: a step leaves an event of every owned
  object it changes. Theorems `RestClean`, `ReadyCorrect`.
- `ConfigRenderProofs`. A rendered config has the key decided on and no other
  (`RenderedKey`, through the merge order of the builder); that key is the user's, the
  one the informer shows, or new (`ResolvedKey`). `Inv` says of the stored config and
  of the one about to be applied that they have a key if they need one, that an
  up-to-date informer shows the stored key (`SeenKey`), and that a pass that read it so
  does not bring another generated one (`FreshPass`), which holds although the stored
  config may be deleted in between. Theorems `KeyCorrect`, `KeyKept`.
  `RestIsCurrent` is inductive with `Current`: a pass that no event overtook carries
  what is wanted now, the FreqUIs as they are unless it read their list too early
  (`Fits`). Its lemmas show that the config without its credentials does not
  depend on the Secrets or the key. For `FieldsReachTheBot` the lemmas go through the
  builders one by one (`Complete`: every field that is set, with its value), then
  through the merge at the top level, whose sections do not overwrite one another, for
  every spec that is well formed; `Carried` says that specs are and that a pass carries
  the config of one. Theorems `RestCorrect`, `FieldsCorrect`.

Every safety invariant and every action property of the passing runs is a
theorem, with no assumption beyond those on the constants.@STR@

Only model-checked: the liveness properties `Settles`, `DeletionCompletes`,
`PolledForever`, `DisabledSettles`, `OutcomeReached` and `AdmittedIsValid`. Liveness
under fairness and `ENABLED` are out of the prover's reach; what is proved of them is that
no state is reached in which nobody is left to make the step (`ConvergedCorrect`,
`DeletionAttended`, `InFlightCorrect`, `RestOver`, `AdmittedJudged`).

## 5. Where the code and its documentation disagree

With a run whose counterexample is the scenario, and an entry under `findings`:

- `ApiStopped`, `BetaWritable`: once `spec.state` is Stopped the object "can only be
  edited via `v1beta1`" (docs/usage.md:139-140), but the guard that refuses v1alpha1
  writes is sent converted v1beta1 writes too and refuses them all; only deletion
  gets through.
- `FreqUICollision`, `CollisionReported`: two FreqUIs that generate one route name
  take the route from each other for ever; `RouteNameConflict`, which
  docs/exposure.md:102 gives for that case, is not reported. The comment at
  shared/utils.go:84-86, that the owner reference gives an "already owned" error "for
  free", does not hold for an object built in the same pass.

Met while modelling, without a run of their own:

- docs/usage.md:118-120 says `spec.state` is reconciled continuously. A ready bot's
  pass asks for no requeue and the poller's status write enqueues nothing
  (tradebot/main.go:649), so a bot that comes back in the other state stays there;
  `Converged` and `Settles` accordingly say nothing of the trading state.
- A TradeBot created with `spec.state` Stopped never gets its finalizer, and so never
  its workload: the update that adds it (tradebot/main.go:259) is refused by the guard
  of `ApiStopped`, pass after pass. `Settles` leaves that bot out.
- tradebot/resources.go:201-208 says a Manual reconcile can never be what restarts a
  bot, docs/usage.md:99-100 that the StatefulSet is left exactly as it is. A Manual pass
  that follows an Auto one and reads the StatefulSet from a cache without the latter's
  write puts the older hash back, which is a restart; one that sees no StatefulSet yet
  writes the fresh hash. `ManualNeverRestarts` has that exception.
- tradebot/main.go:357-359: the success path "is what actually clears" an old failed
  condition. A quick retry whose status equals the cached copy from before the failure
  is not written (shared/utils.go:57-65), and the condition stays until the next pass
  (`lost` in `Converged`).
- A TradeBot deleted right after its StatefulSet was created loses its finalizer at once
  when the cache does not show the StatefulSet yet, with the pod still to stop
  (`rec.unseen` in `FinalizerWaitsForPod`).
- CORS hosts: the FreqUI watch is on v1alpha1 (setup.go:68), the list on v1beta1
  (main.go:308). A pass that is woken before the list has caught up renders the old
  hosts, and nothing wakes another (`behind` in `RestIsCurrent`).
- backtest/main.go:236-242 and resources.go:56-58: a reaped Job is "never recreated". A
  failed look at the Job after the outcome was recorded overwrites the outcome
  (main.go:113-117), and a pass whose copy of the Backtest does not have the outcome yet
  does not know of it (main.go:72); either creates the Job again.
  `RecordedNeverReruns` names both.
- backtest/main.go:119-128: a pass that does not see the summary yet adopts the results
  again; a failure there writes ReconcileError to `ResultsAvailable`, and once the summary
  is seen nothing corrects it.
- backtest/finalizers.go:38-42: a claim that the cache does not show yet counts as none,
  so Retain does not keep it (`rec.unseen` in `RetainKeepsClaim`).
- frequi/main.go:559-561: an Ingress it does not own is "never" deleted. Ownership is
  that of the cached copy and `Delete` (552, 576) has no precondition on the uid: an
  object put in its place in between is deleted (`replaced` in `DeletesOnlyItsOwn`).
- docs/usage.md:99-103: the rollout restart that `ConfigDrift` prescribes leaves the
  template's hash as it is, and `ConfigDrift` True (tradebot/resources.go:220).
- shared/metrics.go:65: `freqtrade_bot_up` is not that of the most recent poll. A
  failed poll writes its 0 under `dry_run="unknown"` (poller.go:469); the series with
  the last answer's label keeps its 1.
- backtest/main.go:222: Failed is recorded with the first failed pod although
  `backoffLimit` is 1 and the retry may succeed (236-239).
- tradebot_conversion.go:11-13 says that nothing is dropped silently;
  `freqtrade_arguments` and the data settings of a v1alpha1 TradeBot are (83-85), which
  is what `ReadsBack` leaves out.
- v1beta1/tradebot_types.go:181: `observedGeneration` is the generation at the time of
  the write, not the one the pass acted on.
- `use_order_book` is rendered as true also when it is false, `order_book_top` only
  with it (pricing.go:21); `spec.pairlist` is never rendered; `use_exit_signal: false`
  cannot be told from unset; a key found in the rendered Secret is not checked for its
  length, so `EnabledHasKey` holds as long as nobody writes into that Secret; and the key may be replaced when the informer has not seen the Secret yet,
  which the comment at build_config.go:222-228 means to rule out.

## 6. Abstractions and limits

- The pod template changes only with the config hash: image and pod spec edits,
  which also restart a pod, are left out.
- In `TradeBot` the caches of the claim, the ConfigMap, the Secret and the referenced
  objects do not lag, in `Backtest` those of the inputs and the referenced objects. Owned
  ones are applied without being read first; `handlePVCPreservation` reads the claim.
- An informer's copy moves to the latest state, not through the ones before it.
- A rotated credential Secret, which no watch notices, is modelled in `ConfigRender`,
  where `RestIsCurrent` leaves it out; `TradeBot` has one that is missing and supplied
  later.
- NetworkPolicy is applied but not watched (setup.go:84); no property promises that a
  deleted one comes back. Nor does one promise that the gauges of a forgotten bot stay
  away: a poll that ends after it sets them again (poller.go:488).
- The half of `AdmittedIsValid` that is about TradeBotConfig holds whatever the spec
  says, since its reconciler always reports Valid; the half about Strategy compares two
  checks written twice.
- Users do not remove finalizers by hand.
- FreqUI: the events of one object that an informer has not delivered yet count as
  one; an event of the Service counts as delivered at once, since nothing reads its
  copy; the FreqUI itself, apart from its status, is read as it is; one other FreqUI,
  and it collides in one route name.
- `ApiStore`: one object of each kind and one Secret; a reference is to it or empty.
  Admission, conversion and storage of one write are one step, as they are for the
  object written; the Secret and the objects referred to are read in that step.
- `ConfigRender`: all keys of a credential Secret have one value, or it has none of
  them; a section is one of its variants.

Not modelled, and why: the Backtest webhook (checks of single fields); the status
metrics collector (a List at scrape time); `cmd/main.go` (flags and wiring; a restart
is an action of every model); the fields of objects built for Kubernetes beyond what
the controllers compare; the sidecar's SIGTERM race and its parsing of result files
(waiting and collecting are two steps of `Backtest`); the REST client beyond whether a
call succeeds, fails or times out; generated code.

## 7. Plan

1. `CollectResults`: the sidecar with SIGTERM, restart and a second pod of the same Job.
2. Proofs: the safety half of `PolledForever`, `DisabledSettles` and FreqUI's `Settles`,
   as `RestOver` gives it for `Backtest`.
3. The informer of the FreqUI's own spec, as `TradeBot` and `Backtest` have it.
