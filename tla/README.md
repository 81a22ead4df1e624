# Verification of tekton-tasks-operator

TLA+ models of the Tekton Tasks Operator, the runs that model-check them and the
proofs that hold for every size. Paths are relative to the repository.

## 1. The system

The operator watches one kind of custom resource, `TektonTasks` (below: the CR),
and deploys the tasks, pipelines, config maps, roles and bindings bundled with
it. It is one process; its controllers run one worker each. Everything it knows
of the cluster comes from informer caches, which lag; everything it does is a
write to the API server, checked against the version of the copy it was made
from. It keeps next to nothing in memory from one pass to the next and nothing
on disk: what survives a crash is the cluster.

| component | state | operations | interacts with |
|---|---|---|---|
| reconciler, `controllers/tektontasks_controller.go` | `lastTektonTasksSpec`, `subresourceCache`, the gauge; per pass a copy of the CR | `Reconcile`: initialize, migrate the finalizer, clean up, refuse several CRs, pause, deploy, report | reads the CR from its informer, writes CR and status, calls operands |
| resource helpers, `pkg/common/resource.go`, `cache.go` | the version cache | create or update one resource, clean one up | reads informers, writes resources |
| operands, `pkg/tekton-tasks`, `pkg/tekton-pipelines` | templates, whose namespaces are set by each reconcile | `Reconcile`, `Cleanup`, the watched kinds | call the helpers |
| CRD controller, `controllers/crd_controller.go`, `finishable` | which required CRDs exist (`waitForCrds.crds`) | writes the CR's status, records a CRD, stops itself when all exist | runs before the reconciler, on the same process and client |
| set-up, `controllers/setup.go`, `main.go` | none | picks what to start | both controllers |
| labels, bundle, environment, scheme, CSV generator | none while running | pure functions and start-up I/O | called by the above |

What makes each of them correct:

* **Reconciler.** Resources are only deployed for a CR that carries the
  operator's finalizer; only one CR has resources; a status that says *Deployed*
  is true; a deletion, once begun, is never taken back; an edit, an unpause and a
  deletion take effect; the gauge tells failures.
* **Resource helpers and operands.** Edits of users are undone; the version cache
  never vouches for edited data; a cleanup leaves nothing of the CR and touches
  nothing of others.
* **CRD controller and set-up.** What was recorded of a CRD is true or looked at
  again; the reconciler starts once all required CRDs are there; what happened to a
  CR meanwhile, its deletion included, is made up for; what is written to it before
  does not harm its initialization.

Hard here: a pass works on a copy that may be old at every step; a write may be
refused, fail or take effect with its answer lost; the operator may stop between
any two calls; events that the watch predicate drops never come again; deletion
is a conversation over finalizers between users, API server and operator.
`PROJECT.json` lists these hazards with their lines.

## 2. Modules

| module | models | extends |
|---|---|---|
| `TektonTasksController` | the reconciler, its CRs, informer and work queue | |
| `CRLifecycle` | abstract: what users are promised of the CRs | |
| `LifecycleRefinement` | the refinement mapping between the two | `TektonTasksController` |
| `MC_Controller` | instances of it for TLC | `LifecycleRefinement` |
| `OperatorStartup` | the CRD controller and set-up, composed with the reconciler | `LifecycleRefinement` |
| `OperandResources` | resource helpers, version cache, operands | |
| `TektonTasksController_proofs` | type correctness | `TektonTasksController` |
| `TektonTasksController_guard` | the finalizer and single-owner theorems | `..._proofs` |
| `TektonTasksController_status` | what a status may claim, pausing, the spec of the cache, deletion | `..._guard` |
| `TektonTasksController_events` | nothing is forgotten | `..._status` |
| `TektonTasksController_lifecycle` | the refinement theorem | `..._guard`, `LifecycleRefinement` |
| `OperatorStartup_proofs` | types, the record of the CRDs, CRs of other namespaces | `OperatorStartup`, `TektonTasksController_lifecycle` |
| `OperandResources_proofs` | type correctness and the version cache | `OperandResources` |
| `OperandResources_cleanup` | what a cleanup leaves behind | `OperandResources_proofs` |

### TektonTasksController

`server` holds the CRs, `informer` the operator's copies. `lag[c]` says what is on
its way for `c`: nothing, changes the predicate of `watchTektonResource` drops, or
an event that will enqueue `c`. `queue` and `delayed` are the work queue and the
names waiting out its back-off. A pass that meets a terminating resource ends
without a retry and relies on the event of its removal. Whether one comes depends on the
resource, for Tasks are not watched (`WatchClusterTypes`): `AwaitRemoval` puts the CR in
`awaiting`, and a watch will report the removal, or in `unreported`, and nothing will.

A pass is a sequence of steps, one per API call; `pc` names the next. `inst` is the
pass's copy of the CR; `current` says of which CRs the copy it would write over is
still the stored version, which is what resourceVersion decides. Each action
chooses an answer of the API server: `OK`, `Conflict`, `NotFound`, `Invalid` (a
finalizer added to an object being deleted), or, within `MaxApiErrors`, `Error` and
`Lost` (it took effect, the answer did not arrive).

| code | actions |
|---|---|
| `Reconcile` up to the first write | `Start`, `FirstCall` |
| `initialize`, `updateTektonTasks` | `UpdateFinalizer`, `UpdatePhase` |
| `cleanup` | `CleanupStatus`, `CleanupDone`/`Pending`/`Error`, `RemoveFinalizers`, `DeletedStatus` |
| `getCRList`, `setStatusMultipleCRs` | `ListCRs`, `SetStatusMultipleCRs` |
| pause branch | `ListCRs`, `PauseStatus` |
| `preUpdateStatus`, `reconcileOperands`, `updateStatus` | `PreUpdateStatus`, `Operands...`, `UpdateStatus` |
| `handleError` | `handleError`, `ReportError` |
| predicate, queue, watches | `PassesPredicate`, `Deliver`, `BackOffExpires`, `ResourceGone`, `ResourceChanged` |
| process start | `Reboot`, `Restart` |
| users | `CreateCR`, `EditSpec`, `TogglePause`, `DeleteCR`, `RemoveForeign` |

Abstracted: condition messages and versions; the three conditions, always written
together, are one value; specs are model values of which some ask for a
deployment; an operand loop is one step with one of four outcomes (its steps are
`OperandResources`). `touched` and `applied` record what was deployed for whom,
`unreported` who relies on an event that does not come; no step reads them.

### CRLifecycle and LifecycleRefinement

`CRLifecycle` knows of each CR only whether it is absent, live or being deleted,
whether it is *guarded* by a finalizer of the operator, and whether resources are
*deployed* for it. Its steps are those a user of the operator reasons with: nothing
is deployed for a CR that is not guarded, nor beside another's resources; only a
live CR is guarded; a guarded CR stays until its resources are gone and the guard is
released. It has no passes, copies, versions or events.

`LifecycleRefinement` maps the reconciler's CRs, or a set `G` of them, to this life
cycle: all of them when the reconciler runs alone, those outside of the operator's
namespace when the start-up comes before it. The mapping takes `life` from the stored
CR's `deletionTimestamp`, `guarded` from its finalizers and `deployed` from `touched`. The first write of `initialize` is `Guard`
(status writes are invisible), the step of the reconciler that begins to deploy is
`Deploy`, `CleanupDone` is `Cleanup`, and the write that removes the finalizers is
`Release`. Everything else, the crash of the operator too, is a user's step or none.

### OperatorStartup

A process that finds a required CRD missing runs an init controller before the
reconciler. The module extends the reconciler's (through `LifecycleRefinement`, whose
life cycle it states for the CRs it does not write, `OthersLifecycle`): CRs, API server
and informer are the same variables, so what the init controller writes into a CR is what the
reconciler finds there. `stage` is *waiting* for CRDs, *stopping* to wait (the inner
controller cancelled its own context and its queue is drained) or *running*.
`crd`, `crdCopy` and `crdNews` are the CRDs at the API server, in the informer, and
those with an event on its way; `crds` is what `waitForCrds` recorded; `crdQueue` and
`crdDelayed` are the queue of the init controller and its back-off; `target` and
`copy` are the CR whose status it is writing and its copy of it.

| code | actions |
|---|---|
| `(*waitForCrds).Reconcile`, `setConditions` | `StartCrd`, `SetConditions`, `RecordCrd`, `InitError` |
| `isCrdRequired`, `setCrdExists`, `allCrdsExist` | `RecordCrd`, `CrdExists` |
| `finishable` | `stage`, `Drained`, `StartReconciler` |
| `CreateAndSetupReconciler`, `requiredCrdsExist` | `CreateAndSetupReconciler`, `requiredCrdsExist`, `RestartProcess` |
| watches | `DeliverCrd`, `CrdBackOffExpires`, `DeliverCR`, `FirstList` |
| installers of CRDs | `ChangeCrd` |

While the init controller runs no controller watches CRs: `DeliverCR` moves the
informer's copy without enqueueing anything, and the first list of the reconciler's
watch (`FirstList`) enqueues what is there. A terminating CRD exists for
`requiredCrdsExist`, which compares names, and does not for `waitForCrds`.

Two properties stated of the reconciler alone do not survive this composition:
`setConditions` (`crd_controller.go:127`) calls `updateStatus` without results for a
CR of its namespace, which writes *Deployed*. So a CR with nothing deployed may say so
(`DeployedReflectsSpec`; `startup_guard` shows what follows from it), and after a restart
with a CRD missing *Deployed* may replace *Deleting* (`DeletionOneWay`).

### OperandResources

`server` and `informer` hold the objects by resource and namespace; `news` are
those with an event on its way; `life` and `spec` are the CR's. An object has a uid,
a resourceVersion and, for kinds that count them, a generation; `data` says whether
it is the template's or edited; `owner` whether labels, annotations and owner are
the CR's (`cr`), the CR's together with an owner reference somebody added (`ref`),
or neither; `held` whether somebody else's finalizer keeps it. `place` is what the
templates' `Namespace` fields hold in memory and `vcache` is the version cache.
`overlooked` remembers what the last cleanup passed over although it was the CR's, since
the template pointed elsewhere or the informer did not show it (`Overlooked`); no step
reads it.

| code | actions |
|---|---|
| `(*reconcileBuilder).Reconcile`, `mutateFn`, `createOrUpdateWithImmutableSpec` | `ReconcileResource`, `CreateResource`, `UpdateResource` |
| `VersionCache` | `Contains`, `Add` |
| `Cleanup`, `DeleteAll` | `CleanupResource`, `DeleteResource`, `FinishCleanup` |
| `isResourceOwned` | `Owned`, `Panics`, `CleanupPanics` |
| `listDeprecatedClusterTasks` | `DeprecatedClusterTasks`, `Legacy` |
| what the reconcile functions skip and where they put the rest | `Deployed`, `TasksPlace`, `PipelinesPlace`, `PlaceOf`, `Restored` |
| `New`, process start | `BundlePlaces`, `Reboot`, `Restart` |
| `WatchClusterTypes`, owner annotations | `Watched`, `Reported`, `Deliver` |

Details that matter: the account named `pipeline` is reconciled only while
`spec.pipelines.namespace` starts with `openshift-` or `kube-` (`SystemNs`), but
cleaned up always; a binding of the pipelines with a namespace in the bundle keeps it
(`FixedBindings`); service accounts have labels and annotations restored and nothing
else (`Restored`); ClusterTasks of older operators are in no list of the operand and
are found by label at cleanup, so the initial states include a live CR that has some.
`isResourceOwned` compares each owner reference of the object with the first one of
the expected object, which exists only if that lives in the CR's namespace (or is
itself a copy out of the list): an owner reference on any other object ends the
process. `CleanupPanics` is that step; the process comes back by `Reboot`.

Abstracted: the order of resources in a loop is arbitrary; the CR's own informer is
current (its lag is the other module's subject); a deletion the cleanup finished
removes the CR at once; a label and an annotation that mark an object as the
operator's are one `owner`. `Create` answers with an object without kind, which
`Add` ignores: `CreateResource` caches nothing. `ImmutableSpec` and
`AlwaysCallUpdateFunc` are used by no operand. An informer that is several versions
behind catches up in one step; the events on the way are kept in `news`.

## 3. Runs

`CHECK_DEADLOCK FALSE` everywhere: an operator with nothing to do is idle, and users
stop when their bound is reached.

| run | question | instance |
|---|---|---|
| `rivals` | finalizer guard, single owner, and the abstract life cycle, with two CRs | 2 CRs, 4 user writes, 1 crash, symmetric in the CRs |
| `faults` | truth of the status, pausing, spec of the cache, deletion, no CR forgotten | 1 CR, 2 specs, 2 generations, pausing, foreign finalizer, 4 user writes, 1 crash, 1 failing or lost call |
| `liveness` | edits, unpausing, deletion take effect unless a watch is missing; types | 1 CR, deploying and not, 2 generations, pausing, 3 user writes, 1 crash |
| `startup` | the record of the CRDs, the guard and life cycle of CRs of other namespaces | CRs `a`, `b` in the operator's namespace, `c`, `d` outside, 2 required CRDs and another, 2 user writes, 1 restart, 2 CRDs installed or deleted |
| `startup_liveness` | the wait ends, deletions outlast it | 1 CR, 1 required CRD and another, 2 user writes, 1 restart, 3 CRD writes |
| `operands` | version cache, edits undone, deletions end, what a cleanup may leave | a pipeline and a cluster role, starts with or without a live CR, 2 user writes (edits, owner references, finalizers, deletions, changes of the CR), 1 restart, 1 failing call, lag |
| `quiet` | cleanup leaves nothing; types | a fixed binding in `kube`, the account `pipeline`, a legacy ClusterTask, the gate, 2 pipeline namespaces of which one is a system's, 3 user writes, 1 failing call, no lag, no restart |

Why the bounds are enough: a race here needs at most two CRs (the check is *more
than one*), one create, one change under way, one deletion and one recreation (four
writes), and one crash; a second crash finds the cluster as the first left it.
Generations matter by equality with the observed one, so two suffice. Two
resources of different kinds show everything one loop step can do to the next. For
the start-up, two CRs in one namespace are what `setConditions` refuses, two outside of it
are what the single-owner step of their life cycle is about, a CRD has to
appear, go and come back (three writes) to leave a stale record behind, and one
restart meets a CRD that is terminating.
`OnlyOverlookedLeft` (in `operands`) says that a cleanup leaves nothing it has seen.
That it sees everything (`NothingLeft`) is true in `quiet` only, under the four
conditions of its cfg: no lag, no restart, no owner references and no resource that
moves. Each is needed: a restart breaks it (`restart_cleanup`), so do an
informer that has not shown a resource yet (set `Lagging` to `TRUE` in `quiet`), an
owner reference somebody adds (set `Referencing` to `TRUE`) and, for pipelines and
config maps, a change of `spec.pipelines.namespace` (make one pipeline the only
resource of `quiet`). The two namespaces of `quiet` move none of its resources; they
switch the gate.

Runs that show where the code differs from what it says of itself:

| run | what happens |
|---|---|
| `crash_in_init` | a crash or conflict between the two writes of an initialization: the CR stays in *Deploying* |
| `startup_guard` | a CR created while CRDs are missing is marked *Deployed*, is taken for initialized and gets no finalizer |
| `legacy_deleted` | a CR with the old finalizer deleted before migration: never cleaned up |
| `pending_task` | a Task that goes last brings no further cleanup |
| `restart_cleanup` | a cleanup right after a restart looks in namespace "" |

Two more observations have no run of their own. When a call of `initialize` fails for
no reason of the CR's, the error report of `handleError` writes a phase, so the CR
counts as initialized and is deployed without a finalizer (set `MaxApiErrors` to 1 in
`rivals`: `FinalizerGuards` fails). And the CR that survives its rivals keeps the
status of several CRs, since nothing enqueues it; no text of the repository promises
otherwise.

### Fairness

Weak fairness for the worker's steps, deliveries, expiring back-offs and the
reports the code waits for: goroutines, watches and timers of controller-runtime
keep running. Strong fairness for `Start(c)`: the work queue is first in, first
out, so a name in it is served although others come. Strong fairness for
`OperandsReady` and `CleanupDone`: loops that are tried again and again succeed at
some time; without it no operator could promise anything. `ResourceGone` stands
for the watches of the operands and is fair only for removals a watch reports. Which
resource goes last is open, so the CR may be one of `unreported` instead: it keeps its
finalizer until something else enqueues it, and `NothingForgotten`,
`SpecEditTakesEffect`, `DeletionCompletes` and `DeletionOutlastsWaiting` say nothing of it
(the real case is `pending_task`). In `OperandResources` failing calls are bounded, so weak
fairness is enough, and removal of somebody else's finalizer or owner reference is
never assumed (`Held` and `Referenced` exempt the deletions they hold up).

In `OperatorStartup` the same holds for the init controller: weak fairness for its two
steps, for the start of the reconciler, for deliveries and its back-off; strong
fairness for `StartCrd(k)`, again because its queue is first in, first out. Of the
reconciler's steps fairness is asked while it runs (`Running`), never while the process
waits. Nothing is
assumed of the CRDs: `ReconcilerStarts` asks for a start only while they stay.

## 4. Proofs

All for arbitrary sets of CRs, specs, CRDs, resources and namespaces and arbitrary
bounds. What every theorem assumes of the constants is the `ASSUME` of its module
(`ConstantsAssumption`, `StartupAssumption`, `ResourcesAssumption`), which TLC
evaluates in every run.

**The reconciler, for any number of failing and lost calls.**

* `TypeCorrect`: `Spec => []TypeOK`. One lemma per group of helpers (what is written
  to a CR is a CR, what a write does to the stored CRs), then one step per action.
* `DeployedReflectsSpecAlways`, `PauseRespectedAlways`: a status speaks of the
  generation a pass has seen, and passes see old copies. `StatusInv` says that no
  stored CR or copy observes a generation later than its own, that a stored status
  that claims the latest generation is deployed is right, and what the pass knows at
  each `pc`: a copy that is still the stored version has its generation, and before
  operands are touched the stored phase has left *Deployed* (`preUpdateStatus`) and
  the stored status is not paused. A write whose answer is lost leaves the pass with a
  copy that is no longer current.
* `CacheMatchesSpecAlways`: `CacheInv`, the cache is filled under `lastSpec` only, and
  within a pass that is the spec of its copy.
* `NothingForgottenAlways`: a CR with something to do (to release, to initialize, to
  end a pause, to deploy a new spec, to finish a deployment) has a pass under way or
  to come. It is what the liveness runs rest on, and the predicate, which drops events,
  works against it. `EventsInv` says why it holds: unless an event is due, the
  informer's copy shows all the predicate looks at (`ShownInv`); a pass that may end
  without a retry has either something due or a copy that shows as much, so it judged
  the CR by what is stored (`SeenInv`); and a CR that is not initialized is neither
  paused nor deployed (`BlankInv`), so nothing but its initialization is to do.
  What the code forgets is left out: by `Unfinished` the survivor of several CRs and a CR
  whose initialization was cut short between its two writes (`crash_in_init`), by
  `unreported` a CR that relies on the removal of something unwatched (`pending_task`).
* `DeletionOneWayAlways`: an action property. `DeletionInv` says that a stored CR in
  *Deleting* or *Deleted* is being deleted and no longer carries the old finalizer,
  so only the deletion branch can hold a current copy of it; every other write to it
  is refused.

**The reconciler, if calls fail only for reasons of the CR's** (`MaxApiErrors = 0`:
conflict, absence, refusal; a failing call of an initialization breaks the guard, see
above).

* `FinalizerGuardsAlways`: `FinalizerGuards` speaks of the API server, and passes act
  on copies. `GuardInv(G)` adds, for stored CRs of a set `G`, that *initialized and
  not being deleted implies the operator's finalizer*, that a copy which is the stored
  version equals it where it matters, and for each `pc` what the pass has established
  if it works on a CR of `G`. A crash between the two writes of an initialization keeps
  it, since the finalizer is first. Here `G` is all CRs.
* `SingleOwnerAlways`, with at most one CR of an older operator: `OwnerInv(G)`, while a
  pass is about to deploy for a CR of `G` nobody else's resources are there.
* `LifecycleImplemented`: `Spec => ImplementsLifecycle`, that is every behaviour of
  the reconciler is one of `CRLifecycle`, whatever older operators left.
  `LifecycleInv(G)` joins the two above with `CleanupInv` (a pass in its cleanup holds a
  CR that is stored, being deleted and guarded); one lemma per group of actions names
  the abstract step it is.

**Start-up.**

* `StartupTypeOKAlways`: with it `StartupRest` says that no pass is under way before the
  reconciler runs.
* `RecordTracksClusterAlways`: a record of a required CRD that differs from the API
  server is on the way to be looked at again. It is not inductive, for the informer
  lies between the two: `RecordInv` has a copy that is old with an event coming, and a
  record that differs from the copy with its name in event, queue, back-off or work.
* `OthersGuardedAlways`, `OthersLifecycleAlways`, for `MaxApiErrors = 0`: CRs outside
  the operator's namespace are guarded whenever something may be deployed for them, and
  the whole composition implements their life cycle. The init controller breaks both
  for the CRs it writes (`startup_guard`), so the reconciler's invariants cannot be used
  for all CRs. This is why they speak of a set: `OthersInv` is `LifecycleInv` of the CRs
  of other namespaces, `TargetInv` says that the CR the init controller writes is none
  of them, and the reconciler's steps are covered by the reconciler's own lemmas.

**Operands.** `TypeCorrect` (with `CursorInv`: what the cursor of a loop points at) and
`CacheSoundAlways`: an entry of the version cache never vouches for edited data.
`CacheInv` relates four things by uid, resourceVersion and generation: the stored
object, the informer's copy, the copy in work, and the entry. A copy never runs ahead
of the stored object (`Follows`), equal versions are equal objects, an entry never
runs ahead either (`NotAhead`), and an entry that matches an object vouches for the
template's data. The uid is what carries it over deletion and recreation, where
generations start anew; no assumption is made about lag, restarts or failing calls.

`OnlyOverlookedLeftAlways`: a CR that has left leaves nothing behind but what its last
cleanup passed over. It assumes nothing of lag, restarts, owner references or specs; it
says that the two ways to pass over a resource, a template that points elsewhere and an
informer that does not show it, are the only ways to lose one, which no failing call, no
slow finalizer, no panic and no crash adds to. The invariant needs `ProgressInv` (what a
cleanup has neither passed over nor counted as pending is still on its list or about to
be deleted, and no cleanup is under way once the CR is gone) and `LegacyInv` (ClusterTasks
are on that list because the informer knows those of the CR, and no reconcile writes one).

Each invariant was checked by TLC on the instances of the runs before it was proved.

Only model-checked: liveness and whatever rests on fairness or `ENABLED`, which the
prover cannot express (`SpecEditTakesEffect`, `UnpauseTakesEffect`, `DeletionCompletes`,
`ReconcilerStarts`, `DeletionOutlastsWaiting`, `EditsAreReverted`, `CleanupEnds`), and
`NothingLeft`, which holds only in the instance of `quiet`. Every other invariant and
action property the passing runs check is a theorem.

## 5. Not modelled

* What templates hold: the images of task steps and the default of `virtioContainer`
  parameters come from environment variables that are constant while the process
  runs, `filterUnusedObjects` runs once, and `AddAppLabels` copies two labels. They
  decide which data the model calls the template's, not when it is written.
* The bundle reader: decoding YAML by kind before any controller exists.
* `pauseCRs`, `ImmutableSpec`, `AlwaysCallUpdateFunc`, `NamespacedResource`: no caller.
* Validation by the API server beyond finalizers, versions and existence. A binding
  that somebody recreates with another `roleRef` is refused every update.
* CRs in several namespaces, one after the other: `OperandResources` has one CR in
  `OwnNs`. The pipelines set the namespace of a service account or a binding only while
  it is empty (`tekton-pipelines.go:195`, `240`), so those of a later CR elsewhere would
  go to the namespace of the first.
* The two operands' objects of one name: the model gives each name one template.
* Wiring of the manager, flags, health checks, leader election (one replica is assumed;
  the deployment sets one), scheme registration, generated deep copies, the CSV
  generator, manifests, tests, vendored code. What is vendored and matters (informers,
  queue, client, API server) is modelled from how the operator uses it and marked
  external in `PROJECT.json`.

## 6. What is left

1. `OperandResources` as a refinement of the reconciler's operand step: what
   `OperandsReady` and `CleanupDone` assume of it.
2. Rejected updates (`roleRef`) once the validation they need is in the model.
