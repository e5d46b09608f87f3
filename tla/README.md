# Verification of the AddonConfig controller

TLA+ models, TLC runs and TLAPS proofs for the controller in this repository:
a Kubernetes operator that validates `AddonConfig` objects against the schema
of an `AddonConfigDefinition`, fills in defaults, resolves the target cluster
and the dependencies, renders the definition's template and persists the
rendering in a Secret or ConfigMap.

Run everything from this directory: `tlc -config core.cfg
MCAddonConfigController`, `tlapm AddonConfigControllerProofs.tla`.

## 1. The system

| Component | State | Operations | Correct when |
|---|---|---|---|
| AddonConfig controller (`controllers/addonconfig_controller.go`) | none of its own: the informer caches, the workqueue, the context of one reconciliation | `Reconcile`, `reconcile`, `patchAddonConfig`, the mapping of definitions to requests | no change is lost; at rest the status tells of the present spec and definition; it comes to rest; once the inputs are in order it reaches Ready |
| Phases (`..._phases.go`) | conditions, `fieldErrors`, `observedSchemaUID`, `outputRef`, `spec.values` of the working copy; template variables; the output resource | schema, defaulting, validation, target, values, dependencies, template, saving | conditions are true of the inputs on every path; nothing is rendered from an invalid configuration; the output is that of the present inputs |
| Condition library (`util/conditions`) | a sorted list of conditions | set, delete, summarise, mirror, aggregate, difference and three-way merge | the list stays sorted with one condition per type, a summary does not depend on that order, transition times change with the state only, a merge overwrites nobody else's condition, in a retry either |
| Patch helper (`util/patch`) | the object before and after | three patches: conditions (optimistic lock, five attempts), spec, status | the changes of the reconciliation, and nothing else, reach the object |
| API types (`api/v1alpha1`, `types/template`) | the objects | – | – |
| Manager (`main.go`) | the leader lease | start, end, leader election | several managers, or one after another, agree in the end |
| Utilities (`util/util.go`) | – | list by definition, least requeue delay, template functions, owner references | – |

How they interact. The informers of the manager follow two kinds in the API
server, AddonConfig and AddonConfigDefinition, each with a cache of its own.
A version of an AddonConfig enqueues its request; a version of a definition
enqueues the AddonConfigs that *in the cache* refer to it. The workqueue holds
a request once and hands it to one worker. `Reconcile` copies the AddonConfig
from the cache, runs the phases on the copy, saves the rendering, and in a
deferred call summarises the conditions into Ready and sends what it changed as
three patches. Clusters, dependencies and outputs are unstructured objects: they
are read from and written to the API server, and they are not watched. An error
puts the request back after a back-off, a missing input after 30 seconds.

What is hard here: the copy may be stale, by the controller's own writes too;
the two caches are not synchronised with each other; between the copy and the
patches users edit, delete and recreate the object, another controller sets its
conditions and the definition is replaced; only one of the three patches is
locked; each may fail, or succeed with its reply lost; phases go on after
a phase failed; the process may stop anywhere. `PROJECT.json` lists the hazards
at their lines.

## 2. Modules

| Module | Models | Content |
|---|---|---|
| `Conditions` | `util/conditions` | pure operators on functions from types: `Set`, `Delete`, `Summary`, `SetSummary`, `NewPatch`, `Conflicts`, `Apply` |
| `AddonConfigTypes` | `api/v1alpha1`, `types/template`, the API server's part | the objects, and what a write does to resourceVersion and generation |
| `PatchHelper` | `util/patch` | what each patch makes of the stored object, from the copy before, the copy after and the stored object |
| `Phases` | `addonconfig_controller_phases.go` | one operator per phase, from the context of a reconciliation to the next |
| `AddonConfigController` | `addonconfig_controller.go`, `patchStatusConditions`, informers, queue, environment | the state machine for one AddonConfig, its properties, fairness |
| `ObservedObject` | the promise of `status.observedGeneration` | abstract: no caches, queue or patches. `AddonConfigController` implements it |
| `ConditionParameters` | – | the constants of the next two |
| `ConditionMap` | `util/conditions` as its users see it | abstract: several writers, an optimistic lock with retries, a clock; conditions are functions |
| `ConditionList` | `util/conditions` as it is written | the same steps on sorted lists, groups and lists of operations. Implements `ConditionMap` |
| `ManagerReplicas` | `main.go`, and the controller again | several managers on one AddonConfig, with leader election and without |
| `EventDispatch` | `SetupWithManager`, `addonConfigDefinitionToAddonConfig`, `GetAddonConfigsByType`, the workqueue | many AddonConfigs and definitions, one worker |
| `MC…` | – | small instances for TLC |
| `PhaseProofs` | – | lemmas about `Phases` and `PatchHelper`, for both modules that extend them: types, what each phase leaves alone and what it tells of its inputs, what a patch that changes nothing found stored |
| `AddonConfigControllerProofs` | – | type correctness; the conditions of others are preserved |
| `ReconcileProofs` | – | no update is lost; nothing is rendered from an invalid configuration |
| `ObservedObjectProofs` | – | the controller implements `ObservedObject` |
| `StatusProofs` | – | conditions and field errors are true of the inputs; Ready means persisted |
| `ConditionMapProofs` | – | transition times; a merge overwrites nobody |
| `EventDispatchProofs` | – | no AddonConfig is forgotten |
| `ManagerReplicasProofs` | – | the managers agree when they rest |

`AddonConfigController` and `ManagerReplicas` extend the first four, each of which
extends the one above it. The names are those of the code where TLA+ allows it.

State and actions of `AddonConfigController`:

| Model | Code |
|---|---|
| `store`, `def` | the objects in the API server |
| `events`, `cache`; `defEvents`, `cacheDef` | versions on their way to an informer, and its cache |
| `queued`, `delayed` | the request in the workqueue; waiting for its back-off or RequeueAfter |
| `w` | the worker: where it is (`pc`), the copy `before`, the working copy `ac`, `addonConfigContext`, the errors and the result so far, the attempts of the conditions patch |
| `cluster`, `objects`, `outputs` | what the unstructured client sees |
| `DeliverConfig`, `DeliverDefinition`, `Timer` | event handlers, `addonConfigDefinitionToAddonConfig`, the delaying queue |
| `Start` | `Reconcile` up to the first phase: the read, the two early returns |
| `Validate`, `Target`, `ResolveDependency`*, `DependenciesResolved`, `RenderAndSave` | the phases; a step of its own for each call to the API server |
| `PatchConditions`*, `PatchSpec`, `PatchStatus` | the deferred patches, one attempt each; the last one ends the reconciliation |
| `CreateConfig` … `Resync` | the environment |

(* may be repeated.)

`ObservedObject` is the view of a client that compares observedGeneration with
generation. `Behind` is the only part of the mapping that is not a field of
the object: the cache or the reconciliation under way is about an AddonConfig of
the same name that was deleted. As long as it is true a report may be
anything, because the patch of the status has no uid (`ReportOfPredecessor`); if
not, a report is of a generation that exists, and for a name that was never used
before it never goes back.

`ConditionList` has the lists of the Go code: `Set` searches, replaces in place and
sorts again; a merge groups conditions by status and severity; `Apply` goes through
the operations one by one, each on the conditions and on the patch the ones
before it left, because `Set` writes the transition time through the pointer that
the operation holds and the next attempt uses the operation again. The mapping turns
each list into a function; `wanted` is the after-side of the operations in hand.

State of `ManagerReplicas`: as above, but `events`, `cache`, `queued`, `delayed` and `w` per
manager, `elect` (the flag) and `active` (the managers whose controllers run).
`StartManager` lists the caches and enqueues what is there; with election it waits
until nobody is active. `StopManager` loses everything in memory. It is coarser than
the code in three places. AddonConfig and definition are read in one step. A patch
with nothing to send is no step. And the get and the update of `CreateOrUpdate` are
one step, though another replica may write the output in between; the API server
then refuses the update, and the error is dropped. At rest that makes no
difference: the manager whose write took effect last did not save again after it
(nothing would have overtaken that save), so that write is from its last
reconciliation. Versions carry no number: a cache is outdated exactly as
long as its informer has something to deliver (`Lagging`). Not in it: requests of an
ended process that still arrive after the next leader has started.

State of `EventDispatch`: the objects, an event stream and a cache of each kind, `notes`
(definitions in the cache of which the handler has not been told, since an informer
fills its cache before it calls handlers), the workqueue with its dirty and
processing sets, `delayed`, the worker. A reconciliation is three steps, and its phases
are reduced to whether the definition was there; the order in which requests of one
event are enqueued is arbitrary, as the order of a list from the cache is.

The grain of the steps is that of the shared state: a step of the worker reads or
writes it once. The get and the patch of one attempt of `patchStatusConditions`
are one step: the get reads the cache, which lags behind the store by any
number of versions, so a write that falls between the two is the same as one
the cache had not seen. `reconcileValidation` reads one cache and is one step for
the same reason. `Summarise`, which the deferred call does before it patches, is
part of the step that ends the phases.

Abstractions.

- `spec.values` is an object of at most one field, or null, or not an object. One
  field is enough to tell a missing value, a default and a user's value apart,
  and to have merge patches meet.
- There is one name for the definition and one for the cluster: `spec.ref` and
  `spec.target` say whether they are given. A definition that is replaced gets
  another uid.
- A schema is its kind, its default and the values it admits. The kinds are those
  the phases tell apart: none, structural, nonstructural (no structural form, so no
  defaulting, but a validator) and malformed (no validator either, as with a `$ref`
  that is no URL). Conversion to the internal version
  (`addonconfig_controller_phases.go:149-160`) does not fail for a schema that the API
  server stores and the client decodes, and is left out.
- A template is whether it parses and the variables it cannot do without.
  A reason stands for a reason and its message.
- Outputs are told apart by where they are (`Places`): in the manager's cluster, in
  the namespace of the AddonConfig or in the one that the definition gives, and in
  the target cluster, where the code never writes. Names are not kept, except in
  `EventDispatch`, where two AddonConfigs share one.
- `status.fieldErrors` and `status.outputRef` are JSON objects, which a merge patch
  changes key by key (`MergeKeys`); the model keeps the sets of their keys.
- Outside `ConditionList` the list of conditions is a function from types, and the
  clock stands still (`Now`), so transition times never differ; `ConditionList`
  shows that the first loses nothing, and has a clock.
- Messages of conditions are part of the reason. Where one counts conditions
  (`aggregate`), the count is in the reason (`Counted`).
- Kinds of output other than Secret and ConfigMap, for which the code writes no
  data, are not told apart.
- A refused call and a call that never arrived look alike; a patch whose reply is
  lost may have been applied (`Uncertain`, `SaveFails`). Faults of the output are
  drawn from a budget of their own, because the code drops their error.
- Typed reads are served by synced caches and can only fail with NotFound, so
  the branches for other errors of these reads (`addonconfig_controller.go:74-78`,
  `addonconfig_controller_phases.go:111-128`) are not reached.
- One worker per manager (`MaxConcurrentReconciles` is not set); one manager except
  in `ManagerReplicas`.

## 3. Properties and runs

`MaxDisturbances` (and `MaxEdits`, `MaxForeign`, `MaxChanges`, `MaxStops`) bound how
often the environment may do something, and each run names what it may do. These systems
stop once the budget is used up and they are at rest, so deadlock is not checked,
except in `conditions`, which goes on forever.

Passing runs:

| Run | Distinct states | Checks |
|---|---|---|
| `core` | 766 000 | `RestMeansReconciled`: at rest the observed generation is the generation, Ready is the summary of the stored conditions (if there is a definitionRef or a condition to summarise) and the observed schema is the present definition. `WritesBounded`: the controller's own writes enqueue it again, but a disturbance costs at most six writes. `OutputFromValidConfig`: what is persisted was admitted by the schema of the definition it was rendered with. `RestMeansPersisted`: at rest, with Ready and OutputResourceUpdated True, the place where the code puts the definition's kind of output has the present template rendered with the present values, and the only key of `outputRef` is that kind (that a remote output is elsewhere than the API says is `output_misplaced`). `ForeignConditionsPreserved`: no step of the controller changes another controller's condition. `ReportsObservedGeneration`: the refinement of `ObservedObject`, with an AddonConfig that is deleted and created again. |
| `phases` | 2 909 000 | `TypeOK`. `StatusTruthful`, for every kind of wrong definition and spec, following one another: with nothing left to deliver or to run, the status is about the present values and definition, on the error paths too, and what was reported of values or definitions that are gone is withdrawn (what it says exactly is below). |
| `liveness` | 349 000 | `Converges`: if the inputs are in order from some time on, the AddonConfig is Ready with its output persisted from some time on. `StatusCatchesUp`: whatever the inputs, the observed generation is the generation again and again. |
| `conditions` | 305 000 | `ImplementsMap`: the refinement of `ConditionMap`. `ListsOrdered`. `SummariesAgree`: the summary by groups is the summary by definition. `DatedByTransition`: a transition time moves exactly when the state does. `NothingOverwritten`: a merge changes a condition the controller does not own only if nobody else has since it was read, in the second attempt too. |
| `replicas` | 91 000 | `ReplicasAgree`: when the managers rest, status (with outputRef, the schema's uid and the field errors) and output are the present ones, whoever wrote last. `ReplicasSettle`: from some time on they are, and nobody writes the AddonConfig or the output any more; a new leader completes what the last one left. |
| `dispatch` | 1 001 000 | `QuietMeansCurrent`: an AddonConfig of which nothing is under way has observed the definition that it refers to now. `EveryoneServed`: each AddonConfig becomes and stays current, although one whose definition is missing is retried forever by the same worker. |

`StatusTruthful` says as much as the code brings up to date (`Truthful`): Ready is the
summary, with its reason and severity; ValidSchema is False without a schema and
True with a structural one; DefaultingComplete is True exactly if defaults could be
put in, and then no empty object is left that has a default; the field errors are
those of the present values, unless no validator can be made of the schema; ValidConfig
is False if the present values are not admitted and, for a structural schema, True
if they are; ValidTarget and ValidTemplate tell of a target that is not given and of a
template that is rejected. What it leaves open is what the code does not bring up to date,
or reports against the comments of `addonconfig_types.go`:

- Field errors stay when no validator can be made of the present schema (`errors_stale`).
- ValidSchema is True for any schema, whether or not a structural schema or a
  validator can be made of it (line 71: "documents whether a schema exists and is valid").
- ValidConfig is True next to a False ValidSchema if the definition is missing, which is
  no error (line 72: ValidSchema "Must be true before validating").
- ValidConfig stays False when the definition of an invalid AddonConfig loses its
  schema; the field errors that its message refers to (line 107) are withdrawn.
- Values that are not given are null and get no default, with DefaultingComplete True.
- A template with nested templates is reported, but fails with `errors.Wrap(nil)`, which is
  nil, so an empty rendering is saved (`addonconfig_controller.go:133`: "Only want to save
  the rendered template if nothing has failed").

ValidDependency has a run of its own (`dependency_stale`). Nothing is said of whether the
target cluster and the dependencies are there now: they are not watched. A save that
fails is reported nowhere: OutputResourceUpdated is True and `outputRef` names an output
that does not exist. `RestMeansPersisted` therefore has no failing saves in its run,
`OutputRefDescribes` would fail for local outputs, too, if `output_misplaced` had them,
and in `phases`, which does, `StatusTruthful` speaks of the inputs only.

What `replicas` shows beyond its properties: without leader election the
observed generation may go back, so `ObservedObject` is not implemented then; and
while one replica has not seen an edited definition, both write `outputRef` and output
back and forth without end (`WritesBounded` does not hold either), until the event
arrives. A replica that ends for good at the wrong moment may leave its older output
behind, which is why `ReplicasAgree` asks for election or for every replica to be running.
`config/manager/manager.yaml` passes `--leader-elect`; `main.go` has it off.

Runs that show a disagreement between the code and what its comments say (the
quotations are under `findings` in `PROJECT.json`):

| Run | Property | What happens |
|---|---|---|
| `ready_stale` | `ReadyIsSummary` | The reconciliation of a stale copy recomputes a condition to the value of its copy; the difference is empty, so the stored, different condition stays, under a Ready that does not count it. The next reconciliation repairs it (`core`). |
| `value_lost` | `ExplicitValuesPreserved` | The unlocked spec patch puts a default over the value a user gave meanwhile. |
| `output_misplaced` | `OutputRefDescribes` | A remote output is written with the client of the manager's own cluster, in the namespace the definition gives, and outputRef names it without that namespace. |
| `errors_stale` | `FieldErrorsExist` | The definition of an invalid AddonConfig gets a schema that no validator can be made of: the phase returns before it withdraws the field errors. |
| `dependency_stale` | `DependencyRecovers` | ValidDependency is never withdrawn, although the dependency is there and the output is persisted. |
| `shared_output` | `OutputIsOwn` | Two AddonConfigs of one cluster refer to one definition, whose output is named after the cluster; the second takes over the output of the first, which keeps OutputResourceUpdated True. |

`Converges` asks for every dependency to be there. An optional one that is missing is
skipped without a requeue, and one that appears later is rendered with the next event
only; the model does not keep what dependencies contain, and no comment says that
the output follows them.

The bounds and why they are enough. In `core` two disturbances let one fall before and
one after every step of a reconciliation, or two between any two steps, while
versions of both objects are in flight; the actions are symmetric in what they read,
so a third disturbance repeats a stale read that two already produce. Two
incarnations of the AddonConfig are enough for one to be taken for the other. Two
values are enough for a user's value that is not the default; two definitions for one
that admits the values and one that does not, or writes elsewhere; `phases` has one
for every way a definition can be wrong (several in one where a phase that fails, or only
reports, does not hide the others), and two disturbances lead from one through a second to a third,
or from one to another while the cluster, an object or a save is missing or the values
change as well. Two attempts (`MaxAttempts`, five in the code)
are the first number with a retry and with retries that run out. Two matches are the
first number that is not unique (`liveness`). `conditions`: two types besides Ready, one owned and
one shared; two changes to the copy, so that one may undo the other; two foreign
writes, so that each of two attempts meets one; a clock that moves once. `replicas`: two
managers; an informer lags behind by at most one version (`MaxLag`: a write waits
while one lags further), which is what it takes to conflict, to write something older and
to be overtaken; two leaders may end one after the other; the user may
withdraw the values, so that defaults are put in by either manager. `dispatch`: two AddonConfigs for
one definition, or for two; two changes, so that a definitionRef is switched while
either definition is edited, created or removed; one definition is missing from the
start (`Installed`).

`WritesBounded` counts the disturbance itself, the conditions, spec and status patches of
a reconciliation and the writes that correct what a stale copy got wrong
(`WritesPerDisturbance`).

Fairness (in `liveness`, `replicas`, `dispatch`, `dependency_stale` only): weak fairness
of each worker, of the watches and handlers, and of the timers. The worker is a
goroutine that is never blocked by others; watches are delivered in order by client-go
and re-listed when they break; handlers run in a goroutine of their own; the
delaying queue fires. In `replicas` also of `StartManager`: a Deployment starts an
ended manager again, and a lease that is not renewed expires. Nothing is assumed of
users or faults: `Converges` is conditional on inputs that are in order from some time
on, and the others hold because the number of changes and faults is bounded.

Every property is checked against a faulty variant of the code (`mutants` in
`PROJECT.json`): the operators commented "Faulty variant", each a change a bug could
make, such as a patch without resourceVersion or an error that is not returned.

## 4. Proofs

The theorems hold for every value of the constants that satisfies the assumptions, which
TLC evaluates in the runs: of the controller `ValuesAssumption`, `RevisionAssumption` and
`ControllerAssumption` (the special values differ, definitions are well formed, a
definition without a schema has no default and admits every value, bounds are
natural numbers), of the library `MapAssumption`, of the dispatch
`DispatchAssumption`, of the managers `ReplicasAssumption` (there is one; specs refer to
the definition; definitions have no dependencies). Every inductive invariant was first checked by TLC.

| Theorem | States | Inductive invariant |
|---|---|---|
| `TypeCorrect` | `Spec => []TypeOK` | `TypeOK` |
| `ForeignConditionsSafe` | `Spec => ForeignConditionsPreserved` | `LockInv` |
| `RestReconciledSafe` | `Spec => []RestMeansReconciled` | `ReconcileInv` |
| `OutputsValid` | `Spec => []OutputFromValidConfig` | `ValidInv` |
| `ObservedImplemented` | `Spec => ReportsObservedGeneration`, a refinement | `VersionInv` |
| `TruthfulWhileAnswered` | `Answers` implies `Spec => []StatusTruthful` | `StatusInv` |
| `ReadyMeansPersisted` | `DefinitionsComplete`, `SavesSucceed` imply `Spec => []RestMeansPersisted` | `PersistedInv` |
| `TransitionsDated`, `MergesSafe` | `Spec => DatedByTransition`, `Spec => NothingOverwritten` (of `ConditionMap`) | `MapInv` |
| `QuietCurrent` | `Spec => []QuietMeansCurrent` (of `EventDispatch`) | `DispatchInv` |
| `ReplicasAgreeSafe` | `DefinitionsComplete` implies `Spec => []ReplicasAgree` (of `ManagerReplicas`) | `ReplicasInv` |

How the modules build on each other: `PhaseProofs` shows of the operators of `Phases`
and `PatchHelper` that they return what has the right type, what each phase leaves alone
(the lemmas `...Keeps`, `...Leaves`) and what it tells of its inputs (`...Tells`), that
`Summarise` makes Ready the summary, and what a patch found stored if it changed nothing
(`...Patched`). `AddonConfigControllerProofs` and `ManagerReplicasProofs` both extend it;
`ReconcileProofs` adds the informers to the former, and both `ObservedObjectProofs` and
`StatusProofs` start from its invariant. A proof that a step preserves an invariant has
a lemma per conjunct, which splits by the actions that disturb the conjunct.

- `TypeCorrect`. What could go wrong is in the partial functions: the first condition
  of the top group exists when the group is not empty (`SummaryType`), the
  dependency at the worker's position exists while the loop runs, and `outputRef`
  names an output only in the branch where the output has one definite shape
  (`SaveType`).
- `ForeignConditionsSafe` does not follow from types: a merge into an old version would
  carry an old foreign condition along. `LockInv` adds that a version that is cached
  or on its way is older than the stored object or *is* the stored object
  (`VersionsIdentify`), and that the working copy has the foreign condition of the
  copy it started from (`ForeignUntouched`). So a patch whose resourceVersion the
  server accepts was merged into the stored list itself, and its difference has no
  operation on the foreign condition. The patches of spec and status carry no
  conditions.
- `RestReconciledSafe`. The property speaks of a state at rest only, so `ReconcileInv`
  says what keeps it true on the way: the last version to deliver is the stored one
  (`InformersFollow`); unless the request was queued again, the worker's copies are
  those in the caches (`CopiesCurrent`); the copy carries its own result from the phase
  that finds it (`Recorded`); and a patch of the conditions that left no event behind
  found them stored already (`ConditionsStored`), which is where a stale difference is
  caught: it ends with an event, and thus with another reconciliation.
- `OutputsValid`. Between validation and saving the values of the copy are admitted by
  the definition of the context, unless a phase has failed (`ValuesValid`); the phases in
  between change neither.
- `ObservedImplemented`. `VersionInv` orders the versions: what the worker read is no
  later than the cache, the cache no later than any version to deliver, those are in
  order, and no later than what is stored; while the first incarnation lives, its report is
  no later than the worker's copy. Each action then is a step of `ObservedObject` or a
  stutter. For later incarnations `Behind` becomes false once and stays false
  (`NotBehindAgain`).
- `TruthfulWhileAnswered`. Each phase is shown to tell of its inputs (`...Tells`) and to
  leave alone what others told (`...Leaves`), so the working copy is true of the copy of
  the inputs (`Told`); the patches store it (`SpecStored`, `ConditionsStored`). A phase that
  returns early tells nothing, so `Told` speaks of the field errors only if a validator can
  be made of the schema; and a True ValidConfig is told of structural schemas, for which no
  phase of the validation but the last one can fail. `Answers`
  (no `"fault"` in `Disturbances`) is needed, not a convenience: after a call that failed
  the old status stays until the retry, and TLC has the counterexample.
- `ReadyMeansPersisted`. `Saved` says it of the working copy, `RestPersisted` of the
  stored object; the output is at the `Place` of its kind, and that kind is the only key of
  `outputRef`. The hypotheses name what the code leaves unreported: an error of
  `CreateOrUpdate` (`SavesSucceed`), an output name that cannot be
  computed, or a template that renders to nothing (`DefinitionsComplete`), after each of
  which OutputResourceUpdated keeps the value it had. Faults of all other calls are
  allowed. The definitions of `core` satisfy both.
- `TransitionsDated`, `MergesSafe`. `wanted` differs from `after` in transition times only
  (`WantedIsAfter`), however many attempts have already written through the operations;
  a version that nobody has written since is the stored one (`FreshIsStored`). They are
  about `ConditionMap`; `ConditionList` states the same formulas through its mapping,
  for which its refinement of `ConditionMap` is needed, and that is model-checked.
- `QuietCurrent`. An AddonConfig that is not dirty, not delayed and has no event or note
  about itself or its definition is either served or being served with the present
  definition (`Served`). The case that matters is the handler of definitions, which finds
  AddonConfigs by the cache: one whose switch of definitionRef the cache does not show
  has an event to come.
- `ReplicasAgreeSafe`. Any manager may write last, and any of them may render last, so
  no invariant about one of them is enough. A manager is `Undisturbed` if its request is
  not queued and its informers have nothing to deliver. A write that changes something
  disturbs every manager that runs, the writer among them; hence, from one step to the
  next, a manager is undisturbed only if nothing that is stored changed
  (`UndisturbedStep`). What an undisturbed manager reconciles is therefore what is stored
  (`CopiesCurrent`, `InformersFollow`), its patches so far found stored what they send
  (`PatchesStored`), and when it comes to rest with nothing to retry, what is stored is
  sound (`RestSound`): the generation, the uid of the schema, the field errors, ValidConfig,
  Ready and the only key of `outputRef` are those of the present spec and definition. For the output: if no manager is going to render any more
  (`Rendered` of all of them), the last one that rendered did so from what is stored
  (`OutputCurrent`). Here a manager that ends matters: with election no other one runs, so
  the next leader starts and reconciles (`OneLeader`); without, it is the hypothesis of
  the property that none has ended. `DefinitionsComplete` is needed for the same reason as
  above: the write of an output whose name cannot be computed fails and is not reported.

What the attempts found. `RestMeansReconciled` used to claim of every AddonConfig that Ready
is the summary. The proof failed, for a reason that the runs were too small for: the
conditions patch for an AddonConfig that was deleted and created again without a
definitionRef may carry Ready over alone (the other operations being empty), and as
`SetSummary` sets nothing when there is nothing in scope, no reconciliation corrects
it. The property now says so, and no more is given up. `EventDispatch` used to enqueue
the requests of one event by a fold over each of their orders; it now appends those that
are not there yet, in each of their orders, which gives the same queues and can be
reasoned about.

Only model-checked:

- `WritesBounded`: a potential of the versions in flight is needed, whose bound is
  a parameter of the run;
- `ListsOrdered`, `SummariesAgree`, `ImplementsMap`: `ConditionList` computes with folds and
  sorts over lists, and what these yield for lists of any length is induction over
  data, which the prover cannot do;
- liveness under fairness, and ENABLED, which are out of the prover's reach.

## 5. Not modelled

- More than one worker per manager, which the program does not configure, and
  requests of a process that has lost its lease and not ended yet.
- The functions of templates, the schema validator and the defaulting algorithm of
  Kubernetes: their results are what the model enumerates.
- `WithForceOverwrite`, `AddSourceRef` and the step counters of a summary (the program
  uses none of them); the unstructured wrapper; the owner-reference helpers of `util.go`,
  which the program never calls; test matchers; generated code; manifests.
- Flag parsing, probes, metrics.
- The removal of outputs that nobody refers to: there is no code for it.

## 6. Plan

1. Done: the controller for one AddonConfig and its properties; `ObservedObject`;
   the condition library with its lists; managers; dispatch.
2. Done: the theorems of section 4.
3. Open: `WritesBounded` for every number of disturbances, from a potential that a
   disturbance raises by at most `WritesPerDisturbance` and each write of the controller
   lowers; the refinement of `ConditionMap` by `ConditionList`.
