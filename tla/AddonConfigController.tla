------------------------ MODULE AddonConfigController ------------------------
(***************************************************************************)
(* The AddonConfig controller of the manager, for one AddonConfig and the  *)
(* one AddonConfigDefinition it may refer to: the API server's objects,    *)
(* the informer caches that follow them, the workqueue and the worker      *)
(* that runs Reconcile, with its users, a second controller on the same    *)
(* object, API failures and restarts of the process as the environment.    *)
(*                                                                         *)
(* AddonConfigs and definitions are read from the caches; clusters,        *)
(* dependencies and outputs are unstructured and always go to the server.  *)
(***************************************************************************)
EXTENDS Phases

CONSTANTS
  Specs,           \* the specs a user may give the AddonConfig
  MaxMatches,      \* bound: objects that match one dependency
  MaxAttempts,     \* backoff.Steps of patchStatusConditions (5 in the code)
  MaxIncarnations, \* bound: times the AddonConfig may be created
  Disturbances,    \* what the environment may do
  MaxDisturbances, \* bound: how many times it may do something
  WritesPerDisturbance, \* what WritesBounded allows
  InitialRevision  \* the definition installed at the start

ASSUME ControllerAssumption ==
  /\ Specs \subseteq AddonConfigSpec
  /\ MaxMatches \in Nat /\ MaxAttempts \in Nat \ {0}
  /\ MaxIncarnations \in Nat \ {0} /\ MaxDisturbances \in Nat
  /\ InitialRevision \in DOMAIN Revision

VARIABLES
  store,       \* the AddonConfig in the API server
  events,      \* its versions the informer has not seen yet, oldest first
  cache,       \* the AddonConfig in the informer's cache
  def,         \* the AddonConfigDefinition in the API server
  defEvents,   \* as events, for the definition
  cacheDef,    \* as cache, for the definition
  cluster,     \* the target cluster
  objects,     \* the number of objects that match each dependency
  outputs,     \* the content of the output resources
  queued,      \* the request is in the workqueue
  delayed,     \* the request is waiting to be added again (timer or back-off)
  w,           \* the worker
  disturbances \* how many times the environment did something

api == <<store, events, def, defEvents, cluster, objects, outputs>>
vars == <<api, cache, cacheDef, queued, delayed, w, disturbances>>

TypeOK ==
  /\ store \in AddonConfig /\ cache \in AddonConfig /\ events \in Seq(AddonConfig)
  /\ def \in Definition /\ cacheDef \in Definition /\ defEvents \in Seq(Definition)
  /\ cluster \in Clusters
  /\ objects \in [DependencyNames -> 0..MaxMatches]
  /\ outputs \in [Places -> Renderings]
  /\ queued \in BOOLEAN /\ delayed \in BOOLEAN
  /\ w \in Worker
  /\ disturbances \in 0..MaxDisturbances

\* The manager has just started: the caches are synced and every object in
\* them has been enqueued.
Init ==
  /\ \E spec \in Specs : store = Created(NoAddonConfig, spec)
  /\ def = [exists |-> TRUE, uid |-> 1, revision |-> InitialRevision]
  /\ cache = store /\ events = <<>>
  /\ cacheDef = def /\ defEvents = <<>>
  /\ cluster = "present"
  /\ objects = [d \in DependencyNames |-> IF MaxMatches = 0 THEN 0 ELSE 1]
  /\ outputs = [p \in Places |-> Nothing]
  /\ queued = TRUE /\ delayed = FALSE
  /\ w = Idle
  /\ disturbances = 0

-----------------------------------------------------------------------------
(* Writes of the two watched objects, which their watches report.          *)

Write(o) ==
  /\ store' = o
  /\ events' = IF o = store THEN events ELSE Append(events, o)

WriteDefinition(d) ==
  /\ def' = d
  /\ defEvents' = Append(defEvents, d)

Disturb(kind) ==
  /\ kind \in Disturbances
  /\ disturbances < MaxDisturbances
  /\ disturbances' = disturbances + 1

\* A call to the API server that fails for reasons of its own.
CallFails == Disturb("fault")
SaveFails == Disturb("saveFault")
CallSucceeds == UNCHANGED disturbances

-----------------------------------------------------------------------------
(* The informers.                                                          *)

\* For(&AddonConfig{}): every version is put in the cache and enqueues the
\* request; a request that is already queued is not queued twice.
DeliverConfig ==
  /\ events # <<>>
  /\ cache' = Head(events)
  /\ events' = Tail(events)
  /\ queued' = TRUE
  /\ UNCHANGED <<store, def, defEvents, cacheDef, cluster, objects, outputs,
                 delayed, w, disturbances>>

addonConfigDefinitionToAddonConfig(c) == c.exists /\ c.spec.ref

\* Watches(&AddonConfigDefinition{}): a definition enqueues the AddonConfigs
\* that, in the cache, refer to it.
DeliverDefinition ==
  /\ defEvents # <<>>
  /\ cacheDef' = Head(defEvents)
  /\ defEvents' = Tail(defEvents)
  /\ queued' = (queued \/ addonConfigDefinitionToAddonConfig(cache))
  /\ UNCHANGED <<store, events, cache, def, cluster, objects, outputs,
                 delayed, w, disturbances>>

\* The 30 seconds of RequeueAfter, or the back-off after an error, are over.
Timer ==
  /\ delayed
  /\ delayed' = FALSE
  /\ queued' = TRUE
  /\ UNCHANGED <<api, cache, cacheDef, w, disturbances>>

-----------------------------------------------------------------------------
(* Reconcile.                                                              *)

\* The request is taken from the queue and the AddonConfig read from the
\* cache.  One that is gone is left alone; one without a definitionRef goes
\* straight to the deferred patch.
Start ==
  /\ w.pc = "idle" /\ queued
  /\ queued' = FALSE
  /\ LET x == [Idle EXCEPT !.before = cache, !.ac = cache]
     IN  w' = CASE ~cache.exists -> Idle
                [] cache.exists /\ ~cache.spec.ref ->
                     Summarise([x EXCEPT !.pc = "conditions"])
                [] cache.exists /\ cache.spec.ref -> [x EXCEPT !.pc = "definition"]
  /\ UNCHANGED <<api, cache, cacheDef, delayed, disturbances>>

\* reconcileValidation.
Validate ==
  /\ w.pc = "definition"
  /\ w' = reconcileValidation([w EXCEPT !.pc = "target",
                                 !.def = IF cacheDef.exists THEN cacheDef ELSE NoDefinition])
  /\ UNCHANGED <<api, cache, cacheDef, queued, delayed, disturbances>>

\* reconcileTarget and reconcileTemplateValues.
Target ==
  /\ w.pc = "target"
  /\ \E answer \in {cluster, "unreadable"} :
       /\ IF answer = cluster THEN CallSucceeds ELSE CallFails
       /\ w' = reconcileTemplateValues(
                 reconcileTarget([w EXCEPT !.pc = "dependencies"], answer))
  /\ UNCHANGED <<api, cache, cacheDef, queued, delayed>>

\* One turn of the loop of reconcileDependencies.
ResolveDependency ==
  /\ w.pc = "dependencies" /\ ~Resolved(w)
  /\ \E answer \in {objects[Dependencies(w)[w.dep].name], Unlisted} :
       /\ IF answer = Unlisted THEN CallFails ELSE CallSucceeds
       /\ w' = resolveDependency(w, answer)
  /\ UNCHANGED <<api, cache, cacheDef, queued, delayed>>

DependenciesResolved ==
  /\ w.pc = "dependencies" /\ Resolved(w)
  /\ w' = [w EXCEPT !.pc = "template"]
  /\ UNCHANGED <<api, cache, cacheDef, queued, delayed, disturbances>>

\* reconcileTemplate, then saveRenderedTemplate if no phase failed, then the
\* summary with which the deferred patch begins.
RenderAndSave ==
  /\ w.pc = "template"
  /\ LET x == reconcileTemplate([w EXCEPT !.pc = "conditions"])
     IN  /\ w' = Summarise(IF x.failed THEN x ELSE saveRenderedTemplate(x))
         /\ \/ outputs' = Persisted(x, outputs) /\ CallSucceeds
            \/ Savable(x) /\ outputs' \in {outputs, Persisted(x, outputs)} /\ SaveFails
  /\ UNCHANGED <<store, events, def, defEvents, cluster, objects,
                 cache, cacheDef, queued, delayed>>

-----------------------------------------------------------------------------
(* The deferred patch: conditions, spec, status.                           *)

CanMerge(x, latest) ==
  latest.exists /\ ~Unmergeable(x.before, x.ac, latest, OwnedTypes)

\* What a patch may leave in the store when its reply is an error: it was
\* refused or lost, or only the reply was.
Uncertain(patched) == \E o \in {store, patched} : Write(o)

\* One attempt of patchStatusConditions: get, merge, patch.
PatchConditions ==
  /\ w.pc = "conditions"
  /\ LET next == [w EXCEPT !.pc = "spec"]
         accepted == store.exists /\ ~Outdated(cache, store)
         patched == IF accepted THEN PatchedConditions(w.before, w.ac, cache, store, Now)
                                ELSE store
     IN  \/ /\ ~ConditionsChanged(w.before, w.ac)
            /\ w' = next
            /\ CallSucceeds /\ UNCHANGED <<store, events>>
         \/ /\ ConditionsChanged(w.before, w.ac) /\ ~CanMerge(w, cache)
            /\ w' = Fail(next)
            /\ CallSucceeds /\ UNCHANGED <<store, events>>
         \/ /\ ConditionsChanged(w.before, w.ac) /\ CanMerge(w, cache)
            /\ w' = CASE accepted -> next
                      [] store.exists /\ ~accepted /\ w.attempts + 1 < MaxAttempts ->
                           [w EXCEPT !.attempts = @ + 1]
                      [] OTHER -> Fail(next)
            /\ CallSucceeds /\ Write(patched)
         \/ /\ ConditionsChanged(w.before, w.ac) /\ CanMerge(w, cache)
            /\ w' = Fail(next)
            /\ CallFails /\ Uncertain(patched)
  /\ UNCHANGED <<def, defEvents, cluster, objects, outputs,
                 cache, cacheDef, queued, delayed>>

PatchSpec ==
  /\ w.pc = "spec"
  /\ LET next == [w EXCEPT !.pc = "status"]
         patched == IF store.exists THEN PatchedSpec(w.before, w.ac, store) ELSE store
     IN  \/ /\ ~SpecChanged(w.before, w.ac)
            /\ w' = next
            /\ CallSucceeds /\ UNCHANGED <<store, events>>
         \/ /\ SpecChanged(w.before, w.ac)
            /\ w' = IF store.exists THEN next ELSE Fail(next)
            /\ CallSucceeds /\ Write(patched)
         \/ /\ SpecChanged(w.before, w.ac)
            /\ w' = Fail(next)
            /\ CallFails /\ Uncertain(patched)
  /\ UNCHANGED <<def, defEvents, cluster, objects, outputs,
                 cache, cacheDef, queued, delayed>>

\* Faulty variants: the error of the patches, or every error, is not returned.
FinishUnpatched(error) == w' = Idle /\ delayed' = (delayed \/ w.failed \/ w.requeue)
FinishUnfailed(error) == w' = Idle /\ delayed' = (delayed \/ w.requeue)

\* An error or a requested delay puts the request back later.
Finish(error) ==
  /\ w' = Idle
  /\ delayed' = (delayed \/ w.failed \/ w.requeue \/ error)

PatchStatus ==
  /\ w.pc = "status"
  /\ LET patched == IF store.exists THEN PatchedStatus(w.before, w.ac, store) ELSE store
     IN  \/ /\ ~StatusChanged(w.before, w.ac)
            /\ Finish(FALSE)
            /\ CallSucceeds /\ UNCHANGED <<store, events>>
         \/ /\ StatusChanged(w.before, w.ac)
            /\ Finish(~store.exists)
            /\ CallSucceeds /\ Write(patched)
         \/ /\ StatusChanged(w.before, w.ac)
            /\ Finish(TRUE)
            /\ CallFails /\ Uncertain(patched)
  /\ UNCHANGED <<def, defEvents, cluster, objects, outputs, cache, cacheDef, queued>>

Reconcile ==
  \/ Start \/ Validate \/ Target \/ ResolveDependency \/ DependenciesResolved
  \/ RenderAndSave \/ PatchConditions \/ PatchSpec \/ PatchStatus

-----------------------------------------------------------------------------
(* The environment.                                                        *)

CreateConfig ==
  /\ Disturb("create")
  /\ ~store.exists /\ store.uid < MaxIncarnations
  /\ \E spec \in Specs : Write(Created(store, spec))
  /\ UNCHANGED <<def, defEvents, cluster, objects, outputs, cache, cacheDef, queued, delayed, w>>

EditConfig ==
  /\ Disturb("edit")
  /\ store.exists
  /\ \E spec \in Specs \ {store.spec} : Write(Written(store, [store EXCEPT !.spec = spec]))
  /\ UNCHANGED <<def, defEvents, cluster, objects, outputs, cache, cacheDef, queued, delayed, w>>

DeleteConfig ==
  /\ Disturb("delete")
  /\ store.exists
  /\ Write(Deleted(store))
  /\ UNCHANGED <<def, defEvents, cluster, objects, outputs, cache, cacheDef, queued, delayed, w>>

\* Another controller, which writes with an optimistic lock, sets a condition
\* of its own.
SetForeignCondition ==
  /\ Disturb("foreign")
  /\ store.exists
  /\ \E c \in {TrueCondition, FalseCondition("Foreign", "Error")} \ {store.conditions["Foreign"]} :
       Write(Written(store, [store EXCEPT !.conditions = Set(@, "Foreign", c, Now)]))
  /\ UNCHANGED <<def, defEvents, cluster, objects, outputs, cache, cacheDef, queued, delayed, w>>

\* Create, edit or replace the definition.
Define ==
  /\ Disturb("define")
  /\ \E r \in DOMAIN Revision \ {def.revision} :
       \/ def.exists /\ WriteDefinition([def EXCEPT !.revision = r])
       \/ ~def.exists /\ WriteDefinition([exists |-> TRUE, uid |-> def.uid + 1, revision |-> r])
  /\ UNCHANGED <<store, events, cluster, objects, outputs, cache, cacheDef, queued, delayed, w>>

Undefine ==
  /\ Disturb("undefine")
  /\ def.exists
  /\ WriteDefinition([NoDefinition EXCEPT !.uid = def.uid])
  /\ UNCHANGED <<store, events, cluster, objects, outputs, cache, cacheDef, queued, delayed, w>>

ChangeCluster ==
  /\ Disturb("cluster")
  /\ \E c \in Clusters \ {cluster} : cluster' = c
  /\ UNCHANGED <<store, events, def, defEvents, objects, outputs,
                 cache, cacheDef, queued, delayed, w>>

ChangeObjects ==
  /\ Disturb("objects")
  /\ \E d \in DependencyNames, n \in 0..MaxMatches :
       n # objects[d] /\ objects' = [objects EXCEPT ![d] = n]
  /\ UNCHANGED <<store, events, def, defEvents, cluster, outputs,
                 cache, cacheDef, queued, delayed, w>>

\* The process dies and starts again: what it held in memory is lost, the
\* caches are listed anew and every object found enqueues its request.
Restart ==
  /\ Disturb("restart")
  /\ w' = Idle
  /\ cache' = store /\ events' = <<>>
  /\ cacheDef' = def /\ defEvents' = <<>>
  /\ queued' = store.exists
  /\ delayed' = FALSE
  /\ UNCHANGED <<store, def, cluster, objects, outputs>>

\* The informers resync: every object in the cache is reported again.
Resync ==
  /\ Disturb("resync")
  /\ cache.exists
  /\ queued' = TRUE
  /\ UNCHANGED <<api, cache, cacheDef, delayed, w>>

Environment ==
  \/ CreateConfig \/ EditConfig \/ DeleteConfig \/ SetForeignCondition
  \/ Define \/ Undefine \/ ChangeCluster \/ ChangeObjects \/ Restart \/ Resync

Next == Reconcile \/ DeliverConfig \/ DeliverDefinition \/ Timer \/ Environment

Spec == Init /\ [][Next]_vars

\* The worker, the watches and the delaying queue of a running manager do not
\* stall; nothing is assumed of the environment.
Fairness ==
  /\ WF_vars(Reconcile)
  /\ WF_vars(DeliverConfig) /\ WF_vars(DeliverDefinition)
  /\ WF_vars(Timer)

FairSpec == Spec /\ Fairness

-----------------------------------------------------------------------------
(* Properties.                                                             *)

\* Nothing is under way and nothing is pending for the AddonConfig.
AtRest == w.pc = "idle" /\ ~queued /\ ~delayed /\ events = <<>> /\ defEvents = <<>>

\* No update is lost: when the controller rests, its caches are current and
\* the status of the AddonConfig tells of its present spec and of the present
\* definition, however edits, deletions, lost replies and restarts fell
\* between the steps of Reconcile (cache reads, deferred patch, requeue).
\* With no definitionRef and nothing to summarise, SetSummary sets nothing: a
\* Ready condition that was patched for a predecessor then stays.
RestMeansReconciled ==
  AtRest /\ store.exists =>
    /\ store.status.observedGeneration = store.generation
    /\ store.spec.ref \/ Summary(store.conditions, InScope) # Absent =>
         ReadyIsSummaryOf(store.conditions)
    /\ store.spec.ref =>
         store.status.observedSchemaUID = (IF def.exists THEN def.uid ELSE 0)

\* Nothing is left to deliver or to run now, though a retry may be due later.
Settled == w.pc = "idle" /\ ~queued /\ events = <<>> /\ defEvents = <<>>

\* What the status of an AddonConfig `o' tells of its spec and of the
\* definition `d', as far as the code brings it up to date: a schema that is
\* not structural is called valid, ValidConfig is left as it was when
\* something else failed, and without a validator the field errors are too.
Truthful(o, d) ==
  LET conds == o.conditions  spec == SpecOf(d)
      valid == o.spec.values \in spec.accepts
      validated == spec.schema # "malformed"
      defaulted == spec.schema \in {"none", "structural"}
  IN  /\ ReadyIsSummaryOf(conds)
      /\ spec.schema = "none" => conds["ValidSchema"].status = "False"
      /\ spec.schema = "structural" => conds["ValidSchema"].status = "True"
      /\ conds["DefaultingComplete"].status = (IF defaulted THEN "True" ELSE "False")
      /\ defaulted /\ o.spec.values = Empty => spec.default = Empty
      /\ validated => o.status.fieldErrors = (IF valid THEN {} ELSE Faults(o.spec.values))
      /\ validated /\ ~valid => conds["ValidConfig"].status = "False"
      /\ spec.schema = "structural" /\ valid => conds["ValidConfig"].status = "True"
      /\ ~o.spec.target => conds["ValidTarget"].reason = "TargetUndefined"
      /\ conds["ValidTemplate"].reason = "InvalidTemplate" <=>
           spec.template \in {"unparsable", "nested"}

\* While the API server answers, the conditions and the field errors are
\* about the present values and the present definition, on the paths that
\* return errors too: a failed validation is reported, and the report is
\* withdrawn when the values or the definition changed.  Nothing is said of
\* what depends on objects that are not watched: whether the target cluster
\* is there, the dependencies and the output.
StatusTruthful ==
  Settled /\ store.exists /\ store.spec.ref /\ def.exists => Truthful(store, def)

\* When the controller rests with Ready and OutputResourceUpdated True, the
\* place where the code puts outputs of the definition's kind holds the
\* present definition's template rendered with the present values, and the
\* only key of outputRef is that kind (saveRenderedTemplate runs before the
\* patches, its inputs come from caches, and the merge patch of the status
\* adds to the keys it finds in outputRef).
RestMeansPersisted ==
  LET output == SpecOf(def).output
  IN  AtRest /\ store.exists /\ store.spec.ref
        /\ store.conditions["Ready"].status = "True"
        /\ store.conditions["OutputResourceUpdated"].status = "True" =>
          /\ store.status.outputRef = {output}
          /\ outputs[Place(output)] = [revision |-> def.revision, values |-> store.spec.values]

\* What is persisted was rendered from values that the schema of the very
\* definition it was rendered with admits: reconcile() saves nothing once
\* reconcileValidation has failed, whatever phases run after it.
OutputFromValidConfig ==
  \A p \in Places :
    outputs[p].revision \in DOMAIN Revision =>
      outputs[p].values \in Revision[outputs[p].revision].accepts

\* The controller has not caught up with the present incarnation: the cache
\* or the reconciliation under way is about an earlier one.
Behind ==
  /\ store.exists
  /\ cache.uid # store.uid \/ (w.pc # "idle" /\ w.ac.uid # store.uid)

Observed == INSTANCE ObservedObject WITH
  exists     <- store.exists,
  uid        <- store.uid,
  generation <- store.generation,
  observed   <- store.status.observedGeneration,
  behind     <- Behind

\* The controller implements ObservedObject: status.observedGeneration never
\* claims a generation that does not exist and never goes back, although it
\* is taken from a cache that lags and stored by a patch that is not locked;
\* only a patch computed for a deleted AddonConfig may break the promise to
\* its successor, and only until the controller has caught up with that.
ReportsObservedGeneration == Observed!Spec

\* A step of the controller leaves the conditions of others alone: the list
\* of conditions is replaced as a whole by patchStatusConditions, and only
\* its optimistic lock protects what another controller put in the list.
ForeignConditionsPreserved ==
  [][Reconcile => store'.conditions["Foreign"] = store.conditions["Foreign"]]_vars

\* Every write of the controller comes back as an event that makes it run
\* again; this does not go round forever: each disturbance costs a bounded
\* number of writes.
WritesBounded == store.resourceVersion <= WritesPerDisturbance * (disturbances + 1)

-----------------------------------------------------------------------------
(* What the comments of the API types and of the helpers say, and the code *)
(* does not always do.                                                     *)

\* api/v1alpha1/addonconfig_types.go:67: Ready "summarizes the operational
\* state".  The patch of the conditions leaves alone an owned condition that
\* the reconciliation recomputed to what its stale copy had.
ReadyIsSummary ==
  store.conditions["Ready"].status = "True" => ReadyIsSummaryOf(store.conditions)

\* common_types.go:68: RemoteOutput is for an output that "should reside within
\* the remote cluster", and addonconfig_types.go:62: OutputRef "describes where
\* the rendered template is persisted".  A remote output is written by the
\* client of the manager's own cluster.
Described(output) == IF output = "remote" THEN "target" ELSE "own"
OutputRefDescribes ==
  Settled /\ store.conditions["OutputResourceUpdated"].status = "True" =>
    \A output \in store.status.outputRef : outputs[Described(output)] # Nothing

\* addonconfig_types.go:47: FieldErrors are "any existing schema validation
\* errors".  They outlive the schema when no validator can be made of the one
\* that takes its place.
FieldErrorsExist ==
  Settled /\ store.spec.ref /\ store.status.fieldErrors # {} =>
    SpecOf(def).schema # "malformed" /\ store.spec.values \notin SpecOf(def).accepts

\* addonconfig_types.go:80: defaulting makes "missing defaulted values"
\* explicit.  The patch of the spec is not locked, and replaces a value that a
\* user gave after the copy was read.
ExplicitValuesPreserved ==
  [][Reconcile /\ store.spec.values \in Explicit =>
       store'.spec.values = store.spec.values]_vars

-----------------------------------------------------------------------------
(* Convergence.                                                            *)

WantedValues ==
  IF store.spec.values = Empty THEN SpecOf(def).default ELSE store.spec.values

\* Every input of a reconciliation is in order.
Healthy ==
  LET spec == SpecOf(def)
      available == {TargetVariable, ValuesVariable} \cup
                   {spec.dependencies[i].name : i \in DOMAIN spec.dependencies}
  IN  /\ store.exists /\ store.spec.ref /\ store.spec.target /\ cluster = "present"
      /\ def.exists /\ spec.schema = "structural"
      /\ WantedValues \in Explicit \cap spec.accepts
      /\ \A i \in DOMAIN spec.dependencies :
           LET d == spec.dependencies[i]
           IN  /\ d.by # "both" /\ d.known /\ d.parsable
               /\ d.needs \subseteq {TargetVariable, ValuesVariable}
               /\ objects[d.name] = 1 /\ ~(d.unique /\ d.selectFirst)
      /\ spec.template = "good" /\ spec.needs \cup spec.outputNeeds \subseteq available
      /\ spec.output \in Outputs

\* The AddonConfig is Ready, and says so of what it is now.
Current ==
  /\ store.conditions["Ready"].status = "True"
  /\ store.status.observedGeneration = store.generation
  /\ store.status.observedSchemaUID = def.uid
  /\ store.spec.values = WantedValues
  /\ SpecOf(def).output \in Outputs
  /\ outputs[Place(SpecOf(def).output)] = [revision |-> def.revision, values |-> WantedValues]

\* Once every input is in order and stays so, the AddonConfig becomes Ready
\* with its output persisted, and stays so: watches, requeues and retries
\* are enough, whatever happened before.
Converges == <>[]Healthy => <>[]Current

\* Whether the inputs are in order or not, the status is brought up to date
\* again: an error of any phase, call or patch leads to another attempt.
StatusCatchesUp == []<>Observed!UpToDate

\* addonconfig_types.go:93: ValidDependency "documents whether the
\* AddonConfigDefinition has a valid dependency".  It is never set to True
\* again.
DependencyRecovers ==
  <>[]Healthy => <>[](store.conditions["ValidDependency"].status # "False")

=============================================================================
