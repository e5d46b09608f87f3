--------------------------- MODULE ManagerReplicas ---------------------------
(***************************************************************************)
(* Several processes of the manager (main.go) at work on one AddonConfig.  *)
(* With --leader-elect, as config/manager deploys it, one of them runs the *)
(* controller; the flag is off by default, and then all of them do, each   *)
(* with caches, a queue and a worker of its own.                           *)
(*                                                                         *)
(* The definitions have no dependencies and the target cluster is there;   *)
(* the API server answers.                                                 *)
(***************************************************************************)
EXTENDS Phases

CONSTANTS
  Managers,
  LeaderElect,      \* the settings of the flag to consider
  Specs,            \* the specs a user may give the AddonConfig
  InitialSpec,      \* the spec it has at the start
  InitialRevision,  \* the definition installed at the start
  MaxAttempts,      \* backoff.Steps of patchStatusConditions
  MaxLag,           \* bound: versions an informer may be behind
  MaxEdits,         \* bound: edits of the AddonConfig or its definition
  MaxStops          \* bound: processes that end, for each setting of the flag

ASSUME ReplicasAssumption ==
  /\ Managers # {} /\ LeaderElect \subseteq BOOLEAN
  /\ Specs \subseteq {spec \in AddonConfigSpec : spec.ref} /\ InitialSpec \in Specs
  /\ InitialRevision \in DOMAIN Revision
  /\ \A r \in DOMAIN Revision : Revision[r].dependencies = <<>>
  /\ MaxAttempts \in Nat \ {0} /\ MaxLag \in Nat \ {0} /\ MaxEdits \in Nat
  /\ MaxStops \in [BOOLEAN -> Nat]

VARIABLES
  elect,     \* the flag
  active,    \* the managers whose controllers run
  store,     \* the AddonConfig in the API server
  events,    \* for each manager, the versions its informer has not seen yet
  cache,     \* for each manager, the AddonConfig in its cache
  def,       \* the definition in the API server
  defEvents, \* as events, for the definition
  cacheDef,  \* as cache, for the definition
  outputs,   \* the content of the output resources
  queued,    \* for each manager, the request is in its workqueue
  delayed,   \* for each manager, the request is to be added again later
  w,         \* for each manager, its worker
  edits, stops

managed == <<events, cache, defEvents, cacheDef, queued, delayed, w>>
vars == <<elect, active, store, def, outputs, managed, edits, stops>>

\* The phases up to the rendering, with the AddonConfig and the definition
\* that are cached; one outcome.  A phase is given the value that the one
\* before it left.
Phased(o, d) ==
  {reconcileTemplateValues(y) :
     y \in {reconcileTarget(x, "present") :
       x \in {reconcileValidation([Idle EXCEPT !.pc = "template", !.before = o, !.ac = o,
                                               !.def = d])}}}

Saves(x) == {Summarise(y) : y \in {IF x.failed THEN x ELSE saveRenderedTemplate(x)}}

InitialDefinition == [exists |-> TRUE, uid |-> 1, revision |-> InitialRevision]

\* An AddonConfig that one manager has reconciled undisturbed.
Reconciled(o) ==
  {PatchedStatus(o, x.ac, PatchedSpec(o, x.ac, PatchedConditions(o, x.ac, o, o, Now))) :
     x \in UNION {Saves(reconcileTemplate(y)) : y \in Phased(o, InitialDefinition)}}

\* The versions need no number here: a cache is outdated as long as its
\* informer has something to deliver.
Unnumbered(o) == [o EXCEPT !.resourceVersion = 0]
Lagging(m) == events[m] # <<>>

\* Managers have just started, and found what an earlier one left.
Init ==
  /\ elect \in LeaderElect
  /\ IF elect THEN \E m \in Managers : active = {m} ELSE active = Managers
  /\ \E o \in Reconciled(Created(NoAddonConfig, InitialSpec)) : store = Unnumbered(o)
  /\ def = InitialDefinition
  /\ outputs = [p \in Places |-> Nothing]
  /\ cache = [m \in Managers |-> store] /\ events = [m \in Managers |-> <<>>]
  /\ cacheDef = [m \in Managers |-> def] /\ defEvents = [m \in Managers |-> <<>>]
  /\ queued = [m \in Managers |-> m \in active]
  /\ delayed = [m \in Managers |-> FALSE]
  /\ w = [m \in Managers |-> Idle]
  /\ edits = 0 /\ stops = 0

-----------------------------------------------------------------------------
(* The processes.                                                          *)

\* Every informer that runs is told of a write.
Announce(streams, o) ==
  [m \in Managers |-> IF m \in active THEN Append(streams[m], o) ELSE streams[m]]

Write(o) ==
  /\ store' = Unnumbered(o)
  /\ events' = IF Unnumbered(o) = store THEN events ELSE Announce(events, Unnumbered(o))
  /\ \A m \in Managers : Len(events[m]') <= MaxLag

\* mgr.Start: the caches are listed and everything in them is enqueued; with
\* leader election no controller starts before the leader has ended.
StartManager(m) ==
  /\ m \notin active
  /\ elect => active = {}
  /\ active' = active \cup {m}
  /\ cache' = [cache EXCEPT ![m] = store]
  /\ cacheDef' = [cacheDef EXCEPT ![m] = def]
  /\ queued' = [queued EXCEPT ![m] = TRUE]
  /\ UNCHANGED <<elect, store, def, outputs, events, defEvents, delayed, w, edits, stops>>

\* The process ends, or loses the lease and ends.
StopManager(m) ==
  /\ stops < MaxStops[elect]
  /\ m \in active
  /\ stops' = stops + 1
  /\ active' = active \ {m}
  /\ events' = [events EXCEPT ![m] = <<>>]
  /\ defEvents' = [defEvents EXCEPT ![m] = <<>>]
  /\ cache' = [cache EXCEPT ![m] = NoAddonConfig]
  /\ cacheDef' = [cacheDef EXCEPT ![m] = NoDefinition]
  /\ queued' = [queued EXCEPT ![m] = FALSE]
  /\ delayed' = [delayed EXCEPT ![m] = FALSE]
  /\ w' = [w EXCEPT ![m] = Idle]
  /\ UNCHANGED <<elect, store, def, outputs, edits>>

DeliverConfig(m) ==
  /\ events[m] # <<>>
  /\ cache' = [cache EXCEPT ![m] = Head(events[m])]
  /\ events' = [events EXCEPT ![m] = Tail(@)]
  /\ queued' = [queued EXCEPT ![m] = TRUE]
  /\ UNCHANGED <<elect, active, store, def, outputs, defEvents, cacheDef, delayed, w,
                 edits, stops>>

\* Faulty variant: definitions are cached, not watched.
DeliverDefinitionUnwatched(m) ==
  /\ defEvents[m] # <<>>
  /\ cacheDef' = [cacheDef EXCEPT ![m] = Head(defEvents[m])]
  /\ defEvents' = [defEvents EXCEPT ![m] = Tail(@)]
  /\ UNCHANGED <<elect, active, store, def, outputs, events, cache, queued, delayed, w,
                 edits, stops>>

\* Faulty variant: a definition is cached only if the request is not queued.
DeliverDefinitionDropped(m) ==
  /\ defEvents[m] # <<>>
  /\ cacheDef' = [cacheDef EXCEPT ![m] = IF queued[m] THEN @ ELSE Head(defEvents[m])]
  /\ defEvents' = [defEvents EXCEPT ![m] = Tail(@)]
  /\ queued' = [queued EXCEPT ![m] = TRUE]
  /\ UNCHANGED <<elect, active, store, def, outputs, events, cache, delayed, w, edits, stops>>

\* The AddonConfig always refers to the definition, in every cache.
DeliverDefinition(m) ==
  /\ defEvents[m] # <<>>
  /\ cacheDef' = [cacheDef EXCEPT ![m] = Head(defEvents[m])]
  /\ defEvents' = [defEvents EXCEPT ![m] = Tail(@)]
  /\ queued' = [queued EXCEPT ![m] = TRUE]
  /\ UNCHANGED <<elect, active, store, def, outputs, events, cache, delayed, w, edits, stops>>

Timer(m) ==
  /\ delayed[m]
  /\ delayed' = [delayed EXCEPT ![m] = FALSE]
  /\ queued' = [queued EXCEPT ![m] = TRUE]
  /\ UNCHANGED <<elect, active, store, def, outputs, events, cache, defEvents, cacheDef, w,
                 edits, stops>>

-----------------------------------------------------------------------------
(* Reconcile, of one manager.  The AddonConfig and the definition are read *)
(* in one step (AddonConfigController reads them in two); a patch that has *)
(* nothing to send is no step.                                             *)

Become(m, x) == w' = [w EXCEPT ![m] = x]

Start(m) ==
  /\ w[m].pc = "idle" /\ queued[m]
  /\ queued' = [queued EXCEPT ![m] = FALSE]
  /\ UNCHANGED <<elect, active, store, def, outputs, events, cache, defEvents, cacheDef,
                 delayed, edits, stops>>
  /\ \E x \in Phased(cache[m], cacheDef[m]) : Become(m, x)

\* The next patch that has something to send; the status last, always.
ToSpec(x) == [x EXCEPT !.pc = IF SpecChanged(x.before, x.ac) THEN "spec" ELSE "status"]
ToConditions(x) ==
  IF ConditionsChanged(x.before, x.ac) THEN [x EXCEPT !.pc = "conditions"] ELSE ToSpec(x)

RenderAndSave(m) ==
  /\ w[m].pc = "template"
  /\ UNCHANGED <<elect, active, store, def, events, cache, defEvents, cacheDef,
                 queued, delayed, edits, stops>>
  /\ \E x \in {reconcileTemplate(w[m])} :
       /\ outputs' = Persisted(x, outputs)
       /\ \E y \in Saves(x) : Become(m, ToConditions(y))

Mergeable(m) == ~Unmergeable(w[m].before, w[m].ac, cache[m], OwnedTypes)

PatchConditions(m) ==
  /\ w[m].pc = "conditions"
  /\ \/ /\ ~Mergeable(m)
        /\ Become(m, Fail(ToSpec(w[m])))
        /\ UNCHANGED <<store, events>>
     \/ /\ Mergeable(m) /\ ~Lagging(m)
        /\ Become(m, ToSpec(w[m]))
        /\ Write(PatchedConditions(w[m].before, w[m].ac, cache[m], store, Now))
     \/ /\ Mergeable(m) /\ Lagging(m)
        /\ Become(m, IF w[m].attempts + 1 < MaxAttempts
                     THEN [w[m] EXCEPT !.attempts = @ + 1] ELSE Fail(ToSpec(w[m])))
        /\ UNCHANGED <<store, events>>
  /\ UNCHANGED <<elect, active, def, outputs, cache, defEvents, cacheDef,
                 queued, delayed, edits, stops>>

PatchSpec(m) ==
  /\ w[m].pc = "spec"
  /\ Become(m, [w[m] EXCEPT !.pc = "status"])
  /\ Write(PatchedSpec(w[m].before, w[m].ac, store))
  /\ UNCHANGED <<elect, active, def, outputs, cache, defEvents, cacheDef,
                 queued, delayed, edits, stops>>

PatchStatus(m) ==
  /\ w[m].pc = "status"
  /\ Become(m, Idle)
  /\ delayed' = [delayed EXCEPT ![m] = @ \/ w[m].failed \/ w[m].requeue]
  /\ Write(IF StatusChanged(w[m].before, w[m].ac)
           THEN PatchedStatus(w[m].before, w[m].ac, store) ELSE store)
  /\ UNCHANGED <<elect, active, def, outputs, cache, defEvents, cacheDef, queued, edits, stops>>

Reconcile(m) ==
  \/ Start(m) \/ RenderAndSave(m)
  \/ PatchConditions(m) \/ PatchSpec(m) \/ PatchStatus(m)

-----------------------------------------------------------------------------
(* The users.                                                              *)

EditConfig ==
  /\ edits < MaxEdits
  /\ edits' = edits + 1
  /\ \E spec \in Specs \ {store.spec} : Write(Written(store, [store EXCEPT !.spec = spec]))
  /\ UNCHANGED <<elect, active, def, outputs, cache, defEvents, cacheDef,
                 queued, delayed, w, stops>>

EditDefinition ==
  /\ edits < MaxEdits
  /\ edits' = edits + 1
  /\ \E r \in DOMAIN Revision \ {def.revision} :
       /\ def' = [def EXCEPT !.revision = r]
       /\ defEvents' = Announce(defEvents, def')
  /\ UNCHANGED <<elect, active, store, outputs, events, cache, cacheDef,
                 queued, delayed, w, stops>>

Next ==
  \/ EditConfig \/ EditDefinition
  \/ \E m \in Managers :
       \/ StartManager(m) \/ StopManager(m)
       \/ DeliverConfig(m) \/ DeliverDefinition(m) \/ Timer(m) \/ Reconcile(m)

Spec == Init /\ [][Next]_vars

\* No manager that runs stalls, and one that ended is started again.
Fairness ==
  \A m \in Managers :
    /\ WF_vars(Reconcile(m)) /\ WF_vars(Timer(m))
    /\ WF_vars(DeliverConfig(m)) /\ WF_vars(DeliverDefinition(m))
    /\ WF_vars(StartManager(m))

FairSpec == Spec /\ Fairness

-----------------------------------------------------------------------------
(* Properties.                                                             *)

AtRest ==
  /\ active # {}
  /\ \A m \in active :
       /\ w[m].pc = "idle" /\ ~queued[m] /\ ~delayed[m]
       /\ events[m] = <<>> /\ defEvents[m] = <<>>

\* The status is about the present spec and the present definition and, if
\* all is well, outputRef names the definition's kind of output only, which
\* holds that definition rendered with the present values.
Current ==
  LET spec == SpecOf(def)  conds == store.conditions
      valid == store.spec.values \in spec.accepts
  IN  /\ store.status.observedGeneration = store.generation
      /\ store.status.observedSchemaUID = def.uid
      /\ store.status.fieldErrors = (IF valid THEN {} ELSE Faults(store.spec.values))
      /\ ReadyIsSummaryOf(conds)
      /\ conds["ValidConfig"].status = "True" <=> valid
      /\ conds["Ready"].status = "True" =>
           /\ store.status.outputRef = {spec.output}
           /\ outputs[Place(spec.output)] =
                [revision |-> def.revision, values |-> store.spec.values]

\* A replica that lags behind overwrites the status (which may then go back)
\* and the output with older ones; but when all the replicas rest, none of it
\* is left, whoever wrote last.  A replica that ends for good in the middle
\* may leave an older output behind, unless a new leader takes over from it.
ReplicasAgree == AtRest /\ (elect \/ active = Managers) => Current

\* Replicas that see each other's writes do not answer them forever: at some
\* time the AddonConfig is as it should be, and from then on nobody writes it
\* or its output again.
ReplicasSettle == <>[]Current /\ <>[][UNCHANGED <<store, outputs>>]_vars
=============================================================================
