----------------------------- MODULE ReconcileProofs -----------------------------
(***************************************************************************)
(* Why the controller, when it rests, has brought the status up to date,   *)
(* and why it never saves what was rendered from values that the schema    *)
(* does not admit.                                                         *)
(***************************************************************************)
EXTENDS AddonConfigControllerProofs

-----------------------------------------------------------------------------
(* The inductive invariant.                                                *)

InformersFollow ==
  Follows(cache, events, store) /\ Follows(cacheDef, defEvents, def)

Validated == {"target", "dependencies", "template", "conditions", "spec", "status"}
Patching == {"conditions", "spec", "status"}

\* Unless the request was queued again, the worker reconciles what is cached:
\* its copy of the AddonConfig, and its copy of the definition.
CopiesCurrent ==
  /\ w.pc # "idle" => w.before.exists /\ CopyOf(w, w.before)
  /\ w.pc # "idle" /\ ~queued => w.before = cache
  /\ w.pc \in Validated /\ w.ac.spec.ref /\ ~queued => w.def = Found

\* What the copy says, from the phase on that finds it out.
Recorded ==
  /\ w.pc \in Validated /\ w.ac.spec.ref =>
       /\ w.ac.status.observedSchemaUID = IF w.def.exists THEN w.def.uid ELSE 0
       /\ Present(w, "ValidSchema")
  /\ w.pc \in Patching => Summarised(w)

\* The API server answers every call.
Answers == "fault" \notin Disturbances

\* The patch of the conditions that left no event to deliver found them stored.
ConditionsStored ==
  w.pc \in {"spec", "status"} /\ (Answers \/ ~w.failed) /\ ~queued /\ events = <<>> =>
    \A t \in ConditionTypes : SameState(store.conditions[t], w.ac.conditions[t])

\* The status of an AddonConfig `o' tells of `o' and of the definition `d'.
Reconciled(o, d) ==
  o.exists =>
    /\ o.status.observedGeneration = o.generation
    /\ o.spec.ref \/ Summary(o.conditions, InScope) # Absent => ReadyIsSummaryOf(o.conditions)
    /\ o.spec.ref => o.status.observedSchemaUID = (IF d.exists THEN d.uid ELSE 0)

\* With nothing to run, to retry or to deliver, what is stored is reconciled.
RestReconciled ==
  w.pc = "idle" /\ ~queued /\ ~delayed /\ events = <<>> => Reconciled(store, cacheDef)

ReconcileInv ==
  TypeOK /\ InformersFollow /\ CopiesCurrent /\ Recorded /\ ConditionsStored /\ RestReconciled

\* What reconcile() goes on with passed reconcileValidation, unless a phase
\* has failed.
ValuesValid ==
  w.pc \in {"target", "dependencies", "template"} /\ ~w.failed =>
    w.ac.spec.values \in SpecOf(w.def).accepts

ValidInv == TypeOK /\ ValuesValid /\ OutputFromValidConfig

-----------------------------------------------------------------------------
(* The steps that concern the informers.                                   *)

\* The AddonConfig is written, delivered, listed anew, or left alone.
LEMMA StoreStep ==
  ASSUME [Next]_vars
  PROVE  \/ UNCHANGED <<store, events, cache>>
         \/ UNCHANGED cache /\ \E o : Write(o)
         \/ DeliverConfig
         \/ Restart
  <1>1. CASE Start \/ Validate \/ Target \/ ResolveDependency \/ DependenciesResolved
              \/ RenderAndSave
    BY <1>1 DEF Start, Validate, Target, ResolveDependency, DependenciesResolved,
       RenderAndSave, api
  <1>2. CASE PatchConditions
    BY <1>2 DEF PatchConditions, Uncertain
  <1>3. CASE PatchSpec
    BY <1>3 DEF PatchSpec, Uncertain
  <1>4. CASE PatchStatus
    BY <1>4 DEF PatchStatus, Uncertain
  <1>5. CASE DeliverDefinition \/ Timer \/ UNCHANGED vars
    BY <1>5 DEF DeliverDefinition, Timer, vars, api
  <1>6. CASE CreateConfig \/ EditConfig \/ DeleteConfig \/ SetForeignCondition
    BY <1>6 DEF CreateConfig, EditConfig, DeleteConfig, SetForeignCondition
  <1>7. CASE Define \/ Undefine \/ ChangeCluster \/ ChangeObjects \/ Resync
    BY <1>7 DEF Define, Undefine, ChangeCluster, ChangeObjects, Resync, api
  <1> QED
    BY <1>1, <1>2, <1>3, <1>4, <1>5, <1>6, <1>7 DEF Next, Reconcile, Environment

\* So is the definition.
LEMMA DefinitionStep ==
  ASSUME [Next]_vars
  PROVE  \/ UNCHANGED <<def, defEvents, cacheDef>>
         \/ UNCHANGED cacheDef /\ \E d : WriteDefinition(d)
         \/ DeliverDefinition
         \/ Restart
  <1>1. CASE Reconcile
    BY <1>1 DEF Reconcile, Start, Validate, Target, ResolveDependency, DependenciesResolved,
       RenderAndSave, PatchConditions, PatchSpec, PatchStatus, api
  <1>2. CASE DeliverConfig \/ Timer \/ UNCHANGED vars
    BY <1>2 DEF DeliverConfig, Timer, vars, api
  <1>3. CASE Define \/ Undefine
    BY <1>3 DEF Define, Undefine
  <1>4. CASE CreateConfig \/ EditConfig \/ DeleteConfig \/ SetForeignCondition
              \/ ChangeCluster \/ ChangeObjects \/ Resync
    BY <1>4 DEF CreateConfig, EditConfig, DeleteConfig, SetForeignCondition,
       ChangeCluster, ChangeObjects, Resync, api
  <1> QED  BY <1>1, <1>2, <1>3, <1>4 DEF Next, Environment

\* A write that leaves nothing to deliver changed nothing.
LEMMA WriteOfNothing ==
  ASSUME NEW o, Write(o), events \in Seq(AddonConfig), store' \in AddonConfig, events' = <<>>
  PROVE  o = store /\ UNCHANGED <<store, events>>
  BY AppendProperties DEF Write

\* The users, the other controllers and the outside world do not touch the
\* controller itself.
LEMMA OutsideStep ==
  ASSUME Environment, ~Restart
  PROVE  UNCHANGED <<w, cache, cacheDef, delayed>> /\ (queued => queued')
  BY DEF Environment, CreateConfig, EditConfig, DeleteConfig, SetForeignCondition, Define,
     Undefine, ChangeCluster, ChangeObjects, Resync, api

\* The informers never lose a version for good.
LEMMA InformersFollowStep ==
  ASSUME TypeOK, TypeOK', InformersFollow, [Next]_vars
  PROVE  InformersFollow'
  <1>1. /\ events \in Seq(AddonConfig) /\ defEvents \in Seq(Definition)
        /\ store' \in AddonConfig /\ def' \in Definition
    BY DEF TypeOK
  <1>2. Follows(cache, events, store) /\ Follows(cacheDef, defEvents, def)
    BY DEF InformersFollow
  <1>3. CASE Restart
    BY <1>3 DEF Restart, InformersFollow, Follows
  <1>4. ASSUME ~Restart PROVE Follows(cache', events', store')
    <2>1. CASE UNCHANGED <<store, events, cache>>
      BY <1>2, <2>1
    <2>2. CASE UNCHANGED cache /\ \E o : Write(o)
      <3>1. \/ UNCHANGED <<store, events, cache>>
            \/ cache' = cache /\ events' = Append(events, store')
        BY <2>2 DEF Write
      <3> QED  BY <1>1, <1>2, <3>1, FollowsStep
    <2>3. CASE DeliverConfig
      BY <1>1, <1>2, <2>3, FollowsStep DEF DeliverConfig
    <2> QED  BY <1>4, <2>1, <2>2, <2>3, StoreStep
  <1>5. ASSUME ~Restart PROVE Follows(cacheDef', defEvents', def')
    <2>1. CASE UNCHANGED <<def, defEvents, cacheDef>>
      BY <1>2, <2>1
    <2>2. CASE UNCHANGED cacheDef /\ \E d : WriteDefinition(d)
      <3>1. cacheDef' = cacheDef /\ defEvents' = Append(defEvents, def')
        BY <2>2 DEF WriteDefinition
      <3> QED  BY <1>1, <1>2, <3>1, FollowsStep
    <2>3. CASE DeliverDefinition
      BY <1>1, <1>2, <2>3, FollowsStep DEF DeliverDefinition
    <2> QED  BY <1>5, <2>1, <2>2, <2>3, DefinitionStep
  <1> QED  BY <1>3, <1>4, <1>5 DEF InformersFollow

-----------------------------------------------------------------------------
(* The steps of the worker.                                                *)

\* A step that leaves the worker and the informers' caches alone, and the
\* request in the queue if it is there.
LEMMA CopiesStay ==
  ASSUME CopiesCurrent, UNCHANGED <<w, cache, cacheDef>>, queued => queued'
  PROVE  CopiesCurrent'
  BY DEF CopiesCurrent, CopyOf, Found

\* A step of the worker that keeps its copies.
LEMMA CopiesContinue ==
  ASSUME CopiesCurrent, UNCHANGED <<cache, cacheDef, queued>>,
         w.pc # "idle", w'.pc # "idle", Continues(w, w'),
         w'.pc \in Validated => w.pc \in Validated /\ w'.def = w.def
  PROVE  CopiesCurrent'
  BY DEF CopiesCurrent, CopyOf, Found, Continues

\* What the worker works on is what is cached: a newer version puts the
\* request in the queue, and so does a newer definition that is referred to.
LEMMA CopiesCurrentStep ==
  ASSUME TypeOK, CopiesCurrent, [Next]_vars
  PROVE  CopiesCurrent'
  <1> DEFINE idle == w'.pc = "idle"
  <1>1. CASE Start
    <2>1. UNCHANGED <<cache, cacheDef>> /\ "definition" \notin Validated
      BY <1>1 DEF Start, Validated
    <2>2. CASE ~cache.exists /\ w' = Idle
      BY <2>2 DEF CopiesCurrent, Idle, Validated
    <2>3. CASE cache.exists /\ w'.pc # "idle" /\ CopyOf(w', cache)
               /\ (cache.spec.ref => w'.pc = "definition")
      BY <2>1, <2>3 DEF CopiesCurrent, CopyOf
    <2> QED  BY <1>1, <2>2, <2>3, StartStep
  <1>2. CASE Validate
    <2>1. /\ UNCHANGED <<cache, cacheDef, queued>> /\ w.pc = "definition"
          /\ w'.pc = "target" /\ Continues(w, w') /\ w'.def = Found
      BY <1>2, ValidateStep DEF Validate
    <2> QED  BY <2>1 DEF CopiesCurrent, CopyOf, Continues, Found
  <1>3. CASE Target \/ ResolveDependency \/ DependenciesResolved
    <2>1. UNCHANGED <<cache, cacheDef, queued>>
      BY <1>3 DEF Target, ResolveDependency, DependenciesResolved
    <2>2. /\ w.pc \in {"target", "dependencies"} /\ w'.pc \in {"dependencies", "template"}
          /\ ContinuesCopy(w, w')
      BY <1>3, PhaseStep
    <2> QED  BY <2>1, <2>2, CopiesContinue DEF ContinuesCopy, Validated
  <1>4. CASE RenderAndSave
    <2>1. UNCHANGED <<cache, cacheDef, queued>>
      BY <1>4 DEF RenderAndSave
    <2>2. w.pc = "template" /\ w'.pc = "conditions" /\ ContinuesCopy(w, w')
      BY <1>4, RenderStep
    <2> QED  BY <2>1, <2>2, CopiesContinue DEF ContinuesCopy, Validated
  <1>5. CASE PatchConditions \/ PatchSpec
    <2>1. UNCHANGED <<cache, cacheDef, queued>>
      BY <1>5 DEF PatchConditions, PatchSpec
    <2>2. /\ w.pc \in {"conditions", "spec"} /\ w'.pc \in {"conditions", "spec", "status"}
          /\ w'.before = w.before /\ w'.ac = w.ac /\ w'.def = w.def
          /\ w.failed => w'.failed
      BY <1>5, PatchStep
    <2>3. Continues(w, w')
      BY <2>2 DEF Continues
    <2> QED  BY <2>1, <2>2, <2>3, CopiesContinue DEF Validated
  <1>6. CASE PatchStatus \/ Restart
    <2>1. w'.pc = "idle"
      BY <1>6 DEF PatchStatus, Finish, Restart, Idle
    <2> QED  BY <2>1 DEF CopiesCurrent, Validated
  <1>7. CASE DeliverConfig
    <2>1. queued' /\ w' = w
      BY <1>7 DEF DeliverConfig
    <2> QED  BY <2>1 DEF CopiesCurrent, CopyOf
  <1>8. CASE DeliverDefinition
    <2>1. /\ w' = w /\ cache' = cache
          /\ queued' = (queued \/ (cache.exists /\ cache.spec.ref))
      BY <1>8 DEF DeliverDefinition, addonConfigDefinitionToAddonConfig
    <2> QED  BY <2>1 DEF CopiesCurrent, CopyOf, Validated
  <1>9. CASE Timer \/ UNCHANGED vars
    BY <1>9, CopiesStay DEF Timer, vars, api
  <1>10. CASE Environment /\ ~Restart
    BY <1>10, CopiesStay, OutsideStep
  <1> QED
    BY <1>1, <1>2, <1>3, <1>4, <1>5, <1>6, <1>7, <1>8, <1>9, <1>10 DEF Next, Reconcile

\* The phases find out what the patches are to report.
LEMMA RecordedStep ==
  ASSUME TypeOK, Recorded, [Next]_vars
  PROVE  Recorded'
  <1>1. CASE Start
    BY <1>1, StartStep DEF Recorded, Idle, Validated, Patching, CopyOf
  <1>2. CASE Validate
    BY <1>2, ValidateStep DEF Recorded, Validated, Patching
  <1>3. CASE Target \/ ResolveDependency \/ DependenciesResolved
    BY <1>3, PhaseStep DEF Recorded, Validated, Patching, ContinuesCopy
  <1>4. CASE RenderAndSave
    BY <1>4, RenderStep DEF Recorded, Validated, Patching, ContinuesCopy
  <1>5. CASE PatchConditions \/ PatchSpec
    BY <1>5, PatchStep DEF Recorded, Validated, Patching, Present, Summarised
  <1>6. CASE PatchStatus \/ Restart
    <2>1. w'.pc = "idle"
      BY <1>6 DEF PatchStatus, Finish, Restart, Idle
    <2> QED  BY <2>1 DEF Recorded, Validated, Patching
  <1>7. CASE w' = w
    BY <1>7 DEF Recorded, Present, Summarised
  <1>8. CASE DeliverConfig \/ DeliverDefinition \/ Timer \/ UNCHANGED vars
    BY <1>7, <1>8 DEF DeliverConfig, DeliverDefinition, Timer, vars
  <1>9. CASE Environment /\ ~Restart
    BY <1>7, <1>9, OutsideStep
  <1> QED
    BY <1>1, <1>2, <1>3, <1>4, <1>5, <1>6, <1>8, <1>9 DEF Next, Reconcile

-----------------------------------------------------------------------------
(* The patches of the conditions.                                          *)

\* The store did not change in a step that leaves nothing to deliver, unless
\* it delivers something itself.
LEMMA QuietStep ==
  ASSUME TypeOK, TypeOK', [Next]_vars, events' = <<>>, ~DeliverConfig, ~Restart
  PROVE  UNCHANGED <<store, events>>
  BY StoreStep, WriteOfNothing DEF TypeOK

\* What the patch of the conditions does, if it leaves nothing to deliver.
LEMMA PatchedConditionsStored ==
  ASSUME TypeOK, TypeOK', InformersFollow, CopiesCurrent, PatchConditions,
         w'.pc = "spec", Answers \/ ~w'.failed, ~queued', events' = <<>>,
         NEW t \in ConditionTypes
  PROVE  SameState(store.conditions[t], w.ac.conditions[t])
  <1>1. /\ w \in Worker /\ store \in AddonConfig /\ store' \in AddonConfig
        /\ events \in Seq(AddonConfig) /\ w.ac \in AddonConfig
    BY DEF TypeOK, Worker
  <1>2. UNCHANGED <<store, events>>
    <2>1. w.pc = "conditions"
      BY DEF PatchConditions
    <2>2. ~DeliverConfig /\ ~Restart
      BY <2>1 DEF DeliverConfig, Restart, Idle
    <2> QED  BY <2>2, QuietStep DEF Next, Reconcile
  <1>3. store = cache /\ w.before = store /\ store.exists
    <2>1. w.pc = "conditions" /\ ~queued
      BY DEF PatchConditions
    <2> QED  BY <1>2, <2>1 DEF InformersFollow, Follows, CopiesCurrent
  <1> DEFINE next == [w EXCEPT !.pc = "spec"]
  <1>4. ~Answers => w' # Fail(next)
    BY <1>1 DEF Fail, Worker
  <1>5. CASE ~ConditionsChanged(w.before, w.ac)
    <2>1. t \in DOMAIN w.ac.conditions
      BY <1>1 DEF AddonConfig, ConditionList
    <2> QED  BY <1>3, <1>5, <2>1 DEF ConditionsChanged, NewPatch, SameState
  <1>6. CASE ConditionsChanged(w.before, w.ac)
    <2> DEFINE accepted == store.exists /\ ~Outdated(cache, store)
               patched == IF accepted THEN PatchedConditions(w.before, w.ac, cache, store, Now)
                                      ELSE store
    <2>1. accepted /\ Write(patched)
      <3>1. w' # [w EXCEPT !.attempts = @ + 1]
        BY <1>1 DEF Worker, PatchConditions
      <3>2. CASE ~Answers
        BY <1>4, <1>6, <3>1, <3>2 DEF PatchConditions
      <3>3. CASE Answers
        <4>1. w.before.conditions = cache.conditions /\ cache.exists
          BY <1>3
        <4>2. Conflicts(w.before.conditions, w.ac.conditions, cache.conditions, OwnedTypes) = {}
          BY <4>1 DEF Conflicts, SameState
        <4>3. accepted /\ CanMerge(w, cache)
          BY <1>3, <4>1, <4>2 DEF Outdated, CanMerge, Unmergeable
        <4>4. ~CallFails
          BY <3>3 DEF Answers, CallFails, Disturb
        <4> QED  BY <1>6, <4>3, <4>4 DEF PatchConditions
      <3> QED  BY <3>2, <3>3
    <2>2. patched = store
      BY <1>1, <2>1, WriteOfNothing
    <2>3. PatchedConditions(store, w.ac, store, store, Now) = store
      BY <1>3, <2>1, <2>2
    <2> QED  BY <1>1, <2>3, ConditionsPatched
  <1> QED  BY <1>5, <1>6

\* Later steps leave the conditions stored, or something to deliver.
LEMMA ConditionsStoredStep ==
  ASSUME TypeOK, TypeOK', InformersFollow, CopiesCurrent, ConditionsStored, [Next]_vars
  PROVE  ConditionsStored'
  <1> DEFINE patched == /\ w'.pc \in {"spec", "status"} /\ (Answers \/ ~w'.failed)
                        /\ ~queued' /\ events' = <<>>
  <1> SUFFICES ASSUME patched, NEW t \in ConditionTypes
               PROVE  SameState(store'.conditions[t], w'.ac.conditions[t])
    BY DEF ConditionsStored
  <1>1. CASE Start \/ Validate \/ Target \/ ResolveDependency \/ DependenciesResolved
              \/ RenderAndSave
    BY <1>1, StartStep, ValidateStep, PhaseStep, RenderStep DEF Idle
  <1>2. CASE PatchStatus \/ Restart
    BY <1>2 DEF PatchStatus, Finish, Restart, Idle
  <1>3. CASE PatchConditions
    <2>1. w.pc = "conditions" /\ w'.pc = "spec" /\ w'.ac = w.ac
      BY <1>3, PatchStep
    <2>2. UNCHANGED store
      <3>1. ~DeliverConfig /\ ~Restart
        BY <2>1 DEF DeliverConfig, Restart, Idle
      <3> QED  BY <3>1, QuietStep
    <2> QED  BY <1>3, <2>1, <2>2, PatchedConditionsStored
  <1>4. CASE PatchSpec
    <2>1. /\ w.pc = "spec" /\ w'.pc = "status" /\ w'.ac = w.ac
          /\ (Answers \/ ~w.failed) /\ queued' = queued
      BY <1>4, PatchStep DEF PatchSpec
    <2>2. UNCHANGED <<store, events>>
      <3>1. ~DeliverConfig /\ ~Restart
        BY <2>1 DEF DeliverConfig, Restart, Idle
      <3> QED  BY <3>1, QuietStep
    <2> QED  BY <2>1, <2>2 DEF ConditionsStored
  <1>5. CASE DeliverConfig
    BY <1>5 DEF DeliverConfig
  <1>6. CASE w' = w /\ (queued => queued') /\ ~DeliverConfig /\ ~Restart
    <2>1. UNCHANGED <<store, events>>
      BY <1>6, QuietStep
    <2> QED  BY <1>6, <2>1 DEF ConditionsStored
  <1>7. CASE DeliverDefinition \/ Timer \/ UNCHANGED vars
    <2>1. w' = w
      BY <1>7 DEF DeliverDefinition, Timer, vars
    <2>2. queued => queued'
      <3>1. queued' \in {queued, queued \/ addonConfigDefinitionToAddonConfig(cache), TRUE}
        BY <1>7 DEF DeliverDefinition, Timer, vars
      <3> QED  BY <3>1, Zenon
    <2> QED  BY <1>2, <1>5, <1>6, <2>1, <2>2
  <1>8. CASE Environment
    BY <1>2, <1>5, <1>6, <1>8, OutsideStep
  <1> QED
    BY <1>1, <1>2, <1>3, <1>4, <1>5, <1>7, <1>8 DEF Next, Reconcile

-----------------------------------------------------------------------------
(* The end of a reconciliation.                                            *)

\* If the last patch had nothing to change, what is stored is what the
\* reconciliation found out about what is cached.
LEMMA PatchedMeansReconciled ==
  ASSUME TypeOK, InformersFollow, CopiesCurrent, Recorded, ConditionsStored,
         w.pc = "status", Answers \/ ~w.failed, ~queued, events = <<>>,
         store.status = w.ac.status
  PROVE  Reconciled(store, cacheDef)
  <1>1. store.conditions \in ConditionList /\ w.ac.conditions \in ConditionList
    BY DEF TypeOK, Worker, AddonConfig
  <1>2. cache = store /\ w.before = store
    BY DEF InformersFollow, Follows, CopiesCurrent
  <1>3. w.ac.generation = store.generation /\ w.ac.spec.ref = store.spec.ref
    BY <1>2 DEF CopiesCurrent, CopyOf
  <1>4. Summarised(w)
    BY DEF Recorded, Patching
  <1>5. /\ Summary(store.conditions, InScope) = Summary(w.ac.conditions, InScope)
        /\ SameState(store.conditions["Ready"], w.ac.conditions["Ready"])
    <2>1. \A t \in ConditionTypes : SameState(store.conditions[t], w.ac.conditions[t])
      BY DEF ConditionsStored
    <2>2. InScopeTypes \subseteq ConditionTypes /\ "Ready" \in ConditionTypes
      BY DEF ConditionTypes, OwnedTypes
    <2>3. \A t \in InScopeTypes : SameState(store.conditions[t], w.ac.conditions[t])
      BY <2>1, <2>2
    <2> QED  BY <1>1, <2>1, <2>2, <2>3, SummaryOfStates DEF SameState
  <1>6. store.spec.ref => store.status.observedSchemaUID =
                            (IF cacheDef.exists THEN cacheDef.uid ELSE 0)
    <2>1. ASSUME store.spec.ref
          PROVE  /\ w.def = Found
                 /\ w.ac.status.observedSchemaUID = IF w.def.exists THEN w.def.uid ELSE 0
      BY <1>3, <2>1 DEF CopiesCurrent, Recorded, Validated
    <2> QED  BY <2>1 DEF Found, NoDefinition
  <1> QED  BY <1>3, <1>4, <1>5, <1>6 DEF Reconciled, Summarised, ReadyIsSummaryOf, SameState

\* A reconciliation that ends with nothing to deliver, and with nothing to
\* retry if calls may fail, had nothing left to patch.
LEMMA FinishStatus ==
  ASSUME TypeOK, TypeOK', InformersFollow, CopiesCurrent,
         PatchStatus, ~queued', Answers \/ ~delayed', events' = <<>>
  PROVE  /\ w.pc = "status" /\ (Answers \/ ~w.failed) /\ (w.failed => delayed')
         /\ ~queued /\ UNCHANGED <<store, events, cacheDef>>
         /\ store.status = w.ac.status
  <1>1. /\ w \in Worker /\ store \in AddonConfig /\ store' \in AddonConfig
        /\ events \in Seq(AddonConfig) /\ w.ac \in AddonConfig
    BY DEF TypeOK, Worker
  <1>2. /\ w.pc = "status" /\ (Answers \/ ~w.failed) /\ (w.failed => delayed')
        /\ ~queued /\ UNCHANGED cacheDef
    BY FinishStep DEF PatchStatus
  <1>3. UNCHANGED <<store, events>>
    <2>1. UNCHANGED <<store, events>> \/ \E o : Write(o)
      BY DEF PatchStatus, Uncertain
    <2> QED  BY <1>1, <2>1, WriteOfNothing
  <1>4. w.before = store /\ store.exists
    BY <1>2, <1>3 DEF InformersFollow, Follows, CopiesCurrent
  <1>5. store.status = w.ac.status
    <2>1. CASE ~StatusChanged(w.before, w.ac)
      BY <1>4, <2>1 DEF StatusChanged
    <2>2. CASE StatusChanged(w.before, w.ac)
      <3> DEFINE patched == IF store.exists THEN PatchedStatus(w.before, w.ac, store) ELSE store
      <3>1. Write(patched)
        BY <2>2 DEF PatchStatus, Finish, CallFails, Disturb, Answers
      <3>2. patched = store
        BY <1>1, <3>1, <1>3, WriteOfNothing
      <3>3. PatchedStatus(store, w.ac, store) = store
        BY <1>4, <3>2
      <3> QED  BY <1>1, <3>3, StatusPatched
    <2> QED  BY <2>1, <2>2
  <1> QED  BY <1>2, <1>3, <1>5

\* What is then stored is what the reconciliation found out.
LEMMA FinishReconciles ==
  ASSUME TypeOK, TypeOK', InformersFollow, CopiesCurrent, Recorded, ConditionsStored,
         PatchStatus, ~queued', Answers \/ ~delayed', events' = <<>>
  PROVE  Reconciled(store', cacheDef')
  BY FinishStatus, PatchedMeansReconciled

\* No other step ends in a rest that the AddonConfig is not reconciled for.
LEMMA RestReconciledStep ==
  ASSUME ReconcileInv, TypeOK', [Next]_vars
  PROVE  RestReconciled'
  <1> DEFINE rest == w'.pc = "idle" /\ ~queued' /\ ~delayed' /\ events' = <<>>
  <1> SUFFICES ASSUME rest PROVE Reconciled(store', cacheDef')
    BY DEF RestReconciled, Reconciled
  <1> USE DEF ReconcileInv
  <1>1. CASE Start
    <2>1. ~cache.exists
      BY <1>1, StartStep
    <2>2. events = <<>> /\ store' = store
      BY <1>1 DEF Start, api
    <2> QED  BY <2>1, <2>2 DEF InformersFollow, Follows, Reconciled
  <1>2. CASE Validate \/ Target \/ ResolveDependency \/ DependenciesResolved \/ RenderAndSave
             \/ PatchConditions \/ PatchSpec
    BY <1>2, ValidateStep, PhaseStep, RenderStep, PatchStep
  <1>3. CASE PatchStatus
    BY <1>3, FinishReconciles
  <1>4. CASE DeliverConfig \/ Timer
    BY <1>4 DEF DeliverConfig, Timer
  <1>5. CASE DeliverDefinition
    <2>1. /\ UNCHANGED <<w, events, store, delayed>>
          /\ ~queued /\ ~addonConfigDefinitionToAddonConfig(cache)
      <3>1. /\ UNCHANGED <<w, events, store, delayed>>
            /\ queued' = (queued \/ addonConfigDefinitionToAddonConfig(cache))
        BY <1>5 DEF DeliverDefinition
      <3> QED  BY <3>1, Zenon
    <2>2. cache = store /\ Reconciled(store, cacheDef)
      BY <2>1 DEF InformersFollow, Follows, RestReconciled
    <2> QED  BY <2>1, <2>2 DEF Reconciled, addonConfigDefinitionToAddonConfig
  <1>6. CASE Restart
    BY <1>6 DEF Restart, Reconciled
  <1>7. CASE UNCHANGED vars
    BY <1>7 DEF vars, api, RestReconciled
  <1>8. CASE Environment /\ ~Restart
    <2>1. UNCHANGED <<w, cacheDef, delayed>> /\ ~queued
      BY <1>8, OutsideStep
    <2>2. UNCHANGED <<store, events>>
      BY <1>4, <1>8, QuietStep DEF DeliverConfig
    <2> QED  BY <2>1, <2>2 DEF RestReconciled
  <1> QED
    BY <1>1, <1>2, <1>3, <1>4, <1>5, <1>6, <1>7, <1>8 DEF Next, Reconcile

\* The invariant is inductive.
LEMMA ReconcileInvInductive ==
  /\ Init => ReconcileInv
  /\ ReconcileInv /\ [Next]_vars => ReconcileInv'
  <1>1. Init => ReconcileInv
    BY InitType DEF Init, Idle, ReconcileInv, InformersFollow, Follows, CopiesCurrent, Recorded,
       ConditionsStored, RestReconciled, Validated, Patching
  <1>2. ReconcileInv /\ [Next]_vars => ReconcileInv'
    BY NextType, InformersFollowStep, CopiesCurrentStep, RecordedStep, ConditionsStoredStep,
       RestReconciledStep DEF ReconcileInv
  <1> QED  BY <1>1, <1>2

\* No update is lost: whatever edits, deletions, lost replies and restarts
\* fell between the steps of Reconcile, the status is up to date when the
\* controller rests.
THEOREM RestReconciledSafe == Spec => []RestMeansReconciled
  <1>1. ReconcileInv => RestMeansReconciled
    BY DEF ReconcileInv, InformersFollow, Follows, RestReconciled, Reconciled,
       RestMeansReconciled, AtRest
  <1> QED  BY <1>1, ReconcileInvInductive, PTL DEF Spec

-----------------------------------------------------------------------------
(* What is saved.                                                          *)

\* Values that pass reconcileValidation are the ones the later phases see,
\* together with the definition that admitted them.
LEMMA ValuesValidStep ==
  ASSUME TypeOK, ValuesValid, [Next]_vars
  PROVE  ValuesValid'
  <1>1. CASE Start
    BY <1>1, StartStep DEF ValuesValid, Idle
  <1>2. CASE Validate
    BY <1>2, ValidateStep DEF ValuesValid
  <1>3. CASE Target \/ ResolveDependency \/ DependenciesResolved
    BY <1>3, PhaseStep DEF ValuesValid, ContinuesCopy, Continues
  <1>4. CASE RenderAndSave
    BY <1>4, RenderStep DEF ValuesValid
  <1>5. CASE PatchConditions \/ PatchSpec
    BY <1>5, PatchStep DEF ValuesValid
  <1>6. CASE PatchStatus \/ Restart
    BY <1>6 DEF PatchStatus, Finish, Restart, Idle, ValuesValid
  <1>7. CASE w' = w
    BY <1>7 DEF ValuesValid
  <1>8. CASE DeliverConfig \/ DeliverDefinition \/ Timer \/ UNCHANGED vars
    BY <1>7, <1>8 DEF DeliverConfig, DeliverDefinition, Timer, vars
  <1>9. CASE Environment /\ ~Restart
    BY <1>7, <1>9, OutsideStep
  <1> QED
    BY <1>1, <1>2, <1>3, <1>4, <1>5, <1>6, <1>8, <1>9 DEF Next, Reconcile

\* A rendering of valid values, or a blank one, replaces one output.
LEMMA PersistedValid ==
  ASSUME NEW x \in Worker, OutputFromValidConfig,
         ~x.failed => x.ac.spec.values \in SpecOf(x.def).accepts,
         NEW o \in Places, Persisted(x, outputs)[o].revision \in DOMAIN Revision,
         outputs \in [Places -> Renderings]
  PROVE  Persisted(x, outputs)[o].values
           \in Revision[Persisted(x, outputs)[o].revision].accepts
  <1> DEFINE p == Persisted(x, outputs)[o]
  <1>1. CASE p = outputs[o]
    BY <1>1 DEF OutputFromValidConfig
  <1>2. CASE p # outputs[o]
    <2>1. Savable(x) /\ p = RenderedTemplate(x)
      BY <1>2 DEF Persisted
    <2>2. p # Blank
      BY <2>1, RevisionAssumption DEF Blank
    <2>3. p = [revision |-> x.def.revision, values |-> x.ac.spec.values]
      BY <2>1, <2>2 DEF RenderedTemplate
    <2>4. SpecOf(x.def) = Revision[p.revision]
      BY <2>3 DEF SpecOf
    <2> QED  BY <2>1, <2>3, <2>4 DEF Savable
  <1> QED  BY <1>1, <1>2

\* Only RenderAndSave writes outputs.
LEMMA OutputsStep ==
  ASSUME TypeOK, ValuesValid, OutputFromValidConfig, [Next]_vars
  PROVE  OutputFromValidConfig'
  <1>1. CASE RenderAndSave
    <2> DEFINE u == [w EXCEPT !.pc = "conditions"]
               x == reconcileTemplate(u)
    <2>1. outputs' = outputs \/ outputs' = Persisted(x, outputs)
      BY <1>1 DEF RenderAndSave
    <2>2. /\ u \in Worker /\ u.ac = w.ac /\ u.def = w.def /\ u.failed = w.failed
      BY StepTo DEF TypeOK, Steps
    <2> HIDE DEF u
    <2>3. x \in Worker /\ KeepsCopy(u, x)
      BY <2>2, TemplateType, TemplateKeeps
    <2> HIDE DEF x
    <2>4. ~x.failed => x.ac.spec.values \in SpecOf(x.def).accepts
      BY <1>1, <2>2, <2>3 DEF KeepsCopy, Keeps, ValuesValid, RenderAndSave
    <2>5. CASE outputs' = Persisted(x, outputs)
      BY <2>3, <2>4, <2>5, PersistedValid DEF TypeOK, OutputFromValidConfig
    <2> QED  BY <2>1, <2>5 DEF OutputFromValidConfig
  <1>2. CASE outputs' = outputs
    BY <1>2 DEF OutputFromValidConfig
  <1>3. CASE Reconcile /\ ~RenderAndSave
    BY <1>2, <1>3 DEF Reconcile, Start, Validate, Target, ResolveDependency,
       DependenciesResolved, PatchConditions, PatchSpec, PatchStatus, api
  <1>4. CASE DeliverConfig \/ DeliverDefinition \/ Timer \/ UNCHANGED vars
    BY <1>2, <1>4 DEF DeliverConfig, DeliverDefinition, Timer, vars, api
  <1>5. CASE Environment
    BY <1>2, <1>5 DEF Environment, CreateConfig, EditConfig, DeleteConfig,
       SetForeignCondition, Define, Undefine, ChangeCluster, ChangeObjects, Restart, Resync, api
  <1> QED  BY <1>1, <1>3, <1>4, <1>5 DEF Next

\* Nothing is persisted that was rendered from values which the schema of the
\* definition it was rendered with does not admit.
THEOREM OutputsValid == Spec => []OutputFromValidConfig
  <1>1. Init => ValidInv
    <2>1. Init => ValuesValid
      BY DEF Init, Idle, ValuesValid
    <2>2. Init => OutputFromValidConfig
      BY RevisionAssumption DEF Init, Nothing, OutputFromValidConfig
    <2> QED  BY <2>1, <2>2, InitType DEF ValidInv
  <1>2. ValidInv /\ [Next]_vars => ValidInv'
    BY NextType, ValuesValidStep, OutputsStep DEF ValidInv
  <1>3. ValidInv => OutputFromValidConfig
    BY DEF ValidInv
  <1> QED  BY <1>1, <1>2, <1>3, PTL DEF Spec
=============================================================================
