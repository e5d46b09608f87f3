--------------------- MODULE AddonConfigControllerProofs ---------------------
(***************************************************************************)
(* Theorems about AddonConfigController, for every value of its constants: *)
(* its types, what the steps of the worker leave alone, and why the        *)
(* optimistic lock of patchStatusConditions is enough: the list of         *)
(* conditions it sends was merged into the very version that the API       *)
(* server still stores, and a reconciliation never touches a condition of  *)
(* somebody else in its own copy.                                          *)
(***************************************************************************)
EXTENDS AddonConfigController, PhaseProofs

-----------------------------------------------------------------------------
(* Type correctness.                                                       *)

\* A write is stored and reported to the informer.
LEMMA WriteType ==
  ASSUME events \in Seq(AddonConfig), NEW o \in AddonConfig, Write(o)
  PROVE  store' \in AddonConfig /\ events' \in Seq(AddonConfig)
  BY DEF Write

\* The environment stays within its budget.
LEMMA DisturbType ==
  ASSUME disturbances \in 0..MaxDisturbances, NEW k, Disturb(k) \/ CallSucceeds
  PROVE  disturbances' \in 0..MaxDisturbances
  BY ControllerAssumption DEF Disturb, CallSucceeds

\* The manager starts well typed.
LEMMA InitType == Init => TypeOK
  <1> SUFFICES ASSUME Init PROVE TypeOK
    OBVIOUS
  <1>1. PICK spec \in Specs : store = Created(NoAddonConfig, spec)
    BY DEF Init
  <1>2. store \in AddonConfig
    BY <1>1, EmptyObjectTypes, CreatedDeletedType, ControllerAssumption
  <1>3. def \in Definition
    BY ControllerAssumption DEF Init, Definition, Revisions
  <1>4. cluster \in Clusters
    BY DEF Init, Clusters
  <1>5. objects \in [DependencyNames -> 0..MaxMatches]
    BY ControllerAssumption DEF Init
  <1>6. outputs \in [Places -> Renderings]
    BY DEF Init, Renderings, Nothing, Revisions, Values
  <1>7. disturbances \in 0..MaxDisturbances
    BY ControllerAssumption DEF Init
  <1>8. cache \in AddonConfig /\ cacheDef \in Definition /\ w \in Worker
    BY <1>2, <1>3, EmptyObjectTypes DEF Init
  <1>9. events = <<>> /\ defEvents = <<>> /\ queued = TRUE /\ delayed = FALSE
    BY DEF Init
  <1>10. events \in Seq(AddonConfig) /\ defEvents \in Seq(Definition)
    BY <1>9
  <1>11. queued \in BOOLEAN /\ delayed \in BOOLEAN
    BY <1>9
  <1> QED
    BY <1>2, <1>3, <1>4, <1>5, <1>6, <1>7, <1>8, <1>10, <1>11 DEF TypeOK

\* The steps of Reconcile: each takes the worker to a well typed one.
LEMMA ReconcileType == TypeOK /\ Reconcile => TypeOK'
  <1> SUFFICES ASSUME TypeOK, Reconcile PROVE TypeOK'
    OBVIOUS
  <1> USE DEF Steps
  <1>1. CASE Start
    <2> DEFINE x == [Idle EXCEPT !.before = cache, !.ac = cache]
    <2>1. x \in Worker
      BY EmptyObjectTypes DEF TypeOK, Worker
    <2>2. /\ [x EXCEPT !.pc = "conditions"] \in Worker
          /\ [x EXCEPT !.pc = "definition"] \in Worker
      BY <2>1, FieldTypes
    <2> HIDE DEF x
    <2>3. Summarise([x EXCEPT !.pc = "conditions"]) \in Worker
      BY <2>2, SummariseType
    <2>4. cache.exists \in BOOLEAN /\ cache.spec.ref \in BOOLEAN
      BY DEF TypeOK, AddonConfig, AddonConfigSpec
    <2>5. \/ w' = Idle
          \/ w' = Summarise([x EXCEPT !.pc = "conditions"])
          \/ w' = [x EXCEPT !.pc = "definition"]
      BY <1>1, <2>4 DEF Start, x
    <2>6. w' \in Worker
      BY <2>2, <2>3, <2>5, EmptyObjectTypes
    <2> QED  BY <1>1, <2>6 DEF Start, TypeOK, api
  <1>2. CASE Validate
    <2> DEFINE d == IF cacheDef.exists THEN cacheDef ELSE NoDefinition
    <2>1. d \in Definition
      BY EmptyObjectTypes DEF TypeOK
    <2> HIDE DEF d
    <2>2. [w EXCEPT !.pc = "target", !.def = d] \in Worker
      BY <2>1 DEF TypeOK, Worker
    <2>3. w' = reconcileValidation([w EXCEPT !.pc = "target", !.def = d])
      BY <1>2 DEF Validate, d
    <2>4. w' \in Worker
      BY <2>2, <2>3, ValidationType
    <2> QED  BY <1>2, <2>4 DEF Validate, TypeOK, api
  <1>3. CASE Target
    <2>1. PICK answer \in {cluster, "unreadable"} :
            /\ IF answer = cluster THEN CallSucceeds ELSE CallFails
            /\ w' = reconcileTemplateValues(
                      reconcileTarget([w EXCEPT !.pc = "dependencies"], answer))
      BY <1>3 DEF Target
    <2>2. answer \in Clusters
      BY <2>1 DEF TypeOK, Clusters
    <2>3. [w EXCEPT !.pc = "dependencies"] \in Worker
      BY FieldTypes DEF TypeOK
    <2>4. w' \in Worker
      BY <2>1, <2>2, <2>3, TargetType
    <2>5. disturbances' \in 0..MaxDisturbances
      BY <2>1, DisturbType DEF CallFails, TypeOK
    <2> QED  BY <1>3, <2>4, <2>5 DEF Target, TypeOK, api
  <1>4. CASE ResolveDependency
    <2>1. PICK answer \in {objects[Dependencies(w)[w.dep].name], Unlisted} :
            /\ IF answer = Unlisted THEN CallFails ELSE CallSucceeds
            /\ w' = resolveDependency(w, answer)
      BY <1>4 DEF ResolveDependency
    <2>2. answer \in Int
      <3>1. Dependencies(w) \in Seq(Dependency)
        BY SpecOfType DEF Dependencies, DefinitionSpec, TypeOK, Worker
      <3>2. w.dep \in 1..Len(Dependencies(w))
        BY <1>4, <3>1 DEF ResolveDependency, Resolved, TypeOK, Worker
      <3>3. Dependencies(w)[w.dep] \in Dependency
        BY <3>1, <3>2
      <3>4. Dependencies(w)[w.dep].name \in DependencyNames
        BY <3>3 DEF Dependency
      <3>5. objects[Dependencies(w)[w.dep].name] \in Int
        BY <3>4, ControllerAssumption DEF TypeOK
      <3> QED  BY <2>1, <3>5 DEF Unlisted
    <2>3. w' \in Worker
      BY <1>4, <2>1, <2>2, DependencyType DEF ResolveDependency, TypeOK
    <2>4. disturbances' \in 0..MaxDisturbances
      BY <2>1, DisturbType DEF CallFails, TypeOK
    <2> QED  BY <1>4, <2>3, <2>4 DEF ResolveDependency, TypeOK, api
  <1>5. CASE DependenciesResolved
    <2>1. w' \in Worker
      BY <1>5, FieldTypes DEF DependenciesResolved, TypeOK
    <2> QED  BY <1>5, <2>1 DEF DependenciesResolved, TypeOK, api
  <1>6. CASE RenderAndSave
    <2> DEFINE x == reconcileTemplate([w EXCEPT !.pc = "conditions"])
    <2>1. x \in Worker
      BY FieldTypes, TemplateType DEF TypeOK
    <2>2. saveRenderedTemplate(x) \in Worker /\ Persisted(x, outputs) \in [Places -> Renderings]
      BY <2>1, SaveType, PersistedType DEF TypeOK
    <2> HIDE DEF x
    <2>3. w' = Summarise(IF x.failed THEN x ELSE saveRenderedTemplate(x))
      BY <1>6 DEF RenderAndSave, x
    <2>4. w' \in Worker
      BY <2>1, <2>2, <2>3, SummariseType
    <2>5. outputs' \in [Places -> Renderings]
      BY <1>6, <2>2 DEF RenderAndSave, x, TypeOK
    <2>6. disturbances' \in 0..MaxDisturbances
      BY <1>6, DisturbType DEF RenderAndSave, SaveFails, TypeOK
    <2> QED  BY <1>6, <2>4, <2>5, <2>6 DEF RenderAndSave, TypeOK
  <1> DEFINE steps(p) == [w EXCEPT !.pc = p]
  <1>7. \A p \in Steps : steps(p) \in Worker /\ Fail(steps(p)) \in Worker
    BY FieldTypes, StepType DEF TypeOK
  <1>8. CASE PatchConditions
    <2> DEFINE accepted == store.exists /\ ~Outdated(cache, store)
               patched == IF accepted
                          THEN PatchedConditions(w.before, w.ac, cache, store, Now) ELSE store
    <2>1. patched \in AddonConfig
      BY PatchedTypes DEF TypeOK, Worker
    <2> HIDE DEF patched
    <2>2. /\ store' \in AddonConfig /\ events' \in Seq(AddonConfig)
      <3>1. UNCHANGED <<store, events>> \/ Write(patched) \/ Write(store)
        BY <1>8 DEF PatchConditions, Uncertain, patched
      <3> QED  BY <2>1, <3>1, WriteType DEF TypeOK
    <2>3. [w EXCEPT !.attempts = @ + 1] \in Worker
      <3>1. w \in Worker /\ w.attempts + 1 \in Nat
        BY DEF TypeOK, Worker
      <3> QED  BY <3>1 DEF Worker
    <2>4. \/ w' = steps("spec") \/ w' = Fail(steps("spec"))
          \/ w' = [w EXCEPT !.attempts = @ + 1]
      BY <1>8 DEF PatchConditions
    <2>5. w' \in Worker
      BY <1>7, <2>3, <2>4
    <2>6. disturbances' \in 0..MaxDisturbances
      BY <1>8, DisturbType DEF PatchConditions, CallFails, TypeOK
    <2> QED  BY <1>8, <2>2, <2>5, <2>6 DEF PatchConditions, TypeOK
  <1>9. CASE PatchSpec
    <2> DEFINE patched == IF store.exists THEN PatchedSpec(w.before, w.ac, store) ELSE store
    <2>1. patched \in AddonConfig
      BY PatchedTypes DEF TypeOK, Worker
    <2> HIDE DEF patched
    <2>2. store' \in AddonConfig /\ events' \in Seq(AddonConfig)
      <3>1. UNCHANGED <<store, events>> \/ Write(patched) \/ Write(store)
        BY <1>9 DEF PatchSpec, Uncertain, patched
      <3> QED  BY <2>1, <3>1, WriteType DEF TypeOK
    <2>3. w' = steps("status") \/ w' = Fail(steps("status"))
      BY <1>9 DEF PatchSpec
    <2>4. w' \in Worker
      BY <1>7, <2>3
    <2>5. disturbances' \in 0..MaxDisturbances
      BY <1>9, DisturbType DEF PatchSpec, CallFails, TypeOK
    <2> QED  BY <1>9, <2>2, <2>4, <2>5 DEF PatchSpec, TypeOK
  <1>10. CASE PatchStatus
    <2> DEFINE patched == IF store.exists THEN PatchedStatus(w.before, w.ac, store) ELSE store
    <2>1. patched \in AddonConfig
      BY PatchedTypes DEF TypeOK, Worker
    <2> HIDE DEF patched
    <2>2. store' \in AddonConfig /\ events' \in Seq(AddonConfig)
      <3>1. UNCHANGED <<store, events>> \/ Write(patched) \/ Write(store)
        BY <1>10 DEF PatchStatus, Uncertain, patched
      <3> QED  BY <2>1, <3>1, WriteType DEF TypeOK
    <2>3. w' \in Worker /\ delayed' \in BOOLEAN
      BY <1>10, EmptyObjectTypes DEF PatchStatus, Finish
    <2>4. disturbances' \in 0..MaxDisturbances
      BY <1>10, DisturbType DEF PatchStatus, CallFails, TypeOK
    <2> QED  BY <1>10, <2>2, <2>3, <2>4 DEF PatchStatus, TypeOK
  <1> QED
    BY <1>1, <1>2, <1>3, <1>4, <1>5, <1>6, <1>8, <1>9, <1>10 DEF Reconcile

\* The steps of the informers, of the timer and of the environment.
LEMMA DeliverType == TypeOK /\ (DeliverConfig \/ DeliverDefinition \/ Timer) => TypeOK'
  <1> SUFFICES ASSUME TypeOK, DeliverConfig \/ DeliverDefinition \/ Timer PROVE TypeOK'
    OBVIOUS
  <1>1. CASE DeliverConfig
    <2>1. Head(events) \in AddonConfig /\ Tail(events) \in Seq(AddonConfig)
      BY <1>1 DEF DeliverConfig, TypeOK
    <2> QED  BY <1>1, <2>1 DEF DeliverConfig, TypeOK
  <1>2. CASE DeliverDefinition
    <2>1. Head(defEvents) \in Definition /\ Tail(defEvents) \in Seq(Definition)
      BY <1>2 DEF DeliverDefinition, TypeOK
    <2>2. queued' \in BOOLEAN
      BY <1>2 DEF DeliverDefinition, TypeOK, addonConfigDefinitionToAddonConfig, AddonConfig,
                  AddonConfigSpec
    <2> QED  BY <1>2, <2>1, <2>2 DEF DeliverDefinition, TypeOK
  <1>3. CASE Timer
    BY <1>3 DEF Timer, TypeOK, api
  <1> QED  BY <1>1, <1>2, <1>3

\* Users, other controllers, the cluster and restarts.
LEMMA EnvironmentType == TypeOK /\ Environment => TypeOK'
  <1> SUFFICES ASSUME TypeOK, Environment PROVE TypeOK'
    OBVIOUS
  <1>1. CASE CreateConfig
    <2>1. PICK spec \in Specs : Write(Created(store, spec))
      BY <1>1 DEF CreateConfig
    <2>2. Created(store, spec) \in AddonConfig
      BY CreatedDeletedType, ControllerAssumption DEF TypeOK
    <2>3. store' \in AddonConfig /\ events' \in Seq(AddonConfig)
      BY <2>1, <2>2, WriteType DEF TypeOK
    <2> QED  BY <1>1, <2>3, DisturbType DEF CreateConfig, TypeOK
  <1>2. CASE EditConfig
    <2>1. PICK spec \in Specs : Write(Written(store, [store EXCEPT !.spec = spec]))
      BY <1>2 DEF EditConfig
    <2>2. [store EXCEPT !.spec = spec] \in AddonConfig
      BY ControllerAssumption DEF TypeOK, AddonConfig
    <2>3. Written(store, [store EXCEPT !.spec = spec]) \in AddonConfig
      BY <2>2, WrittenType DEF TypeOK
    <2>4. store' \in AddonConfig /\ events' \in Seq(AddonConfig)
      BY <2>1, <2>3, WriteType DEF TypeOK
    <2> QED  BY <1>2, <2>4, DisturbType DEF EditConfig, TypeOK
  <1>3. CASE DeleteConfig
    <2>1. Deleted(store) \in AddonConfig
      BY CreatedDeletedType, EmptyObjectTypes DEF TypeOK, AddonConfig
    <2>2. store' \in AddonConfig /\ events' \in Seq(AddonConfig)
      BY <1>3, <2>1, WriteType DEF DeleteConfig, TypeOK
    <2> QED  BY <1>3, <2>2, DisturbType DEF DeleteConfig, TypeOK
  <1>4. CASE SetForeignCondition
    <2> DEFINE conds(c) == Set(store.conditions, "Foreign", c, Now)
    <2>1. PICK c \in {TrueCondition, FalseCondition("Foreign", "Error")} :
            Write(Written(store, [store EXCEPT !.conditions = conds(c)]))
      BY <1>4 DEF SetForeignCondition
    <2>2. "Foreign" \in ConditionTypes /\ "Foreign" \in Reasons /\ "Error" \in Severities
      BY DEF ConditionTypes, Reasons, Severities
    <2>3. c \in Condition
      BY <2>1, <2>2, ConditionsAreConditions
    <2>4. conds(c) \in ConditionList
      BY <2>2, <2>3, SetType DEF TypeOK, AddonConfig
    <2> HIDE DEF conds
    <2>5. [store EXCEPT !.conditions = conds(c)] \in AddonConfig
      BY <2>4 DEF TypeOK, AddonConfig
    <2>6. Written(store, [store EXCEPT !.conditions = conds(c)]) \in AddonConfig
      BY <2>5, WrittenType DEF TypeOK
    <2>7. store' \in AddonConfig /\ events' \in Seq(AddonConfig)
      BY <2>1, <2>6, WriteType DEF TypeOK
    <2> QED  BY <1>4, <2>7, DisturbType DEF SetForeignCondition, TypeOK
  <1>5. ASSUME NEW d \in Definition, WriteDefinition(d)
        PROVE  def' \in Definition /\ defEvents' \in Seq(Definition)
    BY <1>5 DEF WriteDefinition, TypeOK
  <1>6. CASE Define
    <2>1. PICK r \in DOMAIN Revision :
            \/ WriteDefinition([def EXCEPT !.revision = r])
            \/ WriteDefinition([exists |-> TRUE, uid |-> def.uid + 1, revision |-> r])
      BY <1>6 DEF Define
    <2>2. [def EXCEPT !.revision = r] \in Definition
      BY DEF TypeOK, Definition, Revisions
    <2>3. [exists |-> TRUE, uid |-> def.uid + 1, revision |-> r] \in Definition
      <3>1. def.uid + 1 \in Nat
        BY DEF TypeOK, Definition
      <3> QED  BY <3>1 DEF Definition, Revisions
    <2>4. def' \in Definition /\ defEvents' \in Seq(Definition)
      BY <2>1, <2>2, <2>3, <1>5
    <2> QED  BY <1>6, <2>4, DisturbType DEF Define, TypeOK
  <1>7. CASE Undefine
    <2>1. [NoDefinition EXCEPT !.uid = def.uid] \in Definition
      BY EmptyObjectTypes DEF TypeOK, Definition
    <2>2. def' \in Definition /\ defEvents' \in Seq(Definition)
      BY <1>7, <2>1, <1>5 DEF Undefine
    <2> QED  BY <1>7, <2>2, DisturbType DEF Undefine, TypeOK
  <1>8. CASE ChangeCluster
    BY <1>8, DisturbType DEF ChangeCluster, TypeOK
  <1>9. CASE ChangeObjects
    BY <1>9, DisturbType DEF ChangeObjects, TypeOK
  <1>10. CASE Restart
    <2>1. store.exists \in BOOLEAN
      BY DEF TypeOK, AddonConfig
    <2>2. events' \in Seq(AddonConfig) /\ defEvents' \in Seq(Definition)
      BY <1>10 DEF Restart
    <2>3. w' \in Worker
      BY <1>10, EmptyObjectTypes DEF Restart
    <2> QED  BY <1>10, <2>1, <2>2, <2>3, DisturbType DEF Restart, TypeOK
  <1>11. CASE Resync
    BY <1>11, DisturbType DEF Resync, TypeOK, api
  <1> QED
    BY <1>1, <1>2, <1>3, <1>4, <1>6, <1>7, <1>8, <1>9, <1>10, <1>11 DEF Environment

\* Every step keeps the types.
LEMMA NextType == TypeOK /\ [Next]_vars => TypeOK'
  <1>1. TypeOK /\ UNCHANGED vars => TypeOK'
    BY DEF TypeOK, vars, api
  <1> QED  BY <1>1, ReconcileType, DeliverType, EnvironmentType DEF Next

\* Every variable of the controller keeps its type: in particular outputRef
\* names an output only once the shape of the output has been checked.
THEOREM TypeCorrect == Spec => []TypeOK
  BY InitType, NextType, PTL DEF Spec

-----------------------------------------------------------------------------
(* The steps of the worker.                                                *)

\* What no step of a reconciliation changes.
Continues(x, y) ==
  /\ y.before = x.before
  /\ y.ac.uid = x.ac.uid /\ y.ac.generation = x.ac.generation
  /\ y.ac.spec.ref = x.ac.spec.ref
  /\ y.ac.conditions["Foreign"] = x.ac.conditions["Foreign"]
  /\ x.failed => y.failed

\* What no step after reconcileValidation changes either.
ContinuesCopy(x, y) ==
  /\ Continues(x, y)
  /\ y.def = x.def
  /\ y.ac.spec = x.ac.spec
  /\ y.ac.status.observedSchemaUID = x.ac.status.observedSchemaUID
  /\ Present(x, "ValidSchema") => Present(y, "ValidSchema")

\* The definition reconcileValidation finds.
Found == IF cacheDef.exists THEN cacheDef ELSE NoDefinition

\* A reconciliation starts with a copy of what is cached.
LEMMA StartStep ==
  ASSUME TypeOK, Start
  PROVE  \/ ~cache.exists /\ w' = Idle
         \/ /\ cache.exists /\ cache.spec.ref
            /\ w'.pc = "definition" /\ CopyOf(w', cache) /\ ~w'.failed
         \/ /\ cache.exists /\ ~cache.spec.ref
            /\ w'.pc = "conditions" /\ CopyOf(w', cache) /\ ~w'.failed /\ Summarised(w')
  <1> DEFINE x == [Idle EXCEPT !.before = cache, !.ac = cache]
             z == [x EXCEPT !.pc = "conditions"]
  <1>1. x \in Worker /\ CopyOf(x, cache) /\ ~x.failed /\ x.ac = cache
    BY EmptyObjectTypes DEF TypeOK, Worker, CopyOf, Idle
  <1>2. cache.exists \in BOOLEAN /\ cache.spec.ref \in BOOLEAN
    BY DEF TypeOK, AddonConfig, AddonConfigSpec
  <1> HIDE DEF x
  <1>3. \/ ~cache.exists /\ w' = Idle
        \/ cache.exists /\ cache.spec.ref /\ w' = [x EXCEPT !.pc = "definition"]
        \/ cache.exists /\ ~cache.spec.ref /\ w' = Summarise(z)
    BY <1>2 DEF Start, x
  <1>4. "definition" \in Steps /\ "conditions" \in Steps
    BY DEF Steps
  <1>5. CASE cache.exists /\ cache.spec.ref /\ w' = [x EXCEPT !.pc = "definition"]
    BY <1>1, <1>4, <1>5, StepTo DEF CopyOf
  <1>6. CASE cache.exists /\ ~cache.spec.ref /\ w' = Summarise(z)
    <2>1. /\ z \in Worker /\ z.pc = "conditions" /\ CopyOf(z, cache)
          /\ z.failed = x.failed /\ z.ac = cache
      BY <1>1, <1>4, StepTo DEF CopyOf
    <2> HIDE DEF z
    <2>2. KeepsCopy(z, w') /\ Summarised(w')
      BY <1>6, <2>1, SummariseKeeps, SummariseSummarises
    <2>3. w'.failed = FALSE
      BY <1>1, <1>6, <2>1 DEF Summarise, Observe, Worker
    <2> QED  BY <1>6, <2>1, <2>2, <2>3 DEF KeepsCopy, Keeps, CopyOf
  <1> QED  BY <1>3, <1>5, <1>6

\* reconcileValidation is given the definition that is cached.
LEMMA ValidateStep ==
  ASSUME TypeOK, Validate
  PROVE  /\ w'.pc = "target" /\ Continues(w, w') /\ w'.def = Found
         /\ w'.ac.status.observedSchemaUID = IF Found.exists THEN Found.uid ELSE 0
         /\ Present(w', "ValidSchema")
         /\ ~w'.failed => w'.ac.spec.values \in SpecOf(w'.def).accepts
  <1> DEFINE x == [w EXCEPT !.pc = "target", !.def = Found]
  <1>1. Found \in Definition
    BY EmptyObjectTypes DEF TypeOK, Found
  <1>2. w' = reconcileValidation(x)
    BY DEF Validate, Found
  <1>3. /\ x \in Worker /\ x.pc = "target" /\ x.def = Found
        /\ x.before = w.before /\ x.ac = w.ac /\ x.failed = w.failed
    BY <1>1 DEF TypeOK, Worker, Steps
  <1> HIDE DEF x
  <1> QED  BY <1>2, <1>3, ValidationKeeps DEF Keeps, Continues

\* What the API server answers when the objects of a dependency are listed.
LEMMA AnswerType ==
  ASSUME TypeOK, ResolveDependency,
         NEW answer \in {objects[Dependencies(w)[w.dep].name], Unlisted}
  PROVE  answer \in Int
  <1>1. Dependencies(w) \in Seq(Dependency)
    BY SpecOfType DEF Dependencies, DefinitionSpec, TypeOK, Worker
  <1>2. w.dep \in 1..Len(Dependencies(w))
    BY <1>1 DEF ResolveDependency, Resolved, TypeOK, Worker
  <1>3. Dependencies(w)[w.dep] \in Dependency
    BY <1>1, <1>2
  <1>4. Dependencies(w)[w.dep].name \in DependencyNames
    BY <1>3 DEF Dependency
  <1>5. objects[Dependencies(w)[w.dep].name] \in Int
    BY <1>4, ControllerAssumption DEF TypeOK
  <1> QED  BY <1>5 DEF Unlisted

\* The other phases work on the copy that reconcileValidation left.
LEMMA PhaseStep ==
  ASSUME TypeOK, Target \/ ResolveDependency \/ DependenciesResolved
  PROVE  /\ w.pc \in {"target", "dependencies"} /\ w'.pc \in {"dependencies", "template"}
         /\ ContinuesCopy(w, w')
  <1>1. w \in Worker /\ "ValidSchema" \in ConditionTypes
    BY DEF TypeOK, ConditionTypes, OwnedTypes, InScopeTypes, InScope
  <1>2. ASSUME NEW p \in Steps, KeepsCopy([w EXCEPT !.pc = p], w')
        PROVE  ContinuesCopy(w, w') /\ w'.pc = p
    BY <1>1, <1>2, StepTo DEF KeepsCopy, Keeps, ContinuesCopy, Continues, Present
  <1>3. "dependencies" \in Steps /\ "template" \in Steps
    BY DEF Steps
  <1>4. CASE Target
    <2>1. PICK answer \in {cluster, "unreadable"} :
            w' = reconcileTemplateValues(
                   reconcileTarget([w EXCEPT !.pc = "dependencies"], answer))
      BY <1>4 DEF Target
    <2>2. answer \in Clusters
      BY <2>1 DEF TypeOK, Clusters
    <2>3. [w EXCEPT !.pc = "dependencies"] \in Worker
      BY <1>1, <1>3, StepTo
    <2>4. KeepsCopy([w EXCEPT !.pc = "dependencies"], w')
      BY <2>1, <2>2, <2>3, TargetKeeps
    <2> QED  BY <1>2, <1>3, <1>4, <2>4 DEF Target
  <1>5. CASE ResolveDependency
    <2>1. PICK answer \in {objects[Dependencies(w)[w.dep].name], Unlisted} :
            w' = resolveDependency(w, answer)
      BY <1>5 DEF ResolveDependency
    <2>2. answer \in Int
      BY <1>5, <2>1, AnswerType
    <2>3. ~Resolved(w) /\ w.pc = "dependencies"
      BY <1>5 DEF ResolveDependency
    <2>4. KeepsCopy(w, w')
      BY <2>1, <2>2, <2>3, <1>1, DependencyKeeps
    <2> QED  BY <2>3, <2>4, <1>1 DEF KeepsCopy, Keeps, ContinuesCopy, Continues
  <1>6. CASE DependenciesResolved
    <2>1. w.pc = "dependencies" /\ w' = [w EXCEPT !.pc = "template"]
      BY <1>6 DEF DependenciesResolved
    <2>2. [w EXCEPT !.pc = "template"] \in Worker
      BY <1>1, <1>3, StepTo
    <2>3. KeepsCopy([w EXCEPT !.pc = "template"], w')
      BY <2>1, <2>2, StepKeeps
    <2> QED  BY <2>1, <2>3, <1>2, <1>3
  <1> QED  BY <1>4, <1>5, <1>6

\* So do the last of them and the summary.
LEMMA RenderStep ==
  ASSUME TypeOK, RenderAndSave
  PROVE  /\ w.pc = "template" /\ w'.pc = "conditions"
         /\ ContinuesCopy(w, w')
         /\ (w.ac.spec.ref => Present(w, "ValidSchema")) => Summarised(w')
  <1> DEFINE u == [w EXCEPT !.pc = "conditions"]
             x == reconcileTemplate(u)
             y == IF x.failed THEN x ELSE saveRenderedTemplate(x)
  <1>1. w' = Summarise(y) /\ w.pc = "template"
    BY DEF RenderAndSave
  <1>2. /\ u \in Worker /\ u.pc = "conditions" /\ u.before = w.before
        /\ u.ac = w.ac /\ u.def = w.def /\ u.failed = w.failed
    BY StepTo DEF TypeOK, Steps
  <1> HIDE DEF u
  <1>3. x \in Worker /\ KeepsCopy(u, x)
    BY <1>2, TemplateType, TemplateKeeps
  <1> HIDE DEF x
  <1>4. y \in Worker /\ KeepsCopy(x, y)
    BY <1>3, SaveType, SaveKeeps, StepKeeps
  <1> HIDE DEF y
  <1>5. KeepsCopy(u, y) /\ KeepsCopy(u, w')
    BY <1>1, <1>3, <1>4, SummariseKeeps, KeepsTransitive
  <1>6. "ValidSchema" \in ConditionTypes
    BY DEF ConditionTypes, OwnedTypes, InScopeTypes, InScope
  <1>7. ASSUME w.ac.spec.ref => Present(w, "ValidSchema")
        PROVE  Summarised(w')
    <2>1. y.ac.spec.ref => Present(y, "ValidSchema")
      BY <1>2, <1>5, <1>6, <1>7 DEF KeepsCopy, Keeps, Present
    <2> QED  BY <1>1, <1>4, <2>1, SummariseSummarises
  <1> QED
    BY <1>1, <1>2, <1>5, <1>6, <1>7 DEF KeepsCopy, Keeps, ContinuesCopy, Continues, Present

\* The patches leave the copy as it is.
LEMMA PatchStep ==
  ASSUME TypeOK, PatchConditions \/ PatchSpec
  PROVE  /\ w.pc \in {"conditions", "spec"} /\ w'.pc \in {"conditions", "spec", "status"}
         /\ PatchConditions => w.pc = "conditions" /\ w'.pc \in {"conditions", "spec"}
         /\ PatchSpec => w.pc = "spec" /\ w'.pc = "status"
         /\ w'.before = w.before /\ w'.ac = w.ac /\ w'.def = w.def
         /\ w.failed => w'.failed
  <1>1. w \in Worker
    BY DEF TypeOK
  <1> DEFINE Same(y) == /\ y.before = w.before /\ y.ac = w.ac /\ y.def = w.def
                        /\ w.failed => y.failed
             to(p) == [w EXCEPT !.pc = p]
  <1>2. ASSUME NEW p \in Steps
        PROVE  /\ to(p).pc = p /\ Same(to(p))
               /\ Fail(to(p)).pc = p /\ Same(Fail(to(p)))
    BY <1>1 DEF Worker, Fail
  <1>3. CASE PatchConditions
    <2>1. \/ w' = to("spec") \/ w' = Fail(to("spec"))
          \/ w' = [w EXCEPT !.attempts = @ + 1]
      BY <1>3 DEF PatchConditions
    <2>2. LET y == [w EXCEPT !.attempts = @ + 1] IN y.pc = w.pc /\ Same(y)
      BY <1>1 DEF Worker
    <2>3. w.pc = "conditions" /\ ~PatchSpec
      BY <1>3 DEF PatchConditions, PatchSpec
    <2>4. Same(w') /\ w'.pc \in {"conditions", "spec"}
      BY <2>1, <2>2, <2>3, <1>2 DEF Steps
    <2> QED  BY <2>3, <2>4
  <1>4. CASE PatchSpec
    <2>1. w' = to("status") \/ w' = Fail(to("status"))
      BY <1>4 DEF PatchSpec
    <2>2. w.pc = "spec" /\ ~PatchConditions
      BY <1>4 DEF PatchConditions, PatchSpec
    <2> QED  BY <2>1, <2>2, <1>2 DEF Steps
  <1> QED  BY <1>3, <1>4

\* After the last patch the worker has nothing to do.
LEMMA FinishStep ==
  ASSUME TypeOK, PatchStatus
  PROVE  w.pc = "status" /\ w' = Idle /\ (w.failed \/ w.requeue => delayed')
  BY DEF PatchStatus, Finish

-----------------------------------------------------------------------------
(* The lock.                                                               *)

\* The version the informer cached, or has still to deliver, is an older one
\* than the stored object or the stored object itself.
Precedes(o) ==
  /\ o.resourceVersion <= store.resourceVersion
  /\ o.resourceVersion = store.resourceVersion => o = store

VersionsIdentify ==
  /\ Precedes(cache)
  /\ \A i \in 1..Len(events) : Precedes(events[i])

ForeignUntouched ==
  w.ac.conditions["Foreign"] = w.before.conditions["Foreign"]

LockInv == TypeOK /\ VersionsIdentify /\ ForeignUntouched

-----------------------------------------------------------------------------
(* The invariant is inductive.                                             *)

\* A reconciliation works on a copy of the version it read.
LEMMA WorkerUntouched == LockInv /\ [Next]_vars => ForeignUntouched'
  <1> SUFFICES ASSUME LockInv, [Next]_vars PROVE ForeignUntouched'
    OBVIOUS
  <1> USE DEF LockInv
  <1>1. CASE Start
    BY <1>1, StartStep DEF CopyOf, Idle, ForeignUntouched
  <1>2. CASE Validate
    BY <1>2, ValidateStep DEF Continues, ForeignUntouched
  <1>3. CASE Target \/ ResolveDependency \/ DependenciesResolved
    BY <1>3, PhaseStep DEF ContinuesCopy, Continues, ForeignUntouched
  <1>4. CASE RenderAndSave
    BY <1>4, RenderStep DEF ContinuesCopy, Continues, ForeignUntouched
  <1>5. CASE PatchConditions \/ PatchSpec
    BY <1>5, PatchStep DEF ForeignUntouched
  <1>6. CASE PatchStatus \/ Restart
    BY <1>6 DEF PatchStatus, Finish, Restart, Idle, ForeignUntouched
  <1>7. CASE w' = w
    BY <1>7 DEF ForeignUntouched
  <1>8. CASE DeliverConfig \/ DeliverDefinition \/ Timer \/ UNCHANGED vars
    BY <1>7, <1>8 DEF DeliverConfig, DeliverDefinition, Timer, vars
  <1>9. CASE Environment /\ ~Restart
    BY <1>7, <1>9 DEF Environment, CreateConfig, EditConfig, DeleteConfig,
       SetForeignCondition, Define, Undefine, ChangeCluster, ChangeObjects, Resync
  <1> QED
    BY <1>1, <1>2, <1>3, <1>4, <1>5, <1>6, <1>8, <1>9 DEF Next, Reconcile

\* A write makes a new version, so that no two versions share a number.
LEMMA WriteIdentifies ==
  ASSUME TypeOK, VersionsIdentify, NEW o \in AddonConfig, Write(o), cache' = cache,
         o = store \/ o.resourceVersion = store.resourceVersion + 1
  PROVE  VersionsIdentify'
  <1>1. store \in AddonConfig /\ cache \in AddonConfig /\ events \in Seq(AddonConfig)
    BY DEF TypeOK
  <1>2. ASSUME NEW p \in AddonConfig, Precedes(p)
        PROVE  Precedes(p)'
    BY <1>1, <1>2 DEF Precedes, Write, AddonConfig
  <1>3. Precedes(cache)'
    BY <1>1, <1>2 DEF VersionsIdentify
  <1>4. CASE o = store
    <2>1. events' = events /\ store' = store
      BY <1>4 DEF Write
    <2> QED  BY <2>1 DEF VersionsIdentify, Precedes
  <1>5. CASE o # store
    <2>1. events' = Append(events, o) /\ store' = o
      BY <1>5 DEF Write
    <2>2. ASSUME NEW i \in 1..Len(events')
          PROVE  Precedes(events[i])'
      <3>1. CASE i \in 1..Len(events)
        <4>1. events'[i] = events[i] /\ events[i] \in AddonConfig
          BY <2>1, <3>1, <1>1
        <4>2. Precedes(events[i])
          BY <3>1 DEF VersionsIdentify
        <4>3. /\ events[i].resourceVersion <= store.resourceVersion
              /\ store.resourceVersion \in Nat /\ events[i].resourceVersion \in Nat
          BY <4>1, <4>2, <1>1 DEF Precedes, AddonConfig
        <4>4. store'.resourceVersion = store.resourceVersion + 1
          BY <1>5, <2>1
        <4> QED  BY <4>1, <4>3, <4>4 DEF Precedes
      <3>2. CASE i = Len(events) + 1
        <4>1. events'[i] = o /\ o.resourceVersion \in Nat
          BY <2>1, <3>2, <1>1 DEF AddonConfig
        <4> QED  BY <2>1, <4>1 DEF Precedes
      <3> QED  BY <2>1, <2>2, <3>1, <3>2, <1>1
    <2> QED  BY <1>3, <2>2 DEF VersionsIdentify
  <1> QED  BY <1>4, <1>5

\* A write that changes something gets the next resourceVersion.
LEMMA WrittenIsNew ==
  ASSUME NEW o \in AddonConfig, NEW n \in AddonConfig
  PROVE  Written(o, n) = o \/ Written(o, n).resourceVersion = o.resourceVersion + 1
  BY DEF Written, AddonConfig

\* A read version is not the one of another object: the cache follows the
\* store.
LEMMA VersionsInductive == LockInv /\ [Next]_vars => VersionsIdentify'
  <1> SUFFICES ASSUME LockInv, [Next]_vars PROVE VersionsIdentify'
    OBVIOUS
  <1> USE DEF LockInv
  <1>1. store \in AddonConfig /\ cache \in AddonConfig /\ events \in Seq(AddonConfig)
    BY DEF TypeOK
  <1>2. ASSUME NEW o \in AddonConfig, Write(o) \/ Write(store), cache' = cache,
               o = store \/ o.resourceVersion = store.resourceVersion + 1
        PROVE  VersionsIdentify'
    BY <1>1, <1>2, WriteIdentifies
  <1>3. CASE UNCHANGED <<store, events, cache>>
    BY <1>3 DEF VersionsIdentify, Precedes
  <1>4. CASE DeliverConfig
    <2>1. /\ events # <<>> /\ cache' = Head(events) /\ events' = Tail(events)
          /\ store' = store
      BY <1>4 DEF DeliverConfig
    <2>2. Len(events) \in Nat /\ Len(events) # 0 /\ cache' = events[1]
      BY <1>1, <2>1
    <2>3. Precedes(cache)'
      BY <2>1, <2>2 DEF VersionsIdentify, Precedes
    <2>4. ASSUME NEW i \in 1..Len(events')
          PROVE  Precedes(events[i])'
      <3>1. i + 1 \in 1..Len(events) /\ events'[i] = events[i + 1]
        BY <1>1, <2>1, <2>2
      <3> QED  BY <2>1, <3>1 DEF VersionsIdentify, Precedes
    <2> QED  BY <2>3, <2>4 DEF VersionsIdentify
  <1>5. CASE Restart
    <2>1. cache' = store /\ events' = <<>> /\ store' = store
      BY <1>5 DEF Restart
    <2>2. Precedes(cache)'
      BY <1>1, <2>1 DEF Precedes, AddonConfig
    <2> QED  BY <2>1, <2>2 DEF VersionsIdentify
  <1>6. /\ w.before \in AddonConfig /\ w.ac \in AddonConfig
    BY DEF TypeOK, Worker
  <1>7. CASE PatchConditions
    <2> DEFINE n == [store EXCEPT !.conditions =
                       Apply(w.before.conditions, w.ac.conditions, cache.conditions, Now)]
               patched == IF store.exists /\ ~Outdated(cache, store)
                          THEN PatchedConditions(w.before, w.ac, cache, store, Now) ELSE store
    <2>1. n \in AddonConfig /\ patched \in AddonConfig
      BY <1>1, <1>6, ApplyType, PatchedTypes DEF AddonConfig
    <2>2. patched = store \/ patched.resourceVersion = store.resourceVersion + 1
      BY <1>1, <2>1, WrittenIsNew DEF PatchedConditions
    <2> HIDE DEF patched
    <2>3. \/ UNCHANGED <<store, events, cache>>
          \/ cache' = cache /\ (Write(patched) \/ Write(store))
      BY <1>7 DEF PatchConditions, Uncertain, patched
    <2> QED  BY <1>2, <1>3, <2>1, <2>2, <2>3
  <1>8. CASE PatchSpec
    <2> DEFINE patched == IF store.exists THEN PatchedSpec(w.before, w.ac, store) ELSE store
    <2>1. patched \in AddonConfig
      BY <1>1, <1>6, PatchedTypes
    <2>2. patched = store \/ patched.resourceVersion = store.resourceVersion + 1
      BY <1>1, <1>6 DEF PatchedSpec, Written, AddonConfig
    <2> HIDE DEF patched
    <2>3. \/ UNCHANGED <<store, events, cache>>
          \/ cache' = cache /\ (Write(patched) \/ Write(store))
      BY <1>8 DEF PatchSpec, Uncertain, patched
    <2> QED  BY <1>2, <1>3, <2>1, <2>2, <2>3
  <1>9. CASE PatchStatus
    <2> DEFINE patched == IF store.exists THEN PatchedStatus(w.before, w.ac, store) ELSE store
    <2>1. patched \in AddonConfig
      BY <1>1, <1>6, PatchedTypes
    <2>2. patched = store \/ patched.resourceVersion = store.resourceVersion + 1
      BY <1>1, <1>6 DEF PatchedStatus, Written, AddonConfig
    <2> HIDE DEF patched
    <2>3. \/ UNCHANGED <<store, events, cache>>
          \/ cache' = cache /\ (Write(patched) \/ Write(store))
      BY <1>9 DEF PatchStatus, Uncertain, patched
    <2> QED  BY <1>2, <1>3, <2>1, <2>2, <2>3
  <1>10. CASE CreateConfig
    <2>1. PICK spec \in Specs : Write(Created(store, spec)) /\ cache' = cache
      BY <1>10 DEF CreateConfig
    <2>2. Created(store, spec) \in AddonConfig
      BY <1>1, CreatedDeletedType, ControllerAssumption
    <2>3. Created(store, spec).resourceVersion = store.resourceVersion + 1
      BY DEF Created
    <2> QED  BY <1>2, <2>1, <2>2, <2>3
  <1>11. CASE DeleteConfig
    <2>1. Deleted(store) \in AddonConfig
      BY <1>1, CreatedDeletedType, EmptyObjectTypes DEF AddonConfig
    <2>2. Deleted(store).resourceVersion = store.resourceVersion + 1
      BY DEF Deleted, NoAddonConfig
    <2> QED  BY <1>2, <1>11, <2>1, <2>2 DEF DeleteConfig
  <1>12. CASE EditConfig
    <2>1. PICK spec \in Specs :
            Write(Written(store, [store EXCEPT !.spec = spec])) /\ cache' = cache
      BY <1>12 DEF EditConfig
    <2>2. [store EXCEPT !.spec = spec] \in AddonConfig
      BY <1>1, ControllerAssumption DEF AddonConfig
    <2> QED  BY <1>1, <1>2, <2>1, <2>2, WrittenType, WrittenIsNew
  <1>13. CASE SetForeignCondition
    <2> DEFINE conds(c) == Set(store.conditions, "Foreign", c, Now)
    <2>1. PICK c \in {TrueCondition, FalseCondition("Foreign", "Error")} :
            /\ Write(Written(store, [store EXCEPT !.conditions = conds(c)]))
            /\ cache' = cache
      BY <1>13 DEF SetForeignCondition
    <2>2. "Foreign" \in ConditionTypes /\ "Foreign" \in Reasons /\ "Error" \in Severities
      BY DEF ConditionTypes, Reasons, Severities
    <2>3. conds(c) \in ConditionList
      BY <1>1, <2>1, <2>2, ConditionsAreConditions, SetType DEF AddonConfig
    <2> HIDE DEF conds
    <2>4. [store EXCEPT !.conditions = conds(c)] \in AddonConfig
      BY <1>1, <2>3 DEF AddonConfig
    <2> QED  BY <1>1, <1>2, <2>1, <2>4, WrittenType, WrittenIsNew
  <1>14. CASE Start \/ Validate \/ Target \/ ResolveDependency \/ DependenciesResolved
              \/ RenderAndSave
    BY <1>3, <1>14 DEF Start, Validate, Target, ResolveDependency, DependenciesResolved,
       RenderAndSave, api
  <1>15. CASE DeliverDefinition \/ Timer \/ UNCHANGED vars
    BY <1>3, <1>15 DEF DeliverDefinition, Timer, vars, api
  <1>16. CASE Define \/ Undefine \/ ChangeCluster \/ ChangeObjects \/ Resync
    BY <1>3, <1>16 DEF Define, Undefine, ChangeCluster, ChangeObjects, Resync, api
  <1> QED
    BY <1>4, <1>5, <1>7, <1>8, <1>9, <1>10, <1>11, <1>12, <1>13, <1>14, <1>15, <1>16
    DEF Next, Reconcile, Environment

\* The invariant holds throughout.
LEMMA LockInvInductive == Spec => []LockInv
  <1>1. Init => LockInv
    <2> SUFFICES ASSUME Init PROVE LockInv
      OBVIOUS
    <2>1. TypeOK
      BY InitType
    <2>2. VersionsIdentify
      <3>1. cache = store /\ events = <<>>
        BY DEF Init
      <3>2. store.resourceVersion \in Nat
        BY <2>1 DEF TypeOK, AddonConfig
      <3> QED  BY <3>1, <3>2 DEF VersionsIdentify, Precedes
    <2>3. ForeignUntouched
      BY DEF Init, Idle, ForeignUntouched
    <2> QED  BY <2>1, <2>2, <2>3 DEF LockInv
  <1>2. LockInv /\ [Next]_vars => LockInv'
    BY NextType, VersionsInductive, WorkerUntouched DEF LockInv
  <1> QED  BY <1>1, <1>2, PTL DEF Spec

-----------------------------------------------------------------------------
(* What the lock guarantees.                                               *)

\* No patch reaches a foreign condition: the locked one was merged into the
\* stored version itself, and the two others carry no conditions.
LEMMA PatchesPreserve ==
  ASSUME LockInv, Reconcile
  PROVE  store'.conditions["Foreign"] = store.conditions["Foreign"]
  <1> USE DEF LockInv
  <1> DEFINE Same(o) == o.conditions["Foreign"] = store.conditions["Foreign"]
  <1>1. /\ store \in AddonConfig /\ cache \in AddonConfig
        /\ w.before \in AddonConfig /\ w.ac \in AddonConfig
    BY DEF TypeOK, Worker
  <1>2. ASSUME NEW n \in AddonConfig, Same(n)
        PROVE  Same(Written(store, n))
    BY <1>1, <1>2 DEF Written, AddonConfig
  <1>3. CASE PatchConditions
    <2> DEFINE conds == Apply(w.before.conditions, w.ac.conditions, cache.conditions, Now)
               n == [store EXCEPT !.conditions = conds]
               patched == IF store.exists /\ ~Outdated(cache, store)
                          THEN PatchedConditions(w.before, w.ac, cache, store, Now) ELSE store
    <2>1. ASSUME store.exists, ~Outdated(cache, store)
          PROVE  Same(patched)
      <3>1. cache = store
        BY <2>1 DEF Outdated, VersionsIdentify, Precedes
      <3>2. conds["Foreign"] = cache.conditions["Foreign"]
        <4>1. "Foreign" \notin NewPatch(w.before.conditions, w.ac.conditions)
          BY DEF NewPatch, ForeignUntouched
        <4>2. "Foreign" \in DOMAIN cache.conditions
          BY <1>1 DEF AddonConfig, ConditionList, ConditionTypes
        <4> QED  BY <4>1, <4>2 DEF Apply
      <3>3. conds \in ConditionList
        BY <1>1, ApplyType DEF AddonConfig
      <3> HIDE DEF conds
      <3>4. n \in AddonConfig /\ Same(n)
        BY <1>1, <3>1, <3>2, <3>3 DEF AddonConfig
      <3>5. patched = Written(store, n)
        BY <2>1 DEF PatchedConditions, conds
      <3> QED  BY <1>2, <3>4, <3>5
    <2>2. Same(patched)
      <3>1. CASE store.exists /\ ~Outdated(cache, store)
        BY <3>1, <2>1
      <3>2. CASE ~(store.exists /\ ~Outdated(cache, store))
        BY <3>2
      <3> QED  BY <3>1, <3>2
    <2> HIDE DEF patched
    <2>3. store' = store \/ store' = patched
      BY <1>3 DEF PatchConditions, Uncertain, Write, patched
    <2> QED  BY <2>2, <2>3
  <1>4. CASE PatchSpec
    <2> DEFINE patched == IF store.exists THEN PatchedSpec(w.before, w.ac, store) ELSE store
    <2>1. Same(patched)
      BY <1>1 DEF PatchedSpec, Written, AddonConfig
    <2> HIDE DEF patched
    <2>2. store' = store \/ store' = patched
      BY <1>4 DEF PatchSpec, Uncertain, Write, patched
    <2> QED  BY <2>1, <2>2
  <1>5. CASE PatchStatus
    <2> DEFINE patched == IF store.exists THEN PatchedStatus(w.before, w.ac, store) ELSE store
    <2>1. Same(patched)
      BY <1>1 DEF PatchedStatus, Written, AddonConfig
    <2> HIDE DEF patched
    <2>2. UNCHANGED <<store, events>> \/ Write(patched) \/ Write(store)
      BY <1>5 DEF PatchStatus, Uncertain, patched
    <2> QED  BY <2>1, <2>2 DEF Write
  <1>6. CASE Start \/ Validate \/ Target \/ ResolveDependency \/ DependenciesResolved
              \/ RenderAndSave
    BY <1>6 DEF Start, Validate, Target, ResolveDependency, DependenciesResolved,
       RenderAndSave, api
  <1> QED  BY <1>3, <1>4, <1>5, <1>6 DEF Reconcile

\* Whatever number of writers, edits, lost replies, restarts and retries: no
\* step of the controller changes a condition that is not its own.
THEOREM ForeignConditionsSafe == Spec => ForeignConditionsPreserved
  <1>1. LockInv /\ [Next]_vars =>
          [Reconcile => store'.conditions["Foreign"] = store.conditions["Foreign"]]_vars
    BY PatchesPreserve
  <1> QED  BY <1>1, LockInvInductive, PTL DEF Spec, ForeignConditionsPreserved
=============================================================================
