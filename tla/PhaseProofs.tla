------------------------------ MODULE PhaseProofs ------------------------------
(***************************************************************************)
(* What the phases and the patches of a reconciliation do, and what they   *)
(* leave alone: the facts that the proofs about the controller and about   *)
(* its replicas share.                                                     *)
(***************************************************************************)
EXTENDS Phases, SequenceTheorems, TLAPS

-----------------------------------------------------------------------------
(* Conditions.                                                             *)

\* The constructors of conditions make conditions.
LEMMA ConditionsAreConditions ==
  /\ Absent \in Condition
  /\ TrueCondition \in Condition
  /\ \A r \in Reasons \cup {NoReason} : UnknownCondition(r) \in Condition
  /\ \A r \in Reasons \cup {NoReason}, s \in Severities : FalseCondition(r, s) \in Condition
  <1>1. ASSUME NEW status \in Statuses, NEW severity \in Severities,
               NEW reason \in Reasons \cup {NoReason}
        PROVE  Cond(status, severity, reason) \in Condition
    BY DEF Cond, Condition, ConditionsFor
  <1>2. /\ {"Absent", "True", "False", "Unknown"} \subseteq Statuses
        /\ "None" \in Severities
    BY DEF Statuses, Severities
  <1> QED
    BY <1>1, <1>2 DEF Absent, TrueCondition, UnknownCondition, FalseCondition

\* Setting a condition keeps a condition list one.
LEMMA SetType ==
  ASSUME NEW conds \in ConditionList, NEW t \in ConditionTypes, NEW c \in Condition
  PROVE  Set(conds, t, c, Now) \in ConditionList
  <1>1. [c EXCEPT !.time = Now] \in Condition
    BY DEF Condition, ConditionsFor, Now
  <1> QED  BY <1>1 DEF Set, ConditionList

\* The conditions that Ready summarises are known types.
LEMMA InScopeFacts ==
  /\ DOMAIN InScope = 1..5
  /\ \A i \in 1..5 : InScope[i] \in ConditionTypes
  BY DEF InScope, InScopeTypes, OwnedTypes, ConditionTypes

\* The summary of a condition list is a condition (or none).
LEMMA SummaryType ==
  ASSUME NEW conds \in ConditionList
  PROVE  Summary(conds, InScope) \in Condition
  <1> DEFINE top == TopGroup(conds, InScope)
  <1> DEFINE i == CHOOSE k \in top : \A j \in top : k <= j
  <1>1. top \subseteq 1..5
    <2>1. top \subseteq DOMAIN InScope
      BY DEF TopGroup
    <2> QED  BY <2>1, InScopeFacts
  <1>2. CASE top = {}
    <2>1. Summary(conds, InScope) = Absent
      BY <1>2 DEF Summary
    <2> QED  BY <2>1, ConditionsAreConditions
  <1>3. CASE top # {}
    <2>1. \E k \in top : \A j \in top : k <= j
      BY <1>1, <1>3
    <2>2. i \in 1..5
      BY <1>1, <2>1
    <2>3. conds[InScope[i]] \in Condition
      BY <2>2, InScopeFacts DEF ConditionList
    <2>4. /\ conds[InScope[i]].reason \in Reasons \cup {NoReason}
          /\ conds[InScope[i]].severity \in Severities
      BY <2>3 DEF Condition, ConditionsFor
    <2>5. \/ Summary(conds, InScope) = TrueCondition
          \/ Summary(conds, InScope) =
               FalseCondition(conds[InScope[i]].reason, conds[InScope[i]].severity)
          \/ Summary(conds, InScope) = UnknownCondition(conds[InScope[i]].reason)
      BY <1>3 DEF Summary
    <2> QED  BY <2>4, <2>5, ConditionsAreConditions
  <1> QED  BY <1>2, <1>3

\* Summarising keeps a condition list one.
LEMMA SetSummaryType ==
  ASSUME NEW conds \in ConditionList
  PROVE  SetSummary(conds, InScope, Now) \in ConditionList
  <1>1. "Ready" \in ConditionTypes
    BY DEF ConditionTypes, OwnedTypes
  <1> QED  BY <1>1, SummaryType, SetType DEF SetSummary

\* Merging two condition lists into a third gives a condition list.
LEMMA ApplyType ==
  ASSUME NEW before \in ConditionList, NEW after \in ConditionList,
         NEW latest \in ConditionList
  PROVE  Apply(before, after, latest, Now) \in ConditionList
  <1> SUFFICES ASSUME NEW t \in ConditionTypes
               PROVE  Apply(before, after, latest, Now)[t] \in Condition
    BY DEF Apply, ConditionList
  <1>1. /\ latest[t] \in Condition /\ after[t] \in Condition
        /\ DOMAIN latest = ConditionTypes
    BY DEF ConditionList
  <1>2. Set(latest, t, after[t], Now)[t] \in Condition
    <2>1. Set(latest, t, after[t], Now) \in ConditionList
      BY <1>1, SetType
    <2> QED  BY <2>1 DEF ConditionList
  <1> QED  BY <1>1, <1>2, ConditionsAreConditions DEF Apply

-----------------------------------------------------------------------------
(* The phases keep the context of a reconciliation well typed.             *)

\* Whatever the definition that was read, it has a well formed spec.
LEMMA SpecOfType ==
  ASSUME NEW d \in Definition
  PROVE  SpecOf(d) \in DefinitionSpec
  <1>1. EmptySpec \in DefinitionSpec
    BY DEF EmptySpec, DefinitionSpec, OutputShapes, Values
  <1>2. \A r \in DOMAIN Revision : Revision[r] \in DefinitionSpec
    BY RevisionAssumption
  <1> QED  BY <1>1, <1>2 DEF SpecOf

\* The pieces the phases are made of.
LEMMA MarkType ==
  ASSUME NEW x \in Worker, NEW t \in ConditionTypes
  PROVE  /\ MarkTrue(x, t) \in Worker
         /\ \A r \in Reasons : MarkFalse(x, t, r) \in Worker
  <1> DEFINE put(c) == [x EXCEPT !.ac.conditions = Set(@, t, c, Now)]
  <1>1. ASSUME NEW c \in Condition
        PROVE  put(c) \in Worker
    <2>1. x.ac \in AddonConfig
      BY DEF Worker
    <2>2. Set(x.ac.conditions, t, c, Now) \in ConditionList
      BY <2>1, SetType DEF AddonConfig
    <2>3. [x.ac EXCEPT !.conditions = Set(x.ac.conditions, t, c, Now)] \in AddonConfig
      BY <2>1, <2>2 DEF AddonConfig
    <2> QED  BY <2>3 DEF Worker
  <1>2. "Error" \in Severities
    BY DEF Severities
  <1> QED  BY <1>1, <1>2, ConditionsAreConditions DEF MarkTrue, MarkFalse

\* Errors, requeues, the turns of the loop and template variables.
LEMMA StepType ==
  ASSUME NEW x \in Worker
  PROVE  /\ Fail(x) \in Worker /\ Requeue(x) \in Worker
         /\ Skip(x) \in Worker /\ Abort(x) \in Worker
         /\ \A v \in Variables : Provide(x, v) \in Worker
  <1>1. Fail(x) \in Worker /\ Requeue(x) \in Worker /\ Skip(x) \in Worker
    <2>1. Fail(x) \in Worker
      BY DEF Fail, Worker
    <2>2. Requeue(x) \in Worker
      BY DEF Requeue, Worker
    <2>3. Skip(x) \in Worker
      <3>1. x.dep + 1 \in Nat \ {0}
        BY DEF Worker
      <3> QED  BY <3>1 DEF Skip, Worker
    <2> QED  BY <2>1, <2>2, <2>3
  <1>2. Len(Dependencies(x)) \in Nat
    BY SpecOfType DEF Dependencies, DefinitionSpec, Worker
  <1>3. Abort(x) \in Worker
    BY <1>1, <1>2 DEF Abort, Worker
  <1>4. \A v \in Variables : Provide(x, v) \in Worker
    BY DEF Provide, Worker
  <1> QED  BY <1>1, <1>3, <1>4

\* The fields of the working copy that phases assign.
LEMMA FieldTypes ==
  ASSUME NEW x \in Worker
  PROVE  /\ \A n \in Nat : [x EXCEPT !.ac.status.observedSchemaUID = n] \in Worker
         /\ \A f \in SUBSET FieldPaths : [x EXCEPT !.ac.status.fieldErrors = f] \in Worker
         /\ \A v \in Values : [x EXCEPT !.ac.spec.values = v] \in Worker
         /\ \A o \in SUBSET Outputs : [x EXCEPT !.ac.status.outputRef = o] \in Worker
         /\ \A p \in Steps : [x EXCEPT !.pc = p] \in Worker
  <1>1. x.ac \in AddonConfig
    BY DEF Worker
  <1>2. x.ac.status \in AddonConfigStatus /\ x.ac.spec \in AddonConfigSpec
    BY <1>1 DEF AddonConfig
  <1>3. ASSUME NEW s \in AddonConfigStatus
        PROVE  [x EXCEPT !.ac.status = s] \in Worker
    BY <1>1 DEF AddonConfig, Worker
  <1>4. ASSUME NEW s \in AddonConfigSpec
        PROVE  [x EXCEPT !.ac.spec = s] \in Worker
    BY <1>1 DEF AddonConfig, Worker
  <1>5. \A n \in Nat : [x EXCEPT !.ac.status.observedSchemaUID = n] \in Worker
    <2> TAKE n \in Nat
    <2>1. [x.ac.status EXCEPT !.observedSchemaUID = n] \in AddonConfigStatus
      BY <1>2 DEF AddonConfigStatus
    <2> QED  BY <2>1, <1>3
  <1>6. \A f \in SUBSET FieldPaths : [x EXCEPT !.ac.status.fieldErrors = f] \in Worker
    <2> TAKE f \in SUBSET FieldPaths
    <2>1. [x.ac.status EXCEPT !.fieldErrors = f] \in AddonConfigStatus
      BY <1>2 DEF AddonConfigStatus
    <2> QED  BY <2>1, <1>3
  <1>7. \A o \in SUBSET Outputs : [x EXCEPT !.ac.status.outputRef = o] \in Worker
    <2> TAKE o \in SUBSET Outputs
    <2>1. [x.ac.status EXCEPT !.outputRef = o] \in AddonConfigStatus
      BY <1>2 DEF AddonConfigStatus
    <2> QED  BY <2>1, <1>3
  <1>8. \A v \in Values : [x EXCEPT !.ac.spec.values = v] \in Worker
    <2> TAKE v \in Values
    <2>1. [x.ac.spec EXCEPT !.values = v] \in AddonConfigSpec
      BY <1>2 DEF AddonConfigSpec
    <2> QED  BY <2>1, <1>4
  <1>9. \A p \in Steps : [x EXCEPT !.pc = p] \in Worker
    BY DEF Worker
  <1> QED  BY <1>5, <1>6, <1>7, <1>8, <1>9

\* reconcileSchema.
LEMMA SchemaType ==
  ASSUME NEW x \in Worker
  PROVE  reconcileSchema(x) \in Worker
  <1>1. /\ "ValidSchema" \in ConditionTypes
        /\ "SchemaNotFound" \in Reasons /\ "InvalidSchema" \in Reasons
    BY DEF ConditionTypes, OwnedTypes, InScopeTypes, InScope, Reasons
  <1>2. x.def.uid \in Nat
    BY DEF Worker, Definition
  <1> DEFINE y(n) == [x EXCEPT !.ac.status.observedSchemaUID = n]
  <1>3. y(0) \in Worker /\ y(x.def.uid) \in Worker
    BY <1>2, FieldTypes
  <1>4. /\ MarkFalse(y(0), "ValidSchema", "SchemaNotFound") \in Worker
        /\ MarkFalse(y(x.def.uid), "ValidSchema", "InvalidSchema") \in Worker
        /\ MarkTrue(y(x.def.uid), "ValidSchema") \in Worker
    BY <1>1, <1>3, MarkType
  <1> HIDE DEF y
  <1>5. /\ Requeue(MarkFalse(y(0), "ValidSchema", "SchemaNotFound")) \in Worker
        /\ Fail(MarkFalse(y(x.def.uid), "ValidSchema", "InvalidSchema")) \in Worker
    BY <1>4, StepType
  <1> QED  BY <1>4, <1>5 DEF reconcileSchema, y

\* reconcileSchemaDefaulting: a default is a value.
LEMMA DefaultingType ==
  ASSUME NEW x \in Worker
  PROVE  reconcileSchemaDefaulting(x) \in Worker
  <1>1. "DefaultingComplete" \in ConditionTypes /\ "DefaultingInternalError" \in Reasons
    BY DEF ConditionTypes, OwnedTypes, InScopeTypes, InScope, Reasons
  <1> DEFINE value == IF x.ac.spec.values = Empty THEN SpecOf(x.def).default
                                                  ELSE x.ac.spec.values
  <1>2. value \in Values
    <2>1. x.ac.spec.values \in Values
      BY DEF Worker, AddonConfig, AddonConfigSpec
    <2>2. SpecOf(x.def).default \in Values
      BY SpecOfType DEF Worker, DefinitionSpec, Values
    <2> QED  BY <2>1, <2>2
  <1>3. [x EXCEPT !.ac.spec.values = value] \in Worker
    BY <1>2, FieldTypes
  <1>4. /\ MarkTrue([x EXCEPT !.ac.spec.values = value], "DefaultingComplete") \in Worker
        /\ MarkFalse(x, "DefaultingComplete", "DefaultingInternalError") \in Worker
    BY <1>1, <1>3, MarkType
  <1>5. Fail(MarkFalse(x, "DefaultingComplete", "DefaultingInternalError")) \in Worker
    BY <1>4, StepType
  <1> QED  BY <1>4, <1>5 DEF reconcileSchemaDefaulting

\* reconcileValidation, all of its phases.
LEMMA ValidationType ==
  ASSUME NEW x \in Worker
  PROVE  reconcileValidation(x) \in Worker
  <1>1. "ValidConfig" \in ConditionTypes /\ "InvalidConfiguration" \in Reasons
    BY DEF ConditionTypes, OwnedTypes, InScopeTypes, InScope, Reasons
  <1>2. ASSUME NEW y \in Worker
        PROVE  reconcileSchemaValidation(y) \in Worker
    <2> DEFINE faults == Faults(y.ac.spec.values)
    <2>1. /\ [y EXCEPT !.ac.status.fieldErrors = {}] \in Worker
          /\ [y EXCEPT !.ac.status.fieldErrors = faults] \in Worker
      BY FieldTypes DEF Faults, FieldPaths
    <2>2. MarkFalse([y EXCEPT !.ac.status.fieldErrors = faults],
                    "ValidConfig", "InvalidConfiguration") \in Worker
      BY <1>1, <2>1, MarkType
    <2>3. Fail(MarkFalse([y EXCEPT !.ac.status.fieldErrors = faults],
                         "ValidConfig", "InvalidConfiguration")) \in Worker
      BY <2>2, StepType
    <2>4. Fail(y) \in Worker
      BY StepType
    <2> QED  BY <2>1, <2>3, <2>4 DEF reconcileSchemaValidation, Accept, Reject
  <1>3. reconcileSchemaDefaulting(reconcileSchema(x)) \in Worker
    BY SchemaType, DefaultingType
  <1>4. reconcileSchemaValidation(reconcileSchemaDefaulting(reconcileSchema(x))) \in Worker
    BY <1>2, <1>3
  <1> QED  BY <1>1, <1>4, MarkType DEF reconcileValidation

\* reconcileTarget, whatever the API server answers, and the values.
LEMMA TargetType ==
  ASSUME NEW x \in Worker, NEW c \in Clusters
  PROVE  reconcileTemplateValues(reconcileTarget(x, c)) \in Worker
  <1>1. /\ "ValidTarget" \in ConditionTypes
        /\ "TargetUndefined" \in Reasons /\ "TargetNotFound" \in Reasons
        /\ TargetVariable \in Variables /\ ValuesVariable \in Variables
    BY DEF ConditionTypes, OwnedTypes, InScopeTypes, InScope, Reasons, Variables
  <1>2. reconcileTarget(x, c) \in Worker
    <2>1. /\ Requeue(MarkFalse(x, "ValidTarget", "TargetUndefined")) \in Worker
          /\ Requeue(MarkFalse(x, "ValidTarget", "TargetNotFound")) \in Worker
      BY <1>1, MarkType, StepType
    <2>2. MarkTrue(Provide(x, TargetVariable), "ValidTarget") \in Worker
      BY <1>1, MarkType, StepType
    <2>3. x.ac.spec.target \in BOOLEAN
      BY DEF Worker, AddonConfig, AddonConfigSpec
    <2>4. c = "missing" \/ c = "unreadable" \/ c = "present"
      BY DEF Clusters
    <2>5. CASE ~x.ac.spec.target
      BY <2>1, <2>5 DEF reconcileTarget
    <2>6. CASE x.ac.spec.target
      BY <2>1, <2>2, <2>4, <2>6, StepType DEF reconcileTarget
    <2> QED  BY <2>3, <2>5, <2>6
  <1>3. ASSUME NEW y \in Worker
        PROVE  reconcileTemplateValues(y) \in Worker
    <2>1. y.ac.spec.values \in Values
      BY DEF Worker, AddonConfig, AddonConfigSpec
    <2>2. Fail(y) \in Worker /\ Provide(y, ValuesVariable) \in Worker
      BY <1>1, StepType
    <2>3. \/ reconcileTemplateValues(y) = Fail(y)
          \/ reconcileTemplateValues(y) = Provide(y, ValuesVariable)
          \/ reconcileTemplateValues(y) = y
      BY <2>1, ValuesAssumption DEF reconcileTemplateValues, Values
    <2> QED  BY <2>2, <2>3
  <1> QED  BY <1>2, <1>3

\* One turn of reconcileDependencies, whatever the API server answers.
LEMMA DependencyType ==
  ASSUME NEW x \in Worker, NEW n \in Int, ~Resolved(x)
  PROVE  resolveDependency(x, n) \in Worker
  <1> DEFINE d == Dependencies(x)[x.dep]
  <1>1. d \in Dependency
    <2>1. Dependencies(x) \in Seq(Dependency)
      BY SpecOfType DEF Dependencies, DefinitionSpec, Worker
    <2>2. x.dep \in 1..Len(Dependencies(x))
      BY <2>1 DEF Worker, Resolved
    <2> QED  BY <2>1, <2>2
  <1>2. /\ d.name \in Variables
        /\ d.by \in {"name", "selector", "both"}
        /\ d.known \in BOOLEAN /\ d.parsable \in BOOLEAN
    BY <1>1 DEF Dependency, Variables
  <1>3. /\ "ValidDependency" \in ConditionTypes
        /\ {"DependencyNotFound", "DependencyUniquenessNotSatisfied",
            "DependencyTemplatingFailed", "DependencyConstraintFailed"} \subseteq Reasons
    BY DEF ConditionTypes, Reasons
  <1>4. ASSUME NEW r \in {"DependencyNotFound", "DependencyUniquenessNotSatisfied",
                          "DependencyTemplatingFailed", "DependencyConstraintFailed"}
        PROVE  /\ Skip(MarkFalse(x, "ValidDependency", r)) \in Worker
               /\ Abort(MarkFalse(x, "ValidDependency", r)) \in Worker
    <2>1. MarkFalse(x, "ValidDependency", r) \in Worker
      BY <1>3, MarkType
    <2> QED  BY <2>1, StepType
  <1>5. /\ Skip(x) \in Worker /\ Abort(x) \in Worker
        /\ Skip(Provide(x, d.name)) \in Worker
    BY <1>2, StepType
  <1> HIDE DEF d
  <1>6. fetchLabeledDependency(x, d, n) \in Worker
    BY <1>4, <1>5 DEF fetchLabeledDependency
  <1>7. fetchNamedDependency(x, d, n) \in Worker
    BY <1>4, <1>5 DEF fetchNamedDependency
  <1>8. CASE d.by = "both" \/ ~d.known
    <2>1. resolveDependency(x, n) = Abort(x)
      BY <1>2, <1>8 DEF resolveDependency, d
    <2> QED  BY <2>1, <1>5
  <1>9. CASE d.by # "both" /\ d.known
    <2>1. \/ resolveDependency(x, n) =
               Abort(MarkFalse(x, "ValidDependency", "DependencyTemplatingFailed"))
          \/ resolveDependency(x, n) = fetchLabeledDependency(x, d, n)
          \/ resolveDependency(x, n) = fetchNamedDependency(x, d, n)
      BY <1>2, <1>9 DEF resolveDependency, d
    <2> QED  BY <2>1, <1>4, <1>6, <1>7
  <1> QED  BY <1>2, <1>8, <1>9

\* reconcileTemplate.
LEMMA TemplateType ==
  ASSUME NEW x \in Worker
  PROVE  reconcileTemplate(x) \in Worker
  <1>1. /\ "ValidTemplate" \in ConditionTypes
        /\ "InvalidTemplate" \in Reasons /\ "FailedRendering" \in Reasons
    BY DEF ConditionTypes, OwnedTypes, InScopeTypes, InScope, Reasons
  <1>2. /\ MarkTrue(x, "ValidTemplate") \in Worker
        /\ MarkFalse(x, "ValidTemplate", "InvalidTemplate") \in Worker
        /\ Fail(MarkFalse(x, "ValidTemplate", "InvalidTemplate")) \in Worker
        /\ Fail(MarkFalse(x, "ValidTemplate", "FailedRendering")) \in Worker
    BY <1>1, MarkType, StepType
  <1> QED  BY <1>2 DEF reconcileTemplate

\* saveRenderedTemplate: outputRef is set for an output that has one shape.
LEMMA SaveType ==
  ASSUME NEW x \in Worker
  PROVE  saveRenderedTemplate(x) \in Worker
  <1> DEFINE output == SpecOf(x.def).output
  <1>1. /\ "OutputResourceUpdated" \in ConditionTypes
        /\ {"OutputResourceUndefined", "MultipleOutputResourceDefined",
            "RemoteOutputResourceNoNamespaceDefined", "NameTemplatingFailed"} \subseteq Reasons
    BY DEF ConditionTypes, Reasons
  <1>2. output \in OutputShapes
    BY SpecOfType DEF Worker, DefinitionSpec
  <1> DEFINE mark(reason) == MarkFalse(x, "OutputResourceUpdated", reason)
  <1>3. ASSUME NEW r \in Reasons
        PROVE  Requeue(mark(r)) \in Worker /\ Fail(mark(r)) \in Worker
    <2>1. mark(r) \in Worker
      BY <1>1, MarkType
    <2> QED  BY <2>1, StepType
  <1>4. ASSUME NEW o \in Outputs
        PROVE  [MarkTrue(x, "OutputResourceUpdated") EXCEPT !.ac.status.outputRef = {o}] \in Worker
    <2>1. MarkTrue(x, "OutputResourceUpdated") \in Worker
      BY <1>1, MarkType
    <2> QED  BY <2>1, FieldTypes
  <1>5. CASE output \in Outputs
    <2>1. saveRenderedTemplate(x) =
            [MarkTrue(x, "OutputResourceUpdated") EXCEPT !.ac.status.outputRef = {output}]
      BY <1>5 DEF saveRenderedTemplate, OutputReason, Outputs
    <2> QED  BY <2>1, <1>4, <1>5
  <1>6. CASE output \in {"undefined", "multiple", "noNamespace"}
    <2>1. OutputReason[output] \in Reasons /\ output \in DOMAIN OutputReason
      BY <1>6, <1>1 DEF OutputReason
    <2>2. saveRenderedTemplate(x) = Requeue(mark(OutputReason[output]))
      BY <1>6 DEF saveRenderedTemplate, OutputReason, Outputs
    <2> QED  BY <2>1, <2>2, <1>3
  <1>7. CASE output = "unparsable"
    <2>1. saveRenderedTemplate(x) = Fail(mark("NameTemplatingFailed"))
      BY <1>7 DEF saveRenderedTemplate, OutputReason, Outputs
    <2> QED  BY <2>1, <1>1, <1>3
  <1> QED  BY <1>2, <1>5, <1>6, <1>7 DEF OutputShapes

\* What patchAddonConfig does before it patches.
LEMMA SummariseType ==
  ASSUME NEW x \in Worker
  PROVE  Summarise(x) \in Worker
  <1> DEFINE conds == SetSummary(x.ac.conditions, InScope, Now)
             status == [x.ac.status EXCEPT !.observedGeneration = x.ac.generation]
  <1>1. x.ac \in AddonConfig
    BY DEF Worker
  <1>2. conds \in ConditionList
    BY <1>1, SetSummaryType DEF AddonConfig
  <1>3. status \in AddonConfigStatus
    BY <1>1 DEF AddonConfig, AddonConfigStatus
  <1> HIDE DEF conds, status
  <1>4. [[x.ac EXCEPT !.conditions = conds] EXCEPT !.status = status] \in AddonConfig
    BY <1>1, <1>2, <1>3 DEF AddonConfig
  <1>5. [x EXCEPT !.ac = [[x.ac EXCEPT !.conditions = conds] EXCEPT !.status = status]]
          \in Worker
    BY <1>4 DEF Worker
  <1>6. Summarise(x) =
          [x EXCEPT !.ac = [[x.ac EXCEPT !.conditions = conds] EXCEPT !.status = status]]
    BY <1>1 DEF Summarise, Observe, conds, status, Worker, AddonConfig
  <1> QED  BY <1>5, <1>6

\* An output resource holds nothing or a rendering.
LEMMA PersistedType ==
  ASSUME NEW x \in Worker, NEW o \in [Places -> Renderings]
  PROVE  Persisted(x, o) \in [Places -> Renderings]
  <1>1. /\ x.def.revision \in Revisions
        /\ x.ac.spec.values \in Values
    BY DEF Worker, Definition, AddonConfig, AddonConfigSpec
  <1>2. RenderedTemplate(x) \in Renderings
    BY <1>1 DEF RenderedTemplate, Renderings, Blank, Revisions, Values
  <1> QED  BY <1>2 DEF Persisted, Savable
-----------------------------------------------------------------------------
(* What the API server stores is well typed.                               *)

\* An accepted write stores an AddonConfig.
LEMMA WrittenType ==
  ASSUME NEW o \in AddonConfig, NEW n \in AddonConfig
  PROVE  Written(o, n) \in AddonConfig
  <1> DEFINE g == IF n.spec = o.spec THEN o.generation ELSE o.generation + 1
  <1>1. g \in Nat /\ o.resourceVersion + 1 \in Nat
    BY DEF AddonConfig
  <1> HIDE DEF g
  <1>2. [n EXCEPT !.resourceVersion = o.resourceVersion + 1, !.generation = g] \in AddonConfig
    BY <1>1 DEF AddonConfig
  <1> QED  BY <1>2 DEF Written, g

\* The objects that stand for none.
LEMMA EmptyObjectTypes ==
  /\ NoConditions \in ConditionList /\ NoStatus \in AddonConfigStatus
  /\ NoAddonConfig \in AddonConfig
  /\ NoDefinition \in Definition
  /\ Idle \in Worker
  <1>1. NoConditions \in ConditionList
    BY ConditionsAreConditions DEF NoConditions, ConditionList
  <1>2. NoStatus \in AddonConfigStatus
    BY DEF NoStatus, AddonConfigStatus
  <1>3. NoSpec \in AddonConfigSpec
    BY DEF NoSpec, AddonConfigSpec, Values
  <1>4. NoAddonConfig \in AddonConfig
    BY <1>1, <1>2, <1>3 DEF NoAddonConfig, AddonConfig
  <1>5. NoDefinition \in Definition
    BY DEF NoDefinition, Definition, Revisions
  <1>6. Idle \in Worker
    BY <1>4, <1>5 DEF Idle, Worker, Steps
  <1> QED  BY <1>1, <1>2, <1>4, <1>5, <1>6

\* Creating and deleting leave an AddonConfig, or none, in the store.
LEMMA CreatedDeletedType ==
  ASSUME NEW o \in AddonConfig, NEW spec \in AddonConfigSpec
  PROVE  Created(o, spec) \in AddonConfig /\ Deleted(o) \in AddonConfig
  <1>1. o.uid + 1 \in Nat /\ o.resourceVersion + 1 \in Nat /\ o.uid \in Nat
    BY DEF AddonConfig
  <1>2. Created(o, spec) \in AddonConfig
    BY <1>1, EmptyObjectTypes DEF Created, AddonConfig
  <1>3. Deleted(o) \in AddonConfig
    BY <1>1, EmptyObjectTypes DEF Deleted, AddonConfig
  <1> QED  BY <1>2, <1>3

\* So do the three patches, whatever copies they were computed from.
LEMMA PatchedTypes ==
  ASSUME NEW b \in AddonConfig, NEW a \in AddonConfig,
         NEW l \in AddonConfig, NEW s \in AddonConfig
  PROVE  /\ PatchedSpec(b, a, s) \in AddonConfig
         /\ PatchedStatus(b, a, s) \in AddonConfig
         /\ PatchedConditions(b, a, l, s, Now) \in AddonConfig
  <1>1. PatchedSpec(b, a, s) \in AddonConfig
    <2> DEFINE new == [ref    |-> Merge(b.spec.ref, a.spec.ref, s.spec.ref),
                       target |-> Merge(b.spec.target, a.spec.target, s.spec.target),
                       values |-> Merge(b.spec.values, a.spec.values, s.spec.values)]
    <2>1. new \in AddonConfigSpec
      BY DEF Merge, AddonConfig, AddonConfigSpec
    <2> HIDE DEF new
    <2>2. [s EXCEPT !.spec = new] \in AddonConfig
      BY <2>1 DEF AddonConfig
    <2>3. Written(s, [s EXCEPT !.spec = new]) \in AddonConfig
      BY <2>2, WrittenType
    <2> QED  BY <2>3 DEF PatchedSpec, new
  <1>2. PatchedStatus(b, a, s) \in AddonConfig
    <2> DEFINE B == b.status  A == a.status  S == s.status
    <2> DEFINE new == [observedGeneration |->
                         Merge(B.observedGeneration, A.observedGeneration, S.observedGeneration),
                       observedSchemaUID |->
                         Merge(B.observedSchemaUID, A.observedSchemaUID, S.observedSchemaUID),
                       fieldErrors |-> MergeKeys(B.fieldErrors, A.fieldErrors, S.fieldErrors),
                       outputRef   |-> MergeKeys(B.outputRef, A.outputRef, S.outputRef)]
    <2>1. A \in AddonConfigStatus /\ B \in AddonConfigStatus /\ S \in AddonConfigStatus
      BY DEF AddonConfig
    <2>2. new \in AddonConfigStatus
      BY <2>1 DEF Merge, MergeKeys, AddonConfigStatus
    <2>3. PatchedStatus(b, a, s) = Written(s, [s EXCEPT !.status = new])
      BY DEF PatchedStatus
    <2> HIDE DEF new
    <2>4. [s EXCEPT !.status = new] \in AddonConfig
      BY <2>2 DEF AddonConfig
    <2> QED  BY <2>3, <2>4, WrittenType
  <1>3. PatchedConditions(b, a, l, s, Now) \in AddonConfig
    <2> DEFINE new == Apply(b.conditions, a.conditions, l.conditions, Now)
    <2>1. new \in ConditionList
      BY ApplyType DEF AddonConfig
    <2> HIDE DEF new
    <2>2. [s EXCEPT !.conditions = new] \in AddonConfig
      BY <2>1 DEF AddonConfig
    <2>3. Written(s, [s EXCEPT !.conditions = new]) \in AddonConfig
      BY <2>2, WrittenType
    <2> QED  BY <2>3 DEF PatchedConditions, new
  <1> QED  BY <1>1, <1>2, <1>3

-----------------------------------------------------------------------------
(* What the phases leave alone.                                            *)

Present(x, t) == x.ac.conditions[t].status # "Absent"

\* What no phase changes in the worker; and no phase removes a condition.
Keeps(x, y) ==
  /\ y.pc = x.pc /\ y.before = x.before /\ y.def = x.def
  /\ y.ac.uid = x.ac.uid /\ y.ac.generation = x.ac.generation
  /\ y.ac.conditions["Foreign"] = x.ac.conditions["Foreign"]
  /\ x.failed => y.failed
  /\ \A t \in ConditionTypes : Present(x, t) => Present(y, t)

\* What no phase after reconcileValidation changes either.
KeepsCopy(x, y) ==
  /\ Keeps(x, y)
  /\ y.ac.spec = x.ac.spec
  /\ y.ac.status.observedSchemaUID = x.ac.status.observedSchemaUID

-----------------------------------------------------------------------------
(* The pieces the phases are made of.                                      *)

\* The conditions reconcileValidation is about.
ValidationTypes == {"ValidSchema", "ValidConfig", "DefaultingComplete"}

\* Phases compose.
LEMMA KeepsTransitive ==
  ASSUME NEW x, NEW y, NEW z
  PROVE  /\ Keeps(x, y) /\ Keeps(y, z) => Keeps(x, z)
         /\ KeepsCopy(x, y) /\ KeepsCopy(y, z) => KeepsCopy(x, z)
  BY DEF Keeps, KeepsCopy

\* Setting a condition leaves the others alone.
LEMMA SetKeeps ==
  ASSUME NEW conds \in ConditionList, NEW t \in ConditionTypes, NEW c,
         NEW u \in ConditionTypes \ {t}
  PROVE  Set(conds, t, c, Now)[u] = conds[u]
  BY DEF Set, ConditionList

\* So do marking one True and marking one False, and the condition is there.
LEMMA MarkKeeps ==
  ASSUME NEW x \in Worker, NEW t \in ConditionTypes \ {"Foreign"}
  PROVE  /\ KeepsCopy(x, MarkTrue(x, t)) /\ Present(MarkTrue(x, t), t)
         /\ \A r \in Reasons : /\ KeepsCopy(x, MarkFalse(x, t, r))
                              /\ Present(MarkFalse(x, t, r), t)
  <1> DEFINE put(c) == [x EXCEPT !.ac.conditions = Set(@, t, c, Now)]
  <1>1. ASSUME NEW c \in Condition, c.status # "Absent"
        PROVE  KeepsCopy(x, put(c)) /\ Present(put(c), t)
    <2> DEFINE conds == Set(x.ac.conditions, t, c, Now)
    <2>1. x.ac \in AddonConfig /\ x.ac.conditions \in ConditionList
      BY DEF Worker, AddonConfig
    <2>2. "Foreign" \in ConditionTypes \ {t}
      BY DEF ConditionTypes
    <2>3. \A u \in ConditionTypes \ {t} : conds[u] = x.ac.conditions[u]
      BY <2>1, SetKeeps
    <2>4. conds[t].status # "Absent"
      BY <1>1, <2>1 DEF Set, SameState, ConditionList, Condition, ConditionsFor
    <2>5. put(c).ac = [x.ac EXCEPT !.conditions = conds]
      BY DEF Worker
    <2> HIDE DEF conds
    <2>6. /\ put(c).ac.conditions = conds
          /\ put(c).ac.uid = x.ac.uid /\ put(c).ac.generation = x.ac.generation
          /\ put(c).ac.spec = x.ac.spec /\ put(c).ac.status = x.ac.status
      BY <2>1, <2>5 DEF AddonConfig
    <2>7. /\ put(c).pc = x.pc /\ put(c).before = x.before /\ put(c).def = x.def
          /\ put(c).failed = x.failed
      BY DEF Worker
    <2> QED  BY <2>2, <2>3, <2>4, <2>6, <2>7 DEF Keeps, KeepsCopy, Present
  <1>2. /\ TrueCondition \in Condition /\ TrueCondition.status # "Absent"
        /\ \A r \in Reasons : /\ FalseCondition(r, "Error") \in Condition
                             /\ FalseCondition(r, "Error").status # "Absent"
    <2>1. "Error" \in Severities
      BY DEF Severities
    <2> QED  BY <2>1, ConditionsAreConditions DEF TrueCondition, FalseCondition, Cond
  <1> QED  BY <1>1, <1>2 DEF MarkTrue, MarkFalse

\* Errors, requeues, the turns of the loop and template variables.
LEMMA StepKeeps ==
  ASSUME NEW x \in Worker
  PROVE  /\ KeepsCopy(x, Fail(x)) /\ KeepsCopy(x, Requeue(x))
         /\ KeepsCopy(x, Skip(x)) /\ KeepsCopy(x, Abort(x))
         /\ \A v \in Variables : KeepsCopy(x, Provide(x, v))
         /\ KeepsCopy(x, x)
  BY DEF KeepsCopy, Keeps, Present, Fail, Requeue, Skip, Abort, Provide, Worker

\* The fields of the working copy that phases assign.
LEMMA FieldKeeps ==
  ASSUME NEW x \in Worker
  PROVE  /\ \A n \in Nat : LET y == [x EXCEPT !.ac.status.observedSchemaUID = n]
                           IN  /\ Keeps(x, y) /\ y.ac.spec = x.ac.spec
                               /\ y.ac.status.observedSchemaUID = n
         /\ \A f \in SUBSET FieldPaths : KeepsCopy(x, [x EXCEPT !.ac.status.fieldErrors = f])
         /\ \A o \in SUBSET Outputs : KeepsCopy(x, [x EXCEPT !.ac.status.outputRef = o])
         /\ \A v \in Values : LET y == [x EXCEPT !.ac.spec.values = v]
                              IN  /\ Keeps(x, y) /\ y.ac.status = x.ac.status
                                  /\ y.ac.spec.ref = x.ac.spec.ref
  <1>1. /\ x.ac \in AddonConfig /\ x.ac.status \in AddonConfigStatus
        /\ x.ac.spec \in AddonConfigSpec
    BY DEF Worker, AddonConfig
  <1>2. ASSUME NEW s
        PROVE  LET y == [x EXCEPT !.ac.status = s]
               IN  Keeps(x, y) /\ y.ac.spec = x.ac.spec /\ y.ac.status = s
    BY <1>1 DEF Keeps, Present, Worker, AddonConfig
  <1>3. ASSUME NEW s
        PROVE  LET y == [x EXCEPT !.ac.spec = s]
               IN  Keeps(x, y) /\ y.ac.status = x.ac.status /\ y.ac.spec = s
    BY <1>1 DEF Keeps, Present, Worker, AddonConfig
  <1>4. ASSUME NEW n \in Nat
        PROVE  LET y == [x EXCEPT !.ac.status.observedSchemaUID = n]
               IN  Keeps(x, y) /\ y.ac.spec = x.ac.spec /\ y.ac.status.observedSchemaUID = n
    <2> DEFINE s == [x.ac.status EXCEPT !.observedSchemaUID = n]
    <2>1. s.observedSchemaUID = n
      BY <1>1 DEF AddonConfigStatus
    <2> HIDE DEF s
    <2> QED  BY <1>2, <2>1 DEF s
  <1>5. ASSUME NEW f \in SUBSET FieldPaths
        PROVE  KeepsCopy(x, [x EXCEPT !.ac.status.fieldErrors = f])
    <2> DEFINE s == [x.ac.status EXCEPT !.fieldErrors = f]
    <2>1. s.observedSchemaUID = x.ac.status.observedSchemaUID
      BY <1>1 DEF AddonConfigStatus
    <2> HIDE DEF s
    <2>2. KeepsCopy(x, [x EXCEPT !.ac.status = s])
      BY <1>2, <2>1 DEF KeepsCopy
    <2> QED  BY <2>2 DEF s
  <1>6. ASSUME NEW o \in SUBSET Outputs
        PROVE  KeepsCopy(x, [x EXCEPT !.ac.status.outputRef = o])
    <2> DEFINE s == [x.ac.status EXCEPT !.outputRef = o]
    <2>1. s.observedSchemaUID = x.ac.status.observedSchemaUID
      BY <1>1 DEF AddonConfigStatus
    <2> HIDE DEF s
    <2>2. KeepsCopy(x, [x EXCEPT !.ac.status = s])
      BY <1>2, <2>1 DEF KeepsCopy
    <2> QED  BY <2>2 DEF s
  <1>7. ASSUME NEW v \in Values
        PROVE  LET y == [x EXCEPT !.ac.spec.values = v]
               IN  Keeps(x, y) /\ y.ac.status = x.ac.status /\ y.ac.spec.ref = x.ac.spec.ref
    <2> DEFINE s == [x.ac.spec EXCEPT !.values = v]
    <2>1. s.ref = x.ac.spec.ref
      BY <1>1 DEF AddonConfigSpec
    <2> HIDE DEF s
    <2> QED  BY <1>3, <2>1 DEF s
  <1> QED  BY <1>4, <1>5, <1>6, <1>7

\* Moving on to the next step changes nothing else.
LEMMA StepTo ==
  ASSUME NEW x \in Worker, NEW p \in Steps
  PROVE  LET y == [x EXCEPT !.pc = p]
         IN  /\ y \in Worker /\ y.pc = p
             /\ y.before = x.before /\ y.ac = x.ac /\ y.def = x.def
             /\ y.failed = x.failed /\ y.requeue = x.requeue
  BY FieldTypes DEF Worker

-----------------------------------------------------------------------------
(* The phases.                                                             *)

\* reconcileSchema records the definition that was found.
LEMMA SchemaKeeps ==
  ASSUME NEW x \in Worker
  PROVE  LET y == reconcileSchema(x)
         IN  /\ Keeps(x, y) /\ y.ac.spec = x.ac.spec
             /\ y.ac.status.observedSchemaUID = IF x.def.exists THEN x.def.uid ELSE 0
             /\ Present(y, "ValidSchema")
  <1>1. /\ "ValidSchema" \in ConditionTypes \ {"Foreign"}
        /\ {"SchemaNotFound", "InvalidSchema"} \subseteq Reasons
    BY DEF ConditionTypes, OwnedTypes, InScopeTypes, InScope, Reasons
  <1> DEFINE Sets(y, n) == /\ Keeps(x, y) /\ y.ac.spec = x.ac.spec
                           /\ y.ac.status.observedSchemaUID = n
             y(n) == [x EXCEPT !.ac.status.observedSchemaUID = n]
             m0 == MarkFalse(y(0), "ValidSchema", "SchemaNotFound")
             m1 == MarkFalse(y(x.def.uid), "ValidSchema", "InvalidSchema")
             m2 == MarkTrue(y(x.def.uid), "ValidSchema")
  <1>2. x.def.uid \in Nat /\ x.def.exists \in BOOLEAN
    BY DEF Worker, Definition
  <1>3. \A n \in {0, x.def.uid} : y(n) \in Worker /\ Sets(y(n), n)
    BY <1>2, FieldTypes, FieldKeeps
  <1>4. ASSUME NEW u, NEW v, NEW n, Sets(u, n), KeepsCopy(u, v)
        PROVE  Sets(v, n)
    BY <1>4, KeepsTransitive DEF KeepsCopy
  <1> HIDE DEF y
  <1>5. m0 \in Worker /\ m1 \in Worker
    BY <1>1, <1>3, MarkType
  <1>6. /\ KeepsCopy(y(0), m0) /\ Present(m0, "ValidSchema")
        /\ KeepsCopy(y(x.def.uid), m1) /\ Present(m1, "ValidSchema")
        /\ KeepsCopy(y(x.def.uid), m2) /\ Present(m2, "ValidSchema")
    BY <1>1, <1>3, MarkKeeps
  <1> HIDE DEF Sets
  <1>7. Sets(m0, 0) /\ Sets(m1, x.def.uid) /\ Sets(m2, x.def.uid)
    BY <1>3, <1>4, <1>6
  <1>8. /\ Sets(Requeue(m0), 0) /\ Present(Requeue(m0), "ValidSchema")
        /\ Sets(Fail(m1), x.def.uid) /\ Present(Fail(m1), "ValidSchema")
    <2>1. KeepsCopy(m0, Requeue(m0)) /\ KeepsCopy(m1, Fail(m1))
      BY <1>5, StepKeeps
    <2> QED  BY <2>1, <1>1, <1>4, <1>6, <1>7 DEF KeepsCopy, Keeps
  <1>9. \/ ~x.def.exists /\ reconcileSchema(x) = Requeue(m0)
        \/ x.def.exists /\ reconcileSchema(x) \in {Fail(m1), m2}
    BY <1>2 DEF reconcileSchema, y
  <1> HIDE DEF m0, m1, m2
  <1> QED  BY <1>6, <1>7, <1>8, <1>9 DEF Sets

\* reconcileSchemaDefaulting changes the values and a condition only.
LEMMA DefaultingKeeps ==
  ASSUME NEW x \in Worker
  PROVE  LET y == reconcileSchemaDefaulting(x)
         IN  /\ Keeps(x, y) /\ y.ac.spec.ref = x.ac.spec.ref
             /\ y.ac.status.observedSchemaUID = x.ac.status.observedSchemaUID
  <1>1. /\ "DefaultingComplete" \in ConditionTypes \ {"Foreign"}
        /\ "DefaultingInternalError" \in Reasons
    BY DEF ConditionTypes, OwnedTypes, InScopeTypes, InScope, Reasons
  <1> DEFINE value == IF x.ac.spec.values = Empty THEN SpecOf(x.def).default
                                                  ELSE x.ac.spec.values
             y == [x EXCEPT !.ac.spec.values = value]
             m0 == MarkFalse(x, "DefaultingComplete", "DefaultingInternalError")
             m1 == MarkTrue(y, "DefaultingComplete")
  <1>2. value \in Values
    <2>1. x.ac.spec.values \in Values
      BY DEF Worker, AddonConfig, AddonConfigSpec
    <2>2. SpecOf(x.def).default \in Values
      BY SpecOfType DEF Worker, DefinitionSpec, Values
    <2> QED  BY <2>1, <2>2
  <1>3. y \in Worker /\ Keeps(x, y) /\ y.ac.status = x.ac.status /\ y.ac.spec.ref = x.ac.spec.ref
    BY <1>2, FieldTypes, FieldKeeps
  <1>4. reconcileSchemaDefaulting(x) \in {Fail(m0), m1}
    BY DEF reconcileSchemaDefaulting
  <1> HIDE DEF y
  <1>5. m0 \in Worker /\ KeepsCopy(x, m0) /\ KeepsCopy(y, m1)
    BY <1>1, <1>3, MarkType, MarkKeeps
  <1> HIDE DEF m0, m1
  <1>6. KeepsCopy(x, Fail(m0))
    BY <1>5, StepKeeps, KeepsTransitive
  <1>7. Keeps(x, m1)
    BY <1>3, <1>5, KeepsTransitive DEF KeepsCopy
  <1> QED  BY <1>3, <1>4, <1>5, <1>6, <1>7 DEF KeepsCopy

\* reconcileSchemaValidation passes values that the schema admits only, and
\* then withdraws every field error.
LEMMA SchemaValidationKeeps ==
  ASSUME NEW x \in Worker
  PROVE  LET y == reconcileSchemaValidation(x)
         IN  /\ y \in Worker /\ KeepsCopy(x, y)
             /\ ~y.failed => /\ x.ac.spec.values \in SpecOf(x.def).accepts
                             /\ y.ac.status.fieldErrors = {}
  <1>1. /\ "ValidConfig" \in ConditionTypes \ {"Foreign"} /\ "InvalidConfiguration" \in Reasons
    BY DEF ConditionTypes, OwnedTypes, InScopeTypes, InScope, Reasons
  <1> DEFINE faults == Faults(x.ac.spec.values)
             y(f) == [x EXCEPT !.ac.status.fieldErrors = f]
             m == MarkFalse(y(faults), "ValidConfig", "InvalidConfiguration")
  <1>2. \A f \in {{}, faults} : y(f) \in Worker /\ KeepsCopy(x, y(f))
    BY FieldTypes, FieldKeeps DEF Faults, FieldPaths
  <1>3. y({}).ac.status.fieldErrors = {}
    BY DEF Worker, AddonConfig, AddonConfigStatus
  <1>4. m \in Worker /\ KeepsCopy(y(faults), m)
    BY <1>1, <1>2, MarkType, MarkKeeps
  <1>5. \/ x.ac.spec.values \in SpecOf(x.def).accepts /\ reconcileSchemaValidation(x) = y({})
        \/ reconcileSchemaValidation(x) \in {Fail(x), Fail(m)}
    BY DEF reconcileSchemaValidation, Admits, Accept, Reject
  <1> HIDE DEF y, m
  <1>6. \A z \in {x, m} : Fail(z) \in Worker /\ KeepsCopy(z, Fail(z)) /\ Fail(z).failed
    BY <1>4, StepType, StepKeeps DEF Fail, Worker
  <1>7. KeepsCopy(x, Fail(m))
    BY <1>2, <1>4, <1>6, KeepsTransitive
  <1> QED  BY <1>2, <1>3, <1>5, <1>6, <1>7

\* reconcileValidation: unless it failed, the values it leaves are values
\* that the schema of the definition it was given admits; and it records
\* that definition whether it failed or not.
LEMMA ValidationKeeps ==
  ASSUME NEW x \in Worker
  PROVE  LET y == reconcileValidation(x)
         IN  /\ Keeps(x, y) /\ y.ac.spec.ref = x.ac.spec.ref
             /\ y.ac.status.observedSchemaUID = IF x.def.exists THEN x.def.uid ELSE 0
             /\ Present(y, "ValidSchema")
             /\ ~y.failed => y.ac.spec.values \in SpecOf(y.def).accepts
  <1> DEFINE a == reconcileSchema(x)
             b == reconcileSchemaDefaulting(a)
             c == reconcileSchemaValidation(b)
             uid == IF x.def.exists THEN x.def.uid ELSE 0
  <1> HIDE DEF uid
  <1>1. /\ a \in Worker /\ Keeps(x, a) /\ a.ac.spec = x.ac.spec
        /\ a.ac.status.observedSchemaUID = uid /\ Present(a, "ValidSchema")
    BY SchemaType, SchemaKeeps DEF uid
  <1> HIDE DEF a
  <1>2. /\ b \in Worker /\ Keeps(a, b) /\ b.ac.spec.ref = a.ac.spec.ref
        /\ b.ac.status.observedSchemaUID = uid
    BY <1>1, DefaultingType, DefaultingKeeps
  <1> HIDE DEF b
  <1>3. /\ c \in Worker /\ KeepsCopy(b, c)
        /\ ~c.failed => b.ac.spec.values \in SpecOf(b.def).accepts
    BY <1>2, SchemaValidationKeeps
  <1>4. \/ c.failed /\ reconcileValidation(x) = c
        \/ ~c.failed /\ reconcileValidation(x) = MarkTrue(c, "ValidConfig")
    BY DEF reconcileValidation, a, b
  <1> HIDE DEF c
  <1>5. /\ KeepsCopy(c, MarkTrue(c, "ValidConfig")) /\ KeepsCopy(c, c)
    <2>1. "ValidConfig" \in ConditionTypes \ {"Foreign"}
      BY DEF ConditionTypes, OwnedTypes, InScopeTypes, InScope
    <2> QED  BY <1>3, <2>1, MarkKeeps, StepKeeps
  <1> DEFINE y == reconcileValidation(x)
  <1>6. KeepsCopy(c, y) /\ (~y.failed => ~c.failed)
    BY <1>4, <1>5
  <1> HIDE DEF y
  <1>7. KeepsCopy(b, y)
    BY <1>3, <1>6, KeepsTransitive
  <1>8. Keeps(x, y)
    BY <1>1, <1>2, <1>7, KeepsTransitive DEF KeepsCopy
  <1>9. y.def = b.def /\ y.ac.spec = b.ac.spec /\ y.ac.status.observedSchemaUID = uid
    BY <1>2, <1>7 DEF KeepsCopy, Keeps
  <1>10. Present(y, "ValidSchema")
    <2>1. "ValidSchema" \in ConditionTypes
      BY DEF ConditionTypes, OwnedTypes, InScopeTypes, InScope
    <2> QED  BY <2>1, <1>1, <1>2, <1>7 DEF KeepsCopy, Keeps
  <1> QED  BY <1>1, <1>2, <1>3, <1>6, <1>8, <1>9, <1>10 DEF y, uid

\* reconcileTarget, whatever the API server answers, and the values.
LEMMA TargetKeeps ==
  ASSUME NEW x \in Worker, NEW c \in Clusters
  PROVE  KeepsCopy(x, reconcileTemplateValues(reconcileTarget(x, c)))
  <1>1. /\ "ValidTarget" \in ConditionTypes \ {"Foreign"}
        /\ "TargetUndefined" \in Reasons /\ "TargetNotFound" \in Reasons
        /\ TargetVariable \in Variables /\ ValuesVariable \in Variables
    BY DEF ConditionTypes, OwnedTypes, InScopeTypes, InScope, Reasons, Variables
  <1> DEFINE m0 == MarkFalse(x, "ValidTarget", "TargetUndefined")
             m1 == MarkFalse(x, "ValidTarget", "TargetNotFound")
             p  == Provide(x, TargetVariable)
             m2 == MarkTrue(p, "ValidTarget")
  <1>2. p \in Worker /\ KeepsCopy(x, p)
    BY <1>1, StepType, StepKeeps
  <1>3. reconcileTarget(x, c) \in {Requeue(m0), Requeue(m1), Fail(x), m2}
    <2>1. x.ac.spec.target \in BOOLEAN
      BY DEF Worker, AddonConfig, AddonConfigSpec
    <2>2. c = "missing" \/ c = "unreadable" \/ c = "present"
      BY DEF Clusters
    <2>3. CASE ~x.ac.spec.target
      BY <2>3 DEF reconcileTarget
    <2>4. CASE x.ac.spec.target
      BY <2>2, <2>4 DEF reconcileTarget
    <2> QED  BY <2>1, <2>3, <2>4
  <1> HIDE DEF p
  <1>4. /\ m0 \in Worker /\ m1 \in Worker /\ m2 \in Worker
        /\ KeepsCopy(x, m0) /\ KeepsCopy(x, m1) /\ KeepsCopy(p, m2)
    BY <1>1, <1>2, MarkType, MarkKeeps
  <1> HIDE DEF m0, m1, m2
  <1>5. /\ Requeue(m0) \in Worker /\ Requeue(m1) \in Worker /\ Fail(x) \in Worker
        /\ KeepsCopy(m0, Requeue(m0)) /\ KeepsCopy(m1, Requeue(m1)) /\ KeepsCopy(x, Fail(x))
    BY <1>4, StepType, StepKeeps
  <1> DEFINE y == reconcileTarget(x, c)
  <1>6. y \in Worker /\ KeepsCopy(x, y)
    BY <1>2, <1>3, <1>4, <1>5, KeepsTransitive
  <1> HIDE DEF y
  <1>7. KeepsCopy(y, reconcileTemplateValues(y))
    <2>1. y.ac.spec.values \in Values
      BY <1>6 DEF Worker, AddonConfig, AddonConfigSpec
    <2>2. reconcileTemplateValues(y) \in {Fail(y), Provide(y, ValuesVariable), y}
      BY <2>1, ValuesAssumption DEF reconcileTemplateValues, Values
    <2>3. KeepsCopy(y, Fail(y)) /\ KeepsCopy(y, Provide(y, ValuesVariable)) /\ KeepsCopy(y, y)
      BY <1>1, <1>6, StepKeeps DEF KeepsCopy, Keeps
    <2> QED  BY <2>2, <2>3
  <1> QED  BY <1>6, <1>7, KeepsTransitive DEF y

\* One turn of reconcileDependencies, whatever the API server answers.
LEMMA DependencyKeeps ==
  ASSUME NEW x \in Worker, NEW n \in Int, ~Resolved(x)
  PROVE  KeepsCopy(x, resolveDependency(x, n))
  <1> DEFINE d == Dependencies(x)[x.dep]
             reasons == {"DependencyNotFound", "DependencyUniquenessNotSatisfied",
                         "DependencyTemplatingFailed", "DependencyConstraintFailed"}
             m(r) == MarkFalse(x, "ValidDependency", r)
  <1>1. d \in Dependency
    <2>1. Dependencies(x) \in Seq(Dependency)
      BY SpecOfType DEF Dependencies, DefinitionSpec, Worker
    <2>2. x.dep \in 1..Len(Dependencies(x))
      BY <2>1 DEF Worker, Resolved
    <2> QED  BY <2>1, <2>2
  <1>2. /\ d.name \in Variables
        /\ d.by \in {"name", "selector", "both"}
        /\ d.known \in BOOLEAN /\ d.parsable \in BOOLEAN
    BY <1>1 DEF Dependency, Variables
  <1>3. "ValidDependency" \in ConditionTypes \ {"Foreign"} /\ reasons \subseteq Reasons
    BY DEF ConditionTypes, Reasons
  <1>4. ASSUME NEW r \in reasons
        PROVE  KeepsCopy(x, Skip(m(r))) /\ KeepsCopy(x, Abort(m(r)))
    <2>1. m(r) \in Worker /\ KeepsCopy(x, m(r))
      BY <1>3, MarkType, MarkKeeps
    <2>2. KeepsCopy(m(r), Skip(m(r))) /\ KeepsCopy(m(r), Abort(m(r)))
      BY <2>1, StepKeeps
    <2> QED  BY <2>1, <2>2, KeepsTransitive
  <1>5. /\ KeepsCopy(x, Skip(x)) /\ KeepsCopy(x, Abort(x))
        /\ KeepsCopy(x, Skip(Provide(x, d.name)))
    <2>1. Provide(x, d.name) \in Worker /\ KeepsCopy(x, Provide(x, d.name))
      BY <1>2, StepType, StepKeeps
    <2>2. KeepsCopy(Provide(x, d.name), Skip(Provide(x, d.name)))
      BY <2>1, StepKeeps
    <2> QED  BY <2>1, <2>2, KeepsTransitive, StepKeeps
  <1> HIDE DEF d
  <1>6. KeepsCopy(x, fetchLabeledDependency(x, d, n))
    BY <1>4, <1>5 DEF fetchLabeledDependency
  <1>7. KeepsCopy(x, fetchNamedDependency(x, d, n))
    BY <1>4, <1>5 DEF fetchNamedDependency
  <1>8. CASE d.by = "both" \/ ~d.known
    <2>1. resolveDependency(x, n) = Abort(x)
      BY <1>2, <1>8 DEF resolveDependency, d
    <2> QED  BY <2>1, <1>5
  <1>9. CASE d.by # "both" /\ d.known
    <2>1. \/ resolveDependency(x, n) =
               Abort(MarkFalse(x, "ValidDependency", "DependencyTemplatingFailed"))
          \/ resolveDependency(x, n) = fetchLabeledDependency(x, d, n)
          \/ resolveDependency(x, n) = fetchNamedDependency(x, d, n)
      BY <1>2, <1>9 DEF resolveDependency, d
    <2> QED  BY <2>1, <1>4, <1>6, <1>7
  <1> QED  BY <1>2, <1>8, <1>9

\* reconcileTemplate.
LEMMA TemplateKeeps ==
  ASSUME NEW x \in Worker
  PROVE  KeepsCopy(x, reconcileTemplate(x))
  <1>1. /\ "ValidTemplate" \in ConditionTypes \ {"Foreign"}
        /\ "InvalidTemplate" \in Reasons /\ "FailedRendering" \in Reasons
    BY DEF ConditionTypes, OwnedTypes, InScopeTypes, InScope, Reasons
  <1> DEFINE m0 == MarkFalse(x, "ValidTemplate", "InvalidTemplate")
             m1 == MarkFalse(x, "ValidTemplate", "FailedRendering")
             m2 == MarkTrue(x, "ValidTemplate")
  <1>2. reconcileTemplate(x) \in {Fail(m0), m0, Fail(m1), m2}
    BY DEF reconcileTemplate
  <1>3. /\ m0 \in Worker /\ m1 \in Worker
        /\ KeepsCopy(x, m0) /\ KeepsCopy(x, m1) /\ KeepsCopy(x, m2)
    BY <1>1, MarkType, MarkKeeps
  <1> HIDE DEF m0, m1, m2
  <1>4. KeepsCopy(m0, Fail(m0)) /\ KeepsCopy(m1, Fail(m1))
    BY <1>3, StepKeeps
  <1> QED  BY <1>2, <1>3, <1>4, KeepsTransitive

\* saveRenderedTemplate.
LEMMA SaveKeeps ==
  ASSUME NEW x \in Worker
  PROVE  KeepsCopy(x, saveRenderedTemplate(x))
  <1> DEFINE output == SpecOf(x.def).output
             mark(r) == MarkFalse(x, "OutputResourceUpdated", r)
  <1>1. /\ "OutputResourceUpdated" \in ConditionTypes \ {"Foreign"}
        /\ {"OutputResourceUndefined", "MultipleOutputResourceDefined",
            "RemoteOutputResourceNoNamespaceDefined", "NameTemplatingFailed"} \subseteq Reasons
    BY DEF ConditionTypes, Reasons
  <1>2. output \in OutputShapes
    BY SpecOfType DEF Worker, DefinitionSpec
  <1>3. ASSUME NEW r \in Reasons
        PROVE  KeepsCopy(x, Requeue(mark(r))) /\ KeepsCopy(x, Fail(mark(r)))
    <2>1. mark(r) \in Worker /\ KeepsCopy(x, mark(r))
      BY <1>1, MarkType, MarkKeeps
    <2>2. KeepsCopy(mark(r), Requeue(mark(r))) /\ KeepsCopy(mark(r), Fail(mark(r)))
      BY <2>1, StepKeeps
    <2> QED  BY <2>1, <2>2, KeepsTransitive
  <1>4. CASE output \in Outputs
    <2> DEFINE m == MarkTrue(x, "OutputResourceUpdated")
               y == [m EXCEPT !.ac.status.outputRef = {output}]
    <2>1. saveRenderedTemplate(x) = y
      BY <1>4 DEF saveRenderedTemplate, OutputReason, Outputs
    <2>2. m \in Worker /\ KeepsCopy(x, m)
      BY <1>1, MarkType, MarkKeeps
    <2> HIDE DEF m, output
    <2>3. KeepsCopy(m, y)
      BY <1>4, <2>2, FieldKeeps
    <2> HIDE DEF y
    <2> QED  BY <2>1, <2>2, <2>3, KeepsTransitive
  <1>5. CASE output \in {"undefined", "multiple", "noNamespace"}
    <2>1. OutputReason[output] \in Reasons /\ output \in DOMAIN OutputReason
      BY <1>5, <1>1 DEF OutputReason
    <2>2. saveRenderedTemplate(x) = Requeue(mark(OutputReason[output]))
      BY <1>5 DEF saveRenderedTemplate, OutputReason, Outputs
    <2> QED  BY <2>1, <2>2, <1>3
  <1>6. CASE output = "unparsable"
    <2>1. saveRenderedTemplate(x) = Fail(mark("NameTemplatingFailed"))
      BY <1>6 DEF saveRenderedTemplate, OutputReason, Outputs
    <2> QED  BY <2>1, <1>1, <1>3
  <1> QED  BY <1>2, <1>4, <1>5, <1>6 DEF OutputShapes

\* The summary sets Ready and the generation that was read, and no more.
LEMMA SummariseKeeps ==
  ASSUME NEW x \in Worker
  PROVE  LET y == Summarise(x)
         IN  /\ KeepsCopy(x, y)
             /\ y.ac.conditions = SetSummary(x.ac.conditions, InScope, Now)
             /\ y.ac.status.observedGeneration = x.ac.generation
  <1> DEFINE conds == SetSummary(x.ac.conditions, InScope, Now)
             status == [x.ac.status EXCEPT !.observedGeneration = x.ac.generation]
             y == Summarise(x)
  <1>1. /\ x.ac \in AddonConfig /\ x.ac.conditions \in ConditionList
        /\ x.ac.status \in AddonConfigStatus
    BY DEF Worker, AddonConfig
  <1>2. "Ready" \in ConditionTypes /\ "Foreign" \in ConditionTypes \ {"Ready"}
    BY DEF ConditionTypes, OwnedTypes
  <1>3. \A t \in ConditionTypes :
          /\ t # "Ready" => conds[t] = x.ac.conditions[t]
          /\ Present(x, t) => conds[t].status # "Absent"
    <2> DEFINE ready == Summary(x.ac.conditions, InScope)
    <2>1. ready = Absent \/ ready.status # "Absent"
      BY DEF Summary, Absent, TrueCondition, FalseCondition, UnknownCondition, Cond
    <2> HIDE DEF ready
    <2>2. CASE ready = Absent
      BY <2>2 DEF SetSummary, Present, ready
    <2>3. CASE ready # Absent
      <3>1. conds = Set(x.ac.conditions, "Ready", ready, Now)
        BY <2>3 DEF SetSummary, ready
      <3>2. ready \in Condition
        BY <1>1, SummaryType DEF ready
      <3>3. conds["Ready"].status # "Absent"
        BY <1>1, <1>2, <2>1, <2>3, <3>1, <3>2
        DEF Set, SameState, ConditionList, Condition, ConditionsFor
      <3>4. \A t \in ConditionTypes \ {"Ready"} : conds[t] = x.ac.conditions[t]
        BY <1>1, <1>2, <3>1, SetKeeps
      <3> QED  BY <3>3, <3>4 DEF Present
    <2> QED  BY <2>2, <2>3
  <1>4. /\ status.observedGeneration = x.ac.generation
        /\ status.observedSchemaUID = x.ac.status.observedSchemaUID
    BY <1>1 DEF AddonConfigStatus
  <1>5. y = [x EXCEPT !.ac = [[x.ac EXCEPT !.conditions = conds] EXCEPT !.status = status]]
    BY <1>1 DEF Summarise, Observe, Worker, AddonConfig
  <1> HIDE DEF conds, status, y
  <1>6. /\ y.pc = x.pc /\ y.before = x.before /\ y.def = x.def /\ y.failed = x.failed
        /\ y.ac = [[x.ac EXCEPT !.conditions = conds] EXCEPT !.status = status]
    BY <1>5 DEF Worker
  <1>7. /\ y.ac.conditions = conds /\ y.ac.status = status /\ y.ac.spec = x.ac.spec
        /\ y.ac.uid = x.ac.uid /\ y.ac.generation = x.ac.generation
    BY <1>1, <1>6 DEF AddonConfig
  <1>8. KeepsCopy(x, y)
    BY <1>2, <1>3, <1>4, <1>6, <1>7 DEF KeepsCopy, Keeps, Present
  <1> QED  BY <1>4, <1>7, <1>8 DEF y, conds

-----------------------------------------------------------------------------
(* The summary.                                                            *)

\* The generation and the Ready condition that a patch is about to report.
Summarised(x) ==
  /\ x.ac.status.observedGeneration = x.ac.generation
  /\ x.ac.spec.ref \/ Summary(x.ac.conditions, InScope) # Absent =>
       ReadyIsSummaryOf(x.ac.conditions)

\* The summary does not tell apart conditions that differ in their times, nor
\* lists that differ in other conditions than those of InScope.
LEMMA SummaryOfStates ==
  ASSUME NEW c \in ConditionList, NEW d \in ConditionList,
         \A t \in InScopeTypes : SameState(c[t], d[t])
  PROVE  Summary(c, InScope) = Summary(d, InScope)
  <1>1. \A i \in 1..5 : InScope[i] \in InScopeTypes
    BY InScopeFacts DEF InScopeTypes
  <1>2. \A i \in 1..5 :
          /\ c[InScope[i]].status = d[InScope[i]].status
          /\ c[InScope[i]].severity = d[InScope[i]].severity
          /\ c[InScope[i]].reason = d[InScope[i]].reason
          /\ MergePriority(c[InScope[i]]) = MergePriority(d[InScope[i]])
    BY <1>1 DEF SameState, MergePriority
  <1>3. TopGroup(c, InScope) = TopGroup(d, InScope)
    BY <1>2, InScopeFacts DEF TopGroup
  <1> DEFINE top == TopGroup(c, InScope)
             i == CHOOSE k \in top : \A j \in top : k <= j
  <1>4. CASE top = {}
    BY <1>3, <1>4 DEF Summary
  <1>5. CASE top # {}
    <2>1. top \subseteq 1..5
      BY InScopeFacts DEF TopGroup
    <2>2. \E k \in top : \A j \in top : k <= j
      BY <2>1, <1>5
    <2>3. i \in 1..5
      BY <2>1, <2>2
    <2>4. /\ c[InScope[i]].status = d[InScope[i]].status
          /\ c[InScope[i]].severity = d[InScope[i]].severity
          /\ c[InScope[i]].reason = d[InScope[i]].reason
      BY <2>3, <1>2
    <2> QED  BY <1>3, <1>5, <2>4 DEF Summary
  <1> QED  BY <1>4, <1>5

\* A condition of InScope that is there makes a summary.
LEMMA SummaryExists ==
  ASSUME NEW c \in ConditionList, NEW t \in InScopeTypes, c[t].status # "Absent"
  PROVE  Summary(c, InScope) # Absent
  <1> DEFINE scope == {i \in 1..5 : c[InScope[i]].status # "Absent"}
             p(i) == MergePriority(c[InScope[i]])
  <1>1. scope # {}
    BY InScopeFacts DEF InScopeTypes
  <1>2. \A i \in scope : p(i) \in {0, 1, 2, 3, 4, 99}
    BY DEF MergePriority
  <1> HIDE DEF p, scope
  <1>3. \E i \in scope : \A j \in scope : p(i) <= p(j)
    <2>1. CASE \E i \in scope : p(i) = 0
      BY <1>2, <2>1
    <2>2. CASE (\A i \in scope : p(i) # 0) /\ \E i \in scope : p(i) = 1
      BY <1>2, <2>2
    <2>3. CASE (\A i \in scope : p(i) \notin {0, 1}) /\ \E i \in scope : p(i) = 2
      BY <1>2, <2>3
    <2>4. CASE (\A i \in scope : p(i) \notin {0, 1, 2}) /\ \E i \in scope : p(i) = 3
      BY <1>2, <2>4
    <2>5. CASE (\A i \in scope : p(i) \notin {0, 1, 2, 3}) /\ \E i \in scope : p(i) = 4
      BY <1>2, <2>5
    <2>6. CASE \A i \in scope : p(i) \notin {0, 1, 2, 3, 4}
      BY <1>1, <1>2, <2>6
    <2> QED  BY <2>1, <2>2, <2>3, <2>4, <2>5, <2>6
  <1>4. TopGroup(c, InScope) # {}
    BY <1>3, InScopeFacts DEF TopGroup, scope, p
  <1> QED
    BY <1>4 DEF Summary, Absent, TrueCondition, FalseCondition, UnknownCondition, Cond

\* What patchAddonConfig is about to patch tells of the generation that was
\* read and, if there is anything to summarise, of the conditions in scope.
LEMMA SummariseSummarises ==
  ASSUME NEW x \in Worker, x.ac.spec.ref => Present(x, "ValidSchema")
  PROVE  Summarised(Summarise(x))
  <1> DEFINE y == Summarise(x)
             c == x.ac.conditions
             d == SetSummary(c, InScope, Now)
             ready == Summary(c, InScope)
  <1>1. /\ KeepsCopy(x, y) /\ y.ac.conditions = d
        /\ y.ac.status.observedGeneration = x.ac.generation
    BY SummariseKeeps
  <1>2. c \in ConditionList /\ d \in ConditionList
    BY SetSummaryType DEF Worker, AddonConfig
  <1>3. "Ready" \in ConditionTypes \ InScopeTypes /\ "ValidSchema" \in InScopeTypes
        /\ InScopeTypes \subseteq ConditionTypes \ {"Ready"}
    BY DEF ConditionTypes, OwnedTypes, InScopeTypes, InScope
  <1>4. \A t \in InScopeTypes : d[t] = c[t]
    BY <1>2, <1>3, SetKeeps DEF SetSummary
  <1>5. Summary(d, InScope) = ready
    BY <1>2, <1>4, SummaryOfStates DEF SameState
  <1>6. ready # Absent => SameState(d["Ready"], ready)
    <2>1. ready \in Condition
      BY <1>2, SummaryType
    <2> QED  BY <1>2, <1>3, <2>1 DEF SetSummary, Set, SameState, ConditionList, Condition,
             ConditionsFor
  <1>7. x.ac.spec.ref => ready # Absent
    BY <1>2, <1>3, SummaryExists DEF Present
  <1> HIDE DEF y, c, d, ready
  <1>8. /\ y.ac.status.observedGeneration = y.ac.generation
        /\ y.ac.spec.ref \/ Summary(y.ac.conditions, InScope) # Absent =>
             ReadyIsSummaryOf(y.ac.conditions)
    BY <1>1, <1>5, <1>6, <1>7 DEF KeepsCopy, Keeps, ReadyIsSummaryOf
  <1> QED  BY <1>8 DEF Summarised, y

-----------------------------------------------------------------------------
(* What the phases report, and leave reported.                             *)

\* A phase leaves alone the definition, the spec, the field errors and the
\* conditions of the types in `kept'.
Leaves(x, y, kept) ==
  /\ y.def = x.def /\ y.ac.spec = x.ac.spec
  /\ y.ac.status.fieldErrors = x.ac.status.fieldErrors
  /\ \A t \in kept : y.ac.conditions[t] = x.ac.conditions[t]

Others(t) == ConditionTypes \ {t}

InError(conds, t) == conds[t].status = "False" /\ conds[t].severity = "Error"

\* What its phases and reconcileValidation tell of the values and of the
\* definition.
SchemaTold(x) ==
  LET c == x.ac.conditions["ValidSchema"]
  IN  /\ SpecOf(x.def).schema = "none" => c.status = "False"
      /\ SpecOf(x.def).schema = "structural" => c.status = "True"

DefaultingTold(x) ==
  LET c == x.ac.conditions["DefaultingComplete"]
      defaulted == SpecOf(x.def).schema \in {"none", "structural"}
  IN  /\ c.status = IF defaulted THEN "True" ELSE "False"
      /\ defaulted /\ x.ac.spec.values = Empty => SpecOf(x.def).default = Empty

ValidationTold(x) ==
  LET conds == x.ac.conditions  spec == SpecOf(x.def)  values == x.ac.spec.values
      valid == values \in spec.accepts
  IN  x.def.exists =>
        /\ SchemaTold(x) /\ DefaultingTold(x)
        /\ spec.schema # "malformed" =>
             x.ac.status.fieldErrors = IF valid THEN {} ELSE Faults(values)
        /\ spec.schema # "malformed" /\ ~valid => conds["ValidConfig"].status = "False"
        /\ spec.schema = "structural" /\ valid => conds["ValidConfig"].status = "True"

\* What reconcileTarget tells of a target that is not given.
TargetTold(x) == ~x.ac.spec.target => x.ac.conditions["ValidTarget"].reason = "TargetUndefined"

\* What reconcileTemplate tells of the template.
TemplateTold(x) ==
  LET template == SpecOf(x.def).template
  IN  /\ x.ac.conditions["ValidTemplate"].reason = "InvalidTemplate" <=>
           template \in {"unparsable", "nested"}
      /\ template = "nested" => InError(x.ac.conditions, "ValidTemplate")

\* Phases compose.
LEMMA LeavesTransitive ==
  ASSUME NEW x, NEW y, NEW z, NEW T, Leaves(x, y, T), Leaves(y, z, T)
  PROVE  Leaves(x, z, T)
  BY DEF Leaves

\* What is left alone keeps being told.
LEMMA LeavesTold ==
  ASSUME NEW x, NEW y
  PROVE  /\ Leaves(x, y, ValidationTypes) /\ ValidationTold(x) => ValidationTold(y)
         /\ Leaves(x, y, {"ValidTarget"}) /\ TargetTold(x) => TargetTold(y)
         /\ Leaves(x, y, {"ValidTemplate"}) /\ TemplateTold(x) => TemplateTold(y)
  BY DEF Leaves, ValidationTypes, ValidationTold, SchemaTold, DefaultingTold, TargetTold,
     TemplateTold, InError

\* Marking a condition sets its state, and leaves everything else alone.
LEMMA MarkLeaves ==
  ASSUME NEW x \in Worker, NEW t \in ConditionTypes
  PROVE  /\ Leaves(x, MarkTrue(x, t), Others(t))
         /\ SameState(MarkTrue(x, t).ac.conditions[t], TrueCondition)
         /\ MarkTrue(x, t).ac.status = x.ac.status
         /\ MarkTrue(x, t).failed = x.failed
         /\ \A r \in Reasons :
              /\ Leaves(x, MarkFalse(x, t, r), Others(t))
              /\ SameState(MarkFalse(x, t, r).ac.conditions[t], FalseCondition(r, "Error"))
              /\ MarkFalse(x, t, r).ac.status = x.ac.status
  <1> DEFINE put(c) == [x EXCEPT !.ac.conditions = Set(@, t, c, Now)]
  <1>1. ASSUME NEW c \in Condition
        PROVE  /\ Leaves(x, put(c), Others(t)) /\ SameState(put(c).ac.conditions[t], c)
               /\ put(c).ac.status = x.ac.status
    <2> DEFINE conds == Set(x.ac.conditions, t, c, Now)
    <2>1. x.ac \in AddonConfig /\ x.ac.conditions \in ConditionList
      BY DEF Worker, AddonConfig
    <2>2. \A u \in Others(t) : conds[u] = x.ac.conditions[u]
      BY <2>1, SetKeeps DEF Others
    <2>3. SameState(conds[t], c)
      BY <1>1, <2>1 DEF Set, SameState, ConditionList, Condition, ConditionsFor
    <2>4. put(c).ac = [x.ac EXCEPT !.conditions = conds] /\ put(c).def = x.def
      BY DEF Worker
    <2> HIDE DEF conds
    <2>5. /\ put(c).ac.conditions = conds
          /\ put(c).ac.spec = x.ac.spec /\ put(c).ac.status = x.ac.status
      BY <2>1, <2>4 DEF AddonConfig
    <2> QED  BY <2>2, <2>3, <2>4, <2>5 DEF Leaves
  <1>2. /\ TrueCondition \in Condition
        /\ \A r \in Reasons : FalseCondition(r, "Error") \in Condition
    BY ConditionsAreConditions DEF Severities
  <1>3. MarkTrue(x, t).failed = x.failed
    BY DEF MarkTrue, Worker
  <1> QED  BY <1>1, <1>2, <1>3 DEF MarkTrue, MarkFalse

\* Errors, requeues, the turns of the loop and template variables leave
\* every condition alone.
LEMMA StepLeaves ==
  ASSUME NEW x \in Worker
  PROVE  \A y \in {x, Fail(x), Requeue(x), Skip(x), Abort(x)}
                  \cup {Provide(x, v) : v \in Variables} :
           Leaves(x, y, ConditionTypes) /\ y.ac = x.ac
  <1>1. \A y \in {x, Fail(x), Requeue(x), Skip(x), Abort(x)}
                 \cup {Provide(x, v) : v \in Variables} : y.ac = x.ac /\ y.def = x.def
    BY DEF Fail, Requeue, Skip, Abort, Provide, Worker
  <1> QED  BY <1>1 DEF Leaves

\* The states the phases give conditions.
LEMMA States ==
  /\ TrueCondition.status = "True" /\ TrueCondition.reason = NoReason
  /\ \A r : LET c == FalseCondition(r, "Error")
            IN  c.status = "False" /\ c.severity = "Error" /\ c.reason = r
  BY DEF TrueCondition, FalseCondition, Cond

\* reconcileSchema says whether the definition has a schema, and fails if it
\* has none.
LEMMA SchemaTells ==
  ASSUME NEW x \in Worker
  PROVE  LET a == reconcileSchema(x)
         IN  /\ a.def = x.def
             /\ x.def.exists => SchemaTold(a)
             /\ x.def.exists /\ SpecOf(x.def).schema = "structural" /\ ~x.failed => ~a.failed
  <1>1. "ValidSchema" \in ConditionTypes /\ "InvalidSchema" \in Reasons
    BY DEF ConditionTypes, OwnedTypes, InScopeTypes, InScope, Reasons
  <1> DEFINE y == [x EXCEPT !.ac.status.observedSchemaUID = x.def.uid]
             m0 == MarkFalse(y, "ValidSchema", "InvalidSchema")
             m1 == MarkTrue(y, "ValidSchema")
  <1>2. x.def.uid \in Nat
    BY DEF Worker, Definition
  <1>3. y \in Worker /\ y.failed = x.failed
    BY <1>2, FieldTypes DEF Worker
  <1> HIDE DEF y
  <1>4. /\ m0 \in Worker /\ m0.ac.conditions["ValidSchema"].status = "False"
        /\ m1.ac.conditions["ValidSchema"].status = "True" /\ m1.failed = x.failed
    BY <1>1, <1>3, MarkType, MarkLeaves, States DEF SameState
  <1>5. Fail(m0).ac = m0.ac
    BY <1>4, StepLeaves
  <1>6. x.def.exists =>
          reconcileSchema(x) = IF SpecOf(x.def).schema = "none" THEN Fail(m0) ELSE m1
    BY DEF reconcileSchema, y, m0, m1
  <1> HIDE DEF m0, m1
  <1>7. reconcileSchema(x).def = x.def
    BY SchemaKeeps DEF Keeps
  <1> QED  BY <1>4, <1>5, <1>6, <1>7 DEF SchemaTold

\* reconcileSchemaDefaulting says whether there are defaults to put in, and
\* puts them in; it fails if it cannot tell.
LEMMA DefaultingTells ==
  ASSUME NEW x \in Worker
  PROVE  LET b == reconcileSchemaDefaulting(x)
         IN  /\ b.def = x.def
             /\ b.ac.conditions["ValidSchema"] = x.ac.conditions["ValidSchema"]
             /\ DefaultingTold(b)
             /\ SpecOf(x.def).schema = "structural" /\ ~x.failed => ~b.failed
  <1>1. /\ "DefaultingComplete" \in ConditionTypes /\ "DefaultingInternalError" \in Reasons
        /\ "ValidSchema" \in Others("DefaultingComplete")
    BY DEF ConditionTypes, OwnedTypes, InScopeTypes, InScope, Reasons, Others
  <1> DEFINE value == IF x.ac.spec.values = Empty THEN SpecOf(x.def).default
                                                  ELSE x.ac.spec.values
             y == [x EXCEPT !.ac.spec.values = value]
             m0 == MarkFalse(x, "DefaultingComplete", "DefaultingInternalError")
             m1 == MarkTrue(y, "DefaultingComplete")
  <1>2. value \in Values
    <2>1. SpecOf(x.def).default \in Explicit \cup {Empty}
      BY SpecOfType DEF DefinitionSpec, Worker
    <2> QED  BY <2>1 DEF Worker, AddonConfig, AddonConfigSpec, Values
  <1>3. value = Empty => SpecOf(x.def).default = Empty
    OBVIOUS
  <1> HIDE DEF value
  <1>4. /\ y \in Worker /\ y.ac.conditions = x.ac.conditions /\ y.failed = x.failed
        /\ y.ac.spec.values = value
    <2>1. y.ac = [x.ac EXCEPT !.spec = [x.ac.spec EXCEPT !.values = value]] /\ y.failed = x.failed
      BY DEF Worker
    <2> QED  BY <1>2, <2>1, FieldTypes DEF Worker, AddonConfig, AddonConfigSpec
  <1> HIDE DEF y
  <1>5. /\ m0 \in Worker
        /\ m0.ac.conditions["ValidSchema"] = x.ac.conditions["ValidSchema"]
        /\ m1.ac.conditions["ValidSchema"] = x.ac.conditions["ValidSchema"]
        /\ m0.ac.conditions["DefaultingComplete"].status = "False"
        /\ m1.ac.conditions["DefaultingComplete"].status = "True"
        /\ m1.ac.spec.values = value /\ m1.failed = x.failed
    BY <1>1, <1>4, MarkType, MarkLeaves, States DEF Leaves, SameState
  <1>6. Fail(m0).ac = m0.ac
    BY <1>5, StepLeaves
  <1>7. reconcileSchemaDefaulting(x) =
          IF SpecOf(x.def).schema \in {"nonstructural", "malformed"} THEN Fail(m0) ELSE m1
    BY DEF reconcileSchemaDefaulting, y, value, m0, m1
  <1>8. reconcileSchemaDefaulting(x).def = x.def
    BY DefaultingKeeps DEF Keeps
  <1>9. SpecOf(x.def).schema \in {"none", "structural", "nonstructural", "malformed"}
    BY SpecOfType DEF DefinitionSpec, Worker
  <1> HIDE DEF m0, m1
  <1> QED  BY <1>3, <1>5, <1>6, <1>7, <1>8, <1>9 DEF DefaultingTold

\* With a validator, reconcileSchemaValidation sets the field errors, and
\* ValidConfig when the values are not admitted.
LEMMA SchemaValidationTells ==
  ASSUME NEW x \in Worker
  PROVE  LET c == reconcileSchemaValidation(x)
             valid == x.ac.spec.values \in SpecOf(x.def).accepts
         IN  /\ c.def = x.def /\ c.ac.spec = x.ac.spec
             /\ \A t \in Others("ValidConfig") : c.ac.conditions[t] = x.ac.conditions[t]
             /\ SpecOf(x.def).schema # "malformed" =>
                  /\ c.ac.status.fieldErrors = IF valid THEN {} ELSE Faults(x.ac.spec.values)
                  /\ ~valid => c.ac.conditions["ValidConfig"].status = "False"
                  /\ valid /\ ~x.failed => ~c.failed
  <1>1. "ValidConfig" \in ConditionTypes /\ "InvalidConfiguration" \in Reasons
    BY DEF ConditionTypes, OwnedTypes, InScopeTypes, InScope, Reasons, Others
  <1> DEFINE faults == Faults(x.ac.spec.values)
             y(f) == [x EXCEPT !.ac.status.fieldErrors = f]
             m == MarkFalse(y(faults), "ValidConfig", "InvalidConfiguration")
  <1>2. \A f \in {{}, faults} :
          /\ y(f) \in Worker /\ y(f).def = x.def /\ y(f).ac.spec = x.ac.spec
          /\ y(f).ac.conditions = x.ac.conditions /\ y(f).ac.status.fieldErrors = f
          /\ y(f).failed = x.failed
    <2> TAKE f \in {{}, faults}
    <2>1. f \in SUBSET FieldPaths
      BY DEF Faults, FieldPaths
    <2>2. y(f) \in Worker
      BY <2>1, FieldTypes
    <2>3. /\ y(f).def = x.def /\ y(f).failed = x.failed
          /\ y(f).ac = [x.ac EXCEPT !.status = [x.ac.status EXCEPT !.fieldErrors = f]]
      BY DEF Worker
    <2> QED  BY <2>2, <2>3 DEF Worker, AddonConfig, AddonConfigStatus
  <1> HIDE DEF y, faults
  <1>3. /\ m \in Worker /\ Leaves(y(faults), m, Others("ValidConfig"))
        /\ m.ac.conditions["ValidConfig"].status = "False"
    BY <1>1, <1>2, MarkType, MarkLeaves, States DEF SameState
  <1>4. \A z \in {x, m} : Fail(z).ac = z.ac /\ Fail(z).def = z.def
    BY <1>3, StepLeaves DEF Leaves
  <1>5. reconcileSchemaValidation(x) =
          IF SpecOf(x.def).schema = "malformed" THEN Fail(x)
          ELSE IF x.ac.spec.values \in SpecOf(x.def).accepts THEN y({}) ELSE Fail(m)
    BY DEF reconcileSchemaValidation, Admits, Accept, Reject, y, m, faults
  <1> HIDE DEF m
  <1>6. CASE SpecOf(x.def).schema = "malformed"
    BY <1>4, <1>5, <1>6
  <1>7. CASE SpecOf(x.def).schema # "malformed" /\ x.ac.spec.values \in SpecOf(x.def).accepts
    BY <1>2, <1>5, <1>7
  <1>8. CASE SpecOf(x.def).schema # "malformed" /\ x.ac.spec.values \notin SpecOf(x.def).accepts
    BY <1>2, <1>3, <1>4, <1>5, <1>8 DEF Leaves, faults
  <1> QED  BY <1>6, <1>7, <1>8

\* So reconcileValidation tells of the values and of the definition.
LEMMA ValidationTells ==
  ASSUME NEW x \in Worker, ~x.failed
  PROVE  ValidationTold(reconcileValidation(x))
  <1> DEFINE a == reconcileSchema(x)
             b == reconcileSchemaDefaulting(a)
             c == reconcileSchemaValidation(b)
             m == MarkTrue(c, "ValidConfig")
             y == reconcileValidation(x)
  <1>1. a \in Worker /\ a.def = x.def
    BY SchemaType, SchemaTells
  <1>2. x.def.exists => /\ SchemaTold(a)
                        /\ SpecOf(x.def).schema = "structural" => ~a.failed
    BY SchemaTells
  <1> HIDE DEF a
  <1>3. /\ b \in Worker /\ b.def = a.def /\ DefaultingTold(b)
        /\ b.ac.conditions["ValidSchema"] = a.ac.conditions["ValidSchema"]
        /\ SpecOf(a.def).schema = "structural" /\ ~a.failed => ~b.failed
    BY <1>1, DefaultingType, DefaultingTells
  <1> HIDE DEF b
  <1> DEFINE valid == b.ac.spec.values \in SpecOf(b.def).accepts
  <1>4. c \in Worker /\ (~c.failed => valid)
    BY <1>3, SchemaValidationKeeps
  <1>5. /\ c.def = b.def /\ c.ac.spec = b.ac.spec
        /\ \A t \in Others("ValidConfig") : c.ac.conditions[t] = b.ac.conditions[t]
        /\ SpecOf(b.def).schema # "malformed" =>
             /\ c.ac.status.fieldErrors = IF valid THEN {} ELSE Faults(b.ac.spec.values)
             /\ ~valid => c.ac.conditions["ValidConfig"].status = "False"
             /\ valid /\ ~b.failed => ~c.failed
    BY <1>3, SchemaValidationTells
  <1> HIDE DEF c
  <1>6. /\ "ValidConfig" \in ConditionTypes
        /\ {"ValidSchema", "DefaultingComplete"} \subseteq Others("ValidConfig")
    BY DEF ConditionTypes, OwnedTypes, InScopeTypes, InScope, Others
  <1>7. /\ Leaves(c, m, Others("ValidConfig"))
        /\ m.ac.conditions["ValidConfig"].status = "True"
    BY <1>4, <1>6, MarkLeaves, States DEF SameState
  <1> HIDE DEF m
  <1>8. y = IF c.failed THEN c ELSE m
    BY DEF reconcileValidation, a, b, c, m
  <1>9. /\ y.def = b.def /\ y.ac.spec = b.ac.spec
        /\ \A t \in Others("ValidConfig") : y.ac.conditions[t] = b.ac.conditions[t]
        /\ y.ac.status.fieldErrors = c.ac.status.fieldErrors
    BY <1>5, <1>7, <1>8 DEF Leaves
  <1>10. DefaultingTold(y) /\ (x.def.exists => SchemaTold(y))
    BY <1>1, <1>2, <1>3, <1>6, <1>9 DEF SchemaTold, DefaultingTold
  <1> HIDE DEF y, valid
  <1>11. x.def.exists /\ SpecOf(x.def).schema = "structural" /\ valid =>
           y.ac.conditions["ValidConfig"].status = "True"
    BY <1>1, <1>2, <1>3, <1>5, <1>7, <1>8
  <1>12. SpecOf(x.def).schema # "malformed" =>
           /\ y.ac.status.fieldErrors = IF valid THEN {} ELSE Faults(b.ac.spec.values)
           /\ ~valid => y.ac.conditions["ValidConfig"].status = "False"
    BY <1>1, <1>3, <1>4, <1>5, <1>8, <1>9
  <1>13. y.def = x.def /\ valid <=> y.ac.spec.values \in SpecOf(y.def).accepts
    BY <1>1, <1>3, <1>9 DEF valid
  <1>14. ValidationTold(y)
    BY <1>1, <1>3, <1>9, <1>10, <1>11, <1>12, <1>13 DEF ValidationTold
  <1> QED  BY <1>14 DEF y

\* Unless it failed, it says so, and no field error is left.
LEMMA ValidationPasses ==
  ASSUME NEW x \in Worker, ~reconcileValidation(x).failed
  PROVE  /\ reconcileValidation(x).ac.conditions["ValidConfig"].status = "True"
         /\ reconcileValidation(x).ac.status.fieldErrors = {}
  <1> DEFINE c == reconcileSchemaValidation(reconcileSchemaDefaulting(reconcileSchema(x)))
  <1>1. c \in Worker
    BY SchemaType, DefaultingType, SchemaValidationKeeps
  <1>2. ~c.failed /\ reconcileValidation(x) = MarkTrue(c, "ValidConfig")
    BY DEF reconcileValidation
  <1>3. c.ac.status.fieldErrors = {}
    BY <1>2, SchemaType, DefaultingType, SchemaValidationKeeps
  <1> HIDE DEF c
  <1>4. "ValidConfig" \in ConditionTypes
    BY DEF ConditionTypes, OwnedTypes, InScopeTypes, InScope
  <1> QED  BY <1>1, <1>2, <1>3, <1>4, MarkLeaves, States DEF SameState

\* The conditions of the later phases are others than those of
\* reconcileValidation.  reconcileTarget says so when there is no target.
LEMMA TargetLeaves ==
  ASSUME NEW x \in Worker, NEW c \in Clusters
  PROVE  LET y == reconcileTemplateValues(reconcileTarget(x, c))
         IN  Leaves(x, y, Others("ValidTarget")) /\ TargetTold(y)
  <1>1. /\ "ValidTarget" \in ConditionTypes
        /\ "TargetUndefined" \in Reasons /\ "TargetNotFound" \in Reasons
        /\ TargetVariable \in Variables /\ ValuesVariable \in Variables
    BY DEF ConditionTypes, OwnedTypes, InScopeTypes, InScope, Reasons, Variables
  <1> DEFINE T == Others("ValidTarget")
             m0 == MarkFalse(x, "ValidTarget", "TargetUndefined")
             m1 == MarkFalse(x, "ValidTarget", "TargetNotFound")
             p  == Provide(x, TargetVariable)
             m2 == MarkTrue(p, "ValidTarget")
  <1>2. \A y, z : Leaves(y, z, ConditionTypes) => Leaves(y, z, T)
    BY DEF Leaves, Others
  <1>3. p \in Worker /\ Leaves(x, p, T)
    BY <1>1, <1>2, StepType, StepLeaves
  <1> HIDE DEF p
  <1>4. /\ m0 \in Worker /\ m1 \in Worker /\ m2 \in Worker
        /\ Leaves(x, m0, T) /\ Leaves(x, m1, T) /\ Leaves(p, m2, T)
    BY <1>1, <1>3, MarkType, MarkLeaves
  <1>5. m0.ac.conditions["ValidTarget"].reason = "TargetUndefined"
    BY <1>1, MarkLeaves, States DEF SameState
  <1> HIDE DEF m0, m1, m2
  <1>6. \A y \in {Requeue(m0), Requeue(m1), Fail(x), m2} : y \in Worker /\ Leaves(x, y, T)
    BY <1>2, <1>3, <1>4, StepType, StepLeaves, LeavesTransitive
  <1>7. reconcileTarget(x, c) \in {Requeue(m0), Requeue(m1), Fail(x), m2}
    <2>1. x.ac.spec.target \in BOOLEAN
      BY DEF Worker, AddonConfig, AddonConfigSpec
    <2> QED  BY <2>1 DEF reconcileTarget, Clusters, m0, m1, m2, p
  <1> DEFINE u == reconcileTarget(x, c)
             v == reconcileTemplateValues(u)
  <1>8. u \in Worker /\ Leaves(x, u, T)
    BY <1>6, <1>7
  <1> HIDE DEF u
  <1>9. v \in {Fail(u), Provide(u, ValuesVariable), u}
    <2>1. u.ac.spec.values \in Values
      BY <1>8 DEF Worker, AddonConfig, AddonConfigSpec
    <2> QED  BY <2>1 DEF reconcileTemplateValues, Values
  <1>10. Leaves(u, v, T) /\ v.ac = u.ac
    BY <1>1, <1>2, <1>8, <1>9, StepLeaves
  <1>11. ~x.ac.spec.target => u.ac.conditions["ValidTarget"].reason = "TargetUndefined"
    <2> SUFFICES ASSUME ~x.ac.spec.target
                 PROVE  u.ac.conditions["ValidTarget"].reason = "TargetUndefined"
      OBVIOUS
    <2>1. u = Requeue(m0)
      BY DEF reconcileTarget, m0, u
    <2> QED  BY <1>1, <1>4, <1>5, <2>1, StepLeaves
  <1>12. TargetTold(v)
    BY <1>8, <1>10, <1>11 DEF TargetTold, Leaves
  <1> QED  BY <1>8, <1>10, <1>12, LeavesTransitive DEF u

\* A turn of reconcileDependencies.
LEMMA DependencyLeaves ==
  ASSUME NEW x \in Worker, NEW n \in Int, ~Resolved(x)
  PROVE  Leaves(x, resolveDependency(x, n), Others("ValidDependency"))
  <1> DEFINE T == Others("ValidDependency")
             d == Dependencies(x)[x.dep]
             reasons == {"DependencyNotFound", "DependencyUniquenessNotSatisfied",
                         "DependencyTemplatingFailed", "DependencyConstraintFailed"}
             m(r) == MarkFalse(x, "ValidDependency", r)
  <1>1. d \in Dependency
    <2>1. Dependencies(x) \in Seq(Dependency)
      BY SpecOfType DEF Dependencies, DefinitionSpec, Worker
    <2>2. x.dep \in 1..Len(Dependencies(x))
      BY <2>1 DEF Worker, Resolved
    <2> QED  BY <2>1, <2>2
  <1>2. /\ d.name \in Variables
        /\ d.by \in {"name", "selector", "both"}
        /\ d.known \in BOOLEAN /\ d.parsable \in BOOLEAN
    BY <1>1 DEF Dependency, Variables
  <1>3. "ValidDependency" \in ConditionTypes /\ reasons \subseteq Reasons
    BY DEF ConditionTypes, Reasons
  <1>4. \A y, z : Leaves(y, z, ConditionTypes) => Leaves(y, z, T)
    BY DEF Leaves, Others
  <1>5. ASSUME NEW r \in reasons
        PROVE  Leaves(x, Skip(m(r)), T) /\ Leaves(x, Abort(m(r)), T)
    <2>1. m(r) \in Worker /\ Leaves(x, m(r), T)
      BY <1>3, MarkType, MarkLeaves
    <2>2. Leaves(m(r), Skip(m(r)), T) /\ Leaves(m(r), Abort(m(r)), T)
      BY <1>4, <2>1, StepLeaves
    <2> QED  BY <2>1, <2>2, LeavesTransitive
  <1>6. /\ Leaves(x, Skip(x), T) /\ Leaves(x, Abort(x), T)
        /\ Leaves(x, Skip(Provide(x, d.name)), T)
    <2>1. Provide(x, d.name) \in Worker /\ Leaves(x, Provide(x, d.name), T)
      BY <1>2, <1>4, StepType, StepLeaves
    <2>2. Leaves(Provide(x, d.name), Skip(Provide(x, d.name)), T)
      BY <1>4, <2>1, StepLeaves
    <2> QED  BY <1>4, <2>1, <2>2, LeavesTransitive, StepLeaves
  <1> HIDE DEF d, T
  <1>7. Leaves(x, fetchLabeledDependency(x, d, n), T)
    BY <1>5, <1>6 DEF fetchLabeledDependency
  <1>8. Leaves(x, fetchNamedDependency(x, d, n), T)
    BY <1>5, <1>6 DEF fetchNamedDependency
  <1>9. CASE d.by = "both" \/ ~d.known
    <2>1. resolveDependency(x, n) = Abort(x)
      BY <1>2, <1>9 DEF resolveDependency, d
    <2> QED  BY <2>1, <1>6 DEF T
  <1>10. CASE d.by # "both" /\ d.known
    <2>1. \/ resolveDependency(x, n) =
               Abort(MarkFalse(x, "ValidDependency", "DependencyTemplatingFailed"))
          \/ resolveDependency(x, n) = fetchLabeledDependency(x, d, n)
          \/ resolveDependency(x, n) = fetchNamedDependency(x, d, n)
      BY <1>2, <1>10 DEF resolveDependency, d
    <2> QED  BY <2>1, <1>5, <1>7, <1>8 DEF T
  <1> QED  BY <1>2, <1>9, <1>10

\* reconcileTemplate tells of the template, and fails if it cannot be
\* rendered.
LEMMA TemplateTells ==
  ASSUME NEW x \in Worker
  PROVE  LET y == reconcileTemplate(x)
             spec == SpecOf(x.def)
         IN  /\ Leaves(x, y, Others("ValidTemplate")) /\ TemplateTold(y)
             /\ ~y.failed => spec.template \in {"empty", "nested", "good"}
             /\ ~y.failed /\ spec.template = "good" => Resolvable(y, spec.needs)
  <1>1. /\ "ValidTemplate" \in ConditionTypes
        /\ "InvalidTemplate" \in Reasons /\ "FailedRendering" \in Reasons
    BY DEF ConditionTypes, OwnedTypes, InScopeTypes, InScope, Reasons
  <1>2. SpecOf(x.def).template \in {"empty", "unparsable", "nested", "good"}
    BY SpecOfType DEF Worker, DefinitionSpec
  <1> DEFINE T == Others("ValidTemplate")
             m0 == MarkFalse(x, "ValidTemplate", "InvalidTemplate")
             m1 == MarkFalse(x, "ValidTemplate", "FailedRendering")
             m2 == MarkTrue(x, "ValidTemplate")
             c(y) == y.ac.conditions["ValidTemplate"]
  <1>3. /\ m0 \in Worker /\ m1 \in Worker
        /\ Leaves(x, m0, T) /\ Leaves(x, m1, T) /\ Leaves(x, m2, T)
        /\ SameState(c(m0), FalseCondition("InvalidTemplate", "Error"))
        /\ SameState(c(m1), FalseCondition("FailedRendering", "Error"))
        /\ SameState(c(m2), TrueCondition)
    BY <1>1, MarkType, MarkLeaves
  <1>4. m2.vars = x.vars
    BY DEF MarkTrue, Worker
  <1>5. reconcileTemplate(x) =
          CASE SpecOf(x.def).template = "unparsable" -> Fail(m0)
            [] SpecOf(x.def).template = "nested" -> m0
            [] SpecOf(x.def).template = "good" /\ ~Resolvable(x, SpecOf(x.def).needs) -> Fail(m1)
            [] OTHER -> m2
    BY DEF reconcileTemplate
  <1> HIDE DEF m0, m1, m2
  <1>6. /\ Leaves(m0, Fail(m0), ConditionTypes) /\ Fail(m0).ac = m0.ac /\ Fail(m0).failed
        /\ Leaves(m1, Fail(m1), ConditionTypes) /\ Fail(m1).ac = m1.ac /\ Fail(m1).failed
    <2>1. Fail(m0).failed /\ Fail(m1).failed
      BY <1>3 DEF Fail, Worker
    <2> QED  BY <1>3, <2>1, StepLeaves
  <1>7. Leaves(x, Fail(m0), T) /\ Leaves(x, Fail(m1), T)
    BY <1>3, <1>6 DEF Leaves, Others
  <1>8. /\ c(m0).reason = "InvalidTemplate" /\ InError(m0.ac.conditions, "ValidTemplate")
        /\ c(m1).reason # "InvalidTemplate" /\ c(m2).reason # "InvalidTemplate"
    BY <1>3, States DEF SameState, InError, NoReason
  <1>9. CASE SpecOf(x.def).template = "unparsable"
    BY <1>5, <1>6, <1>7, <1>8, <1>9 DEF TemplateTold, Leaves
  <1>10. CASE SpecOf(x.def).template = "nested"
    BY <1>3, <1>5, <1>8, <1>10 DEF TemplateTold, Leaves
  <1>11. CASE SpecOf(x.def).template = "good" /\ ~Resolvable(x, SpecOf(x.def).needs)
    BY <1>5, <1>6, <1>7, <1>8, <1>11 DEF TemplateTold, Leaves
  <1>12. CASE \/ SpecOf(x.def).template = "empty"
              \/ SpecOf(x.def).template = "good" /\ Resolvable(x, SpecOf(x.def).needs)
    BY <1>3, <1>4, <1>5, <1>8, <1>12 DEF TemplateTold, Leaves, Resolvable
  <1> QED  BY <1>2, <1>9, <1>10, <1>11, <1>12

\* saveRenderedTemplate sets OutputResourceUpdated to True, and outputRef to
\* that one resource, only for an output that can be saved.
LEMMA SaveTells ==
  ASSUME NEW x \in Worker
  PROVE  LET y == saveRenderedTemplate(x)
             output == SpecOf(x.def).output
         IN  /\ Leaves(x, y, Others("OutputResourceUpdated"))
             /\ ~y.failed /\ y.ac.conditions["OutputResourceUpdated"].status = "True" =>
                  output \in Outputs /\ y.ac.status.outputRef = {output}
  <1> DEFINE T == Others("OutputResourceUpdated")
             output == SpecOf(x.def).output
             mark(r) == MarkFalse(x, "OutputResourceUpdated", r)
             c(y) == y.ac.conditions["OutputResourceUpdated"]
  <1>1. /\ "OutputResourceUpdated" \in ConditionTypes
        /\ {"OutputResourceUndefined", "MultipleOutputResourceDefined",
            "RemoteOutputResourceNoNamespaceDefined", "NameTemplatingFailed"} \subseteq Reasons
    BY DEF ConditionTypes, Reasons
  <1>2. output \in OutputShapes
    BY SpecOfType DEF Worker, DefinitionSpec
  <1>3. \A y, z : Leaves(y, z, ConditionTypes) => Leaves(y, z, T)
    BY DEF Leaves, Others
  <1>4. ASSUME NEW r \in Reasons, NEW y \in {Requeue(mark(r)), Fail(mark(r))}
        PROVE  Leaves(x, y, T) /\ c(y).status # "True"
    <2>1. /\ mark(r) \in Worker /\ Leaves(x, mark(r), T)
          /\ SameState(c(mark(r)), FalseCondition(r, "Error"))
      BY <1>1, MarkType, MarkLeaves
    <2>2. Leaves(mark(r), y, T) /\ y.ac = mark(r).ac
      BY <1>3, <1>4, <2>1, StepLeaves
    <2>3. c(mark(r)).status = "False"
      BY <2>1, States DEF SameState
    <2> QED  BY <2>1, <2>2, <2>3, LeavesTransitive
  <1>5. CASE output \in Outputs
    <2> DEFINE m == MarkTrue(x, "OutputResourceUpdated")
               y == [m EXCEPT !.ac.status.outputRef = {output}]
    <2>1. saveRenderedTemplate(x) = y
      BY <1>5 DEF saveRenderedTemplate, OutputReason, Outputs
    <2>2. m \in Worker /\ Leaves(x, m, T)
      BY <1>1, MarkType, MarkLeaves
    <2> HIDE DEF m, output
    <2>3. /\ y.def = m.def
          /\ y.ac = [m.ac EXCEPT !.status = [m.ac.status EXCEPT !.outputRef = {output}]]
      BY <2>2 DEF Worker
    <2>4. Leaves(m, y, T) /\ y.ac.status.outputRef = {output}
      BY <2>2, <2>3 DEF Leaves, Worker, AddonConfig, AddonConfigStatus
    <2> HIDE DEF y
    <2>5. Leaves(x, y, T)
      BY <2>2, <2>4, LeavesTransitive
    <2> QED  BY <1>5, <2>1, <2>4, <2>5 DEF output
  <1>6. CASE output \in {"undefined", "multiple", "noNamespace"}
    <2>1. OutputReason[output] \in Reasons /\ output \in DOMAIN OutputReason
      BY <1>6, <1>1 DEF OutputReason
    <2>2. saveRenderedTemplate(x) = Requeue(mark(OutputReason[output]))
      BY <1>6 DEF saveRenderedTemplate, OutputReason, Outputs
    <2> QED  BY <2>1, <2>2, <1>4
  <1>7. CASE output = "unparsable"
    <2>1. saveRenderedTemplate(x) = Fail(mark("NameTemplatingFailed"))
      BY <1>7 DEF saveRenderedTemplate, OutputReason, Outputs
    <2> QED  BY <2>1, <1>1, <1>4
  <1> QED  BY <1>2, <1>5, <1>6, <1>7 DEF OutputShapes

\* The summary is about the Ready condition only.
LEMMA SummariseLeaves ==
  ASSUME NEW x \in Worker
  PROVE  LET y == Summarise(x)
         IN  /\ Leaves(x, y, Others("Ready"))
             /\ y.ac.status.outputRef = x.ac.status.outputRef /\ y.failed = x.failed
  <1> DEFINE conds == SetSummary(x.ac.conditions, InScope, Now)
             status == [x.ac.status EXCEPT !.observedGeneration = x.ac.generation]
             y == Summarise(x)
  <1>1. /\ x.ac \in AddonConfig /\ x.ac.conditions \in ConditionList
        /\ x.ac.status \in AddonConfigStatus
    BY DEF Worker, AddonConfig
  <1>2. "Ready" \in ConditionTypes
    BY DEF ConditionTypes, OwnedTypes
  <1>3. \A t \in Others("Ready") : conds[t] = x.ac.conditions[t]
    BY <1>1, <1>2, SetKeeps DEF SetSummary, Others
  <1>4. status.fieldErrors = x.ac.status.fieldErrors /\ status.outputRef = x.ac.status.outputRef
    BY <1>1 DEF AddonConfigStatus
  <1>5. /\ y.ac = [x.ac EXCEPT !.conditions = conds, !.status = status]
        /\ y.def = x.def /\ y.failed = x.failed
    BY DEF Summarise, Observe, Worker, AddonConfig
  <1> HIDE DEF conds, status
  <1>6. y.ac.conditions = conds /\ y.ac.status = status /\ y.ac.spec = x.ac.spec
    BY <1>1, <1>5 DEF AddonConfig
  <1> HIDE DEF y
  <1>7. Leaves(x, y, Others("Ready"))
    BY <1>3, <1>4, <1>5, <1>6 DEF Leaves
  <1> QED  BY <1>4, <1>5, <1>6, <1>7 DEF y

\* A condition in scope that is False with severity Error makes the summary
\* False.
LEMMA SummaryOfError ==
  ASSUME NEW c \in ConditionList, NEW t \in InScopeTypes, InError(c, t)
  PROVE  Summary(c, InScope).status = "False"
  <1> DEFINE top == TopGroup(c, InScope)
             k == CHOOSE i \in top : \A j \in top : i <= j
  <1>1. PICK e \in 1..5 : t = InScope[e]
    BY InScopeFacts DEF InScopeTypes
  <1>2. MergePriority(c[InScope[e]]) = 0 /\ c[InScope[e]].status # "Absent"
    BY <1>1 DEF MergePriority, InError
  <1>3. \A i \in 1..5 : MergePriority(c[InScope[i]]) \in {0, 1, 2, 3, 4, 99}
    BY DEF MergePriority
  <1>4. e \in top
    BY <1>2, <1>3, InScopeFacts DEF TopGroup
  <1>5. \A i \in top : i \in 1..5 /\ MergePriority(c[InScope[i]]) = 0
    <2> TAKE i \in top
    <2>1. i \in 1..5 /\ MergePriority(c[InScope[i]]) <= MergePriority(c[InScope[e]])
      BY <1>2, InScopeFacts DEF TopGroup
    <2> QED  BY <1>2, <1>3, <2>1
  <1> HIDE DEF top
  <1>6. \E i \in top : \A j \in top : i <= j
    <2> DEFINE P(i) == i \in top
    <2>1. CASE P(1)
      BY <1>5, <2>1
    <2>2. CASE ~P(1) /\ P(2)
      BY <1>5, <2>2
    <2>3. CASE ~P(1) /\ ~P(2) /\ P(3)
      BY <1>5, <2>3
    <2>4. CASE ~P(1) /\ ~P(2) /\ ~P(3) /\ P(4)
      BY <1>5, <2>4
    <2>5. CASE ~P(1) /\ ~P(2) /\ ~P(3) /\ ~P(4)
      BY <1>4, <1>5, <2>5
    <2> QED  BY <2>1, <2>2, <2>3, <2>4, <2>5
  <1>7. k \in top
    BY <1>6
  <1>8. c[InScope[k]].status = "False"
    BY <1>5, <1>7 DEF MergePriority
  <1>9. Summary(c, InScope) = FalseCondition(c[InScope[k]].reason, c[InScope[k]].severity)
    BY <1>4, <1>8 DEF Summary, top
  <1> QED  BY <1>9 DEF FalseCondition, Cond

-----------------------------------------------------------------------------
(* The patches.                                                            *)

\* A copy of the AddonConfig that was read, changed in what phases change.
CopyOf(x, o) ==
  /\ x.before = o
  /\ x.ac.uid = o.uid /\ x.ac.generation = o.generation /\ x.ac.spec.ref = o.spec.ref
  /\ x.ac.conditions["Foreign"] = o.conditions["Foreign"]

\* A write stores the spec, the status and the conditions that it carries.
LEMMA WrittenFields ==
  ASSUME NEW o \in AddonConfig, NEW n \in AddonConfig
  PROVE  LET s == Written(o, n)
         IN  s.spec = n.spec /\ s.status = n.status /\ s.conditions = n.conditions
  BY DEF Written, AddonConfig

\* If the conditions were read from the stored version, and their patch
\* changes nothing, they are those of the copy.
LEMMA ConditionsPatched ==
  ASSUME NEW o \in AddonConfig, NEW a \in AddonConfig,
         PatchedConditions(o, a, o, o, Now).conditions = o.conditions,
         NEW t \in ConditionTypes
  PROVE  SameState(o.conditions[t], a.conditions[t])
  <1> DEFINE c == o.conditions  d == a.conditions
             merged == Apply(c, d, c, Now)
             n == [o EXCEPT !.conditions = merged]
  <1>1. c \in ConditionList /\ d \in ConditionList /\ merged \in ConditionList
    BY ApplyType DEF AddonConfig
  <1> HIDE DEF merged
  <1>2. n \in AddonConfig /\ n.conditions = merged
    BY <1>1 DEF AddonConfig
  <1>3. Written(o, n).conditions = c
    BY DEF PatchedConditions, merged
  <1>4. merged = c
    BY <1>2, <1>3, WrittenFields
  <1>5. t \in DOMAIN c /\ t \in DOMAIN d
    BY <1>1 DEF ConditionList
  <1>6. CASE t \notin NewPatch(c, d)
    BY <1>5, <1>6 DEF NewPatch, SameState
  <1>7. CASE t \in NewPatch(c, d) /\ d[t] = Absent
    BY <1>4, <1>5, <1>7 DEF Apply, merged, SameState
  <1>8. CASE t \in NewPatch(c, d) /\ d[t] # Absent
    <2>1. Set(c, t, d[t], Now)[t] = c[t]
      BY <1>4, <1>5, <1>8 DEF Apply, merged
    <2>2. d[t] \in Condition
      BY <1>1 DEF ConditionList
    <2>3. \/ SameState(c[t], d[t])
          \/ Set(c, t, d[t], Now)[t] \in {d[t], [d[t] EXCEPT !.time = Now]}
      BY <1>1 DEF Set, ConditionList
    <2>4. \A e \in {d[t], [d[t] EXCEPT !.time = Now]} : SameState(e, d[t])
      BY <2>2 DEF SameState, Condition, ConditionsFor
    <2> QED  BY <2>1, <2>3, <2>4
  <1> QED  BY <1>6, <1>7, <1>8

\* If the spec was read from the stored version, and its patch changes
\* nothing, it is the one of the copy.
LEMMA SpecPatched ==
  ASSUME NEW o \in AddonConfig, NEW a \in AddonConfig,
         PatchedSpec(o, a, o).spec = o.spec
  PROVE  o.spec = a.spec
  <1> DEFINE s == o.spec  t == a.spec
             spec == [ref    |-> Merge(s.ref, t.ref, s.ref),
                      target |-> Merge(s.target, t.target, s.target),
                      values |-> Merge(s.values, t.values, s.values)]
             n == [o EXCEPT !.spec = spec]
  <1>1. s \in AddonConfigSpec /\ t \in AddonConfigSpec
    BY DEF AddonConfig
  <1>2. spec = t
    BY <1>1 DEF AddonConfigSpec, Merge
  <1>3. Written(o, n).spec = s
    BY DEF PatchedSpec
  <1> HIDE DEF spec
  <1>4. n \in AddonConfig /\ n.spec = spec
    BY <1>1, <1>2 DEF AddonConfig
  <1> QED  BY <1>2, <1>3, <1>4, WrittenFields

\* If the status was read from the stored version, and its patch changes
\* nothing, it is the one of the copy.
LEMMA StatusPatched ==
  ASSUME NEW o \in AddonConfig, NEW a \in AddonConfig,
         PatchedStatus(o, a, o).status = o.status
  PROVE  o.status = a.status
  <1> DEFINE s == o.status  t == a.status
             status == [observedGeneration |->
                          Merge(s.observedGeneration, t.observedGeneration, s.observedGeneration),
                        observedSchemaUID |->
                          Merge(s.observedSchemaUID, t.observedSchemaUID, s.observedSchemaUID),
                        fieldErrors |-> MergeKeys(s.fieldErrors, t.fieldErrors, s.fieldErrors),
                        outputRef   |-> MergeKeys(s.outputRef, t.outputRef, s.outputRef)]
             n == [o EXCEPT !.status = status]
  <1>1. s \in AddonConfigStatus /\ t \in AddonConfigStatus
    BY DEF AddonConfig
  <1>2. status \in AddonConfigStatus /\ status = t
    <2>1. /\ MergeKeys(s.fieldErrors, t.fieldErrors, s.fieldErrors) = t.fieldErrors
          /\ MergeKeys(s.outputRef, t.outputRef, s.outputRef) = t.outputRef
      BY DEF MergeKeys
    <2> QED  BY <1>1, <2>1 DEF AddonConfigStatus, Merge
  <1>3. Written(o, n).status = s
    BY DEF PatchedStatus
  <1> HIDE DEF status
  <1>4. n \in AddonConfig /\ n.status = status
    BY <1>2 DEF AddonConfig
  <1> QED  BY <1>2, <1>3, <1>4, WrittenFields

-----------------------------------------------------------------------------
(* The informers.                                                          *)

\* An informer has in its cache, or still to deliver, the version that the
\* API server stores.
Follows(cached, pending, stored) ==
  IF pending = <<>> THEN cached = stored ELSE pending[Len(pending)] = stored


\* What is appended to the pending events, or taken from them, leaves the
\* last of them the stored one.
LEMMA FollowsStep ==
  ASSUME NEW S, NEW cached, NEW pending \in Seq(S), NEW stored, Follows(cached, pending, stored)
  PROVE  /\ \A o \in S : Follows(cached, Append(pending, o), o)
         /\ pending # <<>> => Follows(Head(pending), Tail(pending), stored)
  <1>1. ASSUME NEW o \in S
        PROVE  Follows(cached, Append(pending, o), o)
    BY AppendProperties DEF Follows
  <1>2. ASSUME pending # <<>>
        PROVE  Follows(Head(pending), Tail(pending), stored)
    <2>1. pending[Len(pending)] = stored
      BY <1>2 DEF Follows
    <2>2. /\ Len(pending) \in Nat \ {0} /\ Head(pending) = pending[1]
          /\ Tail(pending) \in Seq(S) /\ Len(Tail(pending)) = Len(pending) - 1
          /\ \A i \in 1..Len(Tail(pending)) : Tail(pending)[i] = pending[i + 1]
      BY <1>2, EmptySeq, HeadTailProperties
    <2>3. /\ Len(Tail(pending)) = 0 => Tail(pending) = <<>>
          /\ Len(<<>>) = 0
      <3>1. \A seq \in Seq(S) : seq # <<>> => Len(seq) \in Nat \ {0}
        BY EmptySeq
      <3>2. Tail(pending) # <<>> => Len(Tail(pending)) \in Nat \ {0}
        BY <2>2, <3>1
      <3> QED  BY <3>2, EmptySeq
    <2>4. CASE Len(pending) = 1
      <3>1. Tail(pending) = <<>>
        BY <2>2, <2>3, <2>4
      <3> QED  BY <2>1, <2>2, <2>4, <3>1 DEF Follows
    <2>5. CASE Len(pending) # 1
      <3> DEFINE n == Len(Tail(pending))
      <3>1. n \in Nat \ {0} /\ n = Len(pending) - 1
        BY <2>2, <2>5
      <3>2. Tail(pending) # <<>>
        BY <2>3, <3>1
      <3>3. Tail(pending)[n] = pending[n + 1]
        BY <2>2, <3>1
      <3>4. n + 1 = Len(pending)
        BY <2>2, <3>1
      <3> QED  BY <2>1, <3>2, <3>3, <3>4 DEF Follows
    <2> QED  BY <2>4, <2>5
  <1> QED  BY <1>1, <1>2

-----------------------------------------------------------------------------
(* The definitions.                                                        *)

\* Every definition a user may install has a template with something in it,
\* and names its output by variables that the template needs too.
DefinitionsComplete ==
  \A r \in DOMAIN Revision :
    Revision[r].template # "empty" /\ Revision[r].outputNeeds \subseteq Revision[r].needs
=============================================================================
