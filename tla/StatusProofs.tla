------------------------------ MODULE StatusProofs ------------------------------
(***************************************************************************)
(* Why the status tells the truth about the present values and the present *)
(* definition, while the API server answers, and why a Ready AddonConfig   *)
(* has its output persisted, if saving it does not fail in secret.         *)
(***************************************************************************)
EXTENDS ReconcileProofs

-----------------------------------------------------------------------------
(* The inductive invariants.                                               *)

\* The steps that reconcileTarget has run before.
Targeted == Validated \ {"target"}

\* Every phase that has run told what it is there to tell; the first one
\* follows no failure.
Told ==
  /\ w.pc = "definition" => ~w.failed
  /\ w.ac.spec.ref =>
       /\ w.pc \in Validated => ValidationTold(w)
       /\ w.pc \in Targeted  => TargetTold(w)
       /\ w.pc \in Patching  => TemplateTold(w)

\* The patch of the spec that left no event to deliver found it stored.
SpecStored ==
  w.pc = "status" /\ (Answers \/ ~w.failed) /\ ~queued /\ events = <<>> =>
    store.spec = w.ac.spec

\* With nothing to run and nothing to deliver, the status tells the truth
\* about the definition that is cached.
SettledTruthful ==
  w.pc = "idle" /\ ~queued /\ events = <<>> /\ store.exists /\ store.spec.ref /\ cacheDef.exists =>
    Truthful(store, cacheDef)

StatusInv == ReconcileInv /\ Told /\ SpecStored /\ SettledTruthful

-----------------------------------------------------------------------------
(* The steps.                                                              *)

\* A reconciliation that starts patches at once only if there is no
\* definitionRef, and has not failed.
LEMMA StartPatches ==
  ASSUME TypeOK, Start
  PROVE  /\ w'.pc \in {"idle", "definition"} \/ ~w'.ac.spec.ref
         /\ w'.pc \in {"idle", "definition", "conditions"}
         /\ w'.pc = "definition" => ~w'.failed
  BY StartStep DEF Idle, CopyOf

\* What reconcileValidation, reconcileTarget and reconcileTemplate told is left
\* as it is until the reconciliation ends.
LEMMA ToldStep ==
  ASSUME TypeOK, Told, [Next]_vars
  PROVE  Told'
  <1> DEFINE V == ValidationTypes
             U == {"ValidTarget"}
  <1>1. /\ "dependencies" \in Steps /\ "template" \in Steps /\ "conditions" \in Steps
        /\ w \in Worker
    BY DEF TypeOK, Steps
  <1>2. /\ V \subseteq Others("ValidTarget")
        /\ \A t \in {"ValidDependency", "ValidTemplate", "OutputResourceUpdated", "Ready"} :
             V \subseteq Others(t) /\ U \subseteq Others(t)
        /\ "ValidTemplate" \in Others("OutputResourceUpdated") \cap Others("Ready")
    BY DEF ValidationTypes, ConditionTypes, OwnedTypes, InScopeTypes, InScope, Others
  <1>3. \A x, y, S, T : Leaves(x, y, T) /\ S \subseteq T => Leaves(x, y, S)
    BY DEF Leaves
  <1>4. \A T : \A p \in Steps : Leaves(w, [w EXCEPT !.pc = p], T)
    BY <1>1 DEF Leaves, Worker
  <1>5. CASE Start
    BY <1>5, StartPatches DEF Told, Validated, Targeted, Patching
  <1>6. CASE Validate
    <2> DEFINE x == [w EXCEPT !.pc = "target", !.def = Found]
    <2>1. x \in Worker /\ ~x.failed
      BY <1>1, <1>6, EmptyObjectTypes DEF Told, Validate, TypeOK, Worker, Steps, Found
    <2>2. w' = reconcileValidation(x)
      BY <1>6 DEF Validate, Found
    <2>3. ValidationTold(w')
      BY <2>1, <2>2, ValidationTells
    <2>4. w'.pc = "target"
      BY <1>6, ValidateStep
    <2> QED  BY <2>3, <2>4 DEF Told, Targeted, Patching
  <1>7. CASE Target \/ ResolveDependency \/ DependenciesResolved
    <2>1. /\ w.pc \in {"target", "dependencies"} /\ w'.pc \in {"dependencies", "template"}
          /\ w'.ac.spec = w.ac.spec
      BY <1>7, PhaseStep DEF ContinuesCopy
    <2>2. /\ Leaves(w, w', V)
          /\ Target => TargetTold(w')
          /\ ~Target => Leaves(w, w', U) /\ w.pc = "dependencies"
      <3>1. CASE Target
        <4> DEFINE u == [w EXCEPT !.pc = "dependencies"]
        <4>1. PICK answer \in {cluster, "unreadable"} :
                w' = reconcileTemplateValues(reconcileTarget(u, answer))
          BY <3>1 DEF Target
        <4>2. answer \in Clusters /\ u \in Worker
          BY <1>1, <4>1, StepTo DEF TypeOK, Clusters
        <4>3. Leaves(w, u, V)
          BY <1>1, <1>4
        <4> HIDE DEF u
        <4>4. Leaves(u, w', V) /\ TargetTold(w')
          BY <1>2, <1>3, <4>1, <4>2, TargetLeaves
        <4> QED  BY <3>1, <4>3, <4>4, LeavesTransitive
      <3>2. CASE ResolveDependency
        <4>1. PICK answer \in {objects[Dependencies(w)[w.dep].name], Unlisted} :
                w' = resolveDependency(w, answer)
          BY <3>2 DEF ResolveDependency
        <4>2. answer \in Int
          BY <3>2, <4>1, AnswerType
        <4>3. w.pc = "dependencies" /\ ~Target
          BY <3>2 DEF ResolveDependency, Target
        <4> QED
          BY <1>1, <1>2, <1>3, <3>2, <4>1, <4>2, <4>3, DependencyLeaves DEF ResolveDependency
      <3>3. CASE DependenciesResolved
        BY <1>1, <1>4, <3>3 DEF DependenciesResolved, Target
      <3> QED  BY <1>7, <3>1, <3>2, <3>3
    <2> QED  BY <2>1, <2>2, LeavesTold DEF Told, Validated, Targeted, Patching
  <1>8. CASE RenderAndSave
    <2> DEFINE u == [w EXCEPT !.pc = "conditions"]
               x == reconcileTemplate(u)
               y == IF x.failed THEN x ELSE saveRenderedTemplate(x)
    <2>1. w' = Summarise(y)
      BY <1>8 DEF RenderAndSave
    <2>2. u \in Worker /\ Leaves(w, u, V) /\ Leaves(w, u, U)
      BY <1>1, <1>4, StepTo
    <2> HIDE DEF u
    <2>3. x \in Worker /\ Leaves(u, x, V) /\ Leaves(u, x, U) /\ TemplateTold(x)
      BY <1>2, <1>3, <2>2, TemplateType, TemplateTells
    <2> HIDE DEF x
    <2>4. y \in Worker /\ \A T \in {V, U, {"ValidTemplate"}} : Leaves(x, y, T)
      <3>1. \A T \in {V, U, {"ValidTemplate"}} : Leaves(x, x, T)
        BY DEF Leaves
      <3> QED  BY <1>2, <1>3, <2>3, <3>1, SaveType, SaveTells
    <2> HIDE DEF y
    <2>5. \A T \in {V, U, {"ValidTemplate"}} : Leaves(y, w', T)
      BY <1>2, <1>3, <2>1, <2>4, SummariseLeaves
    <2>6. Leaves(w, w', V) /\ Leaves(w, w', U)
      BY <2>2, <2>3, <2>4, <2>5, LeavesTransitive
    <2>7. TemplateTold(w')
      BY <2>3, <2>4, <2>5, LeavesTold
    <2>8. w.pc = "template" /\ w'.pc = "conditions" /\ w'.ac.spec = w.ac.spec
      BY <1>8, RenderStep DEF ContinuesCopy
    <2> QED  BY <2>6, <2>7, <2>8, LeavesTold DEF Told, Validated, Targeted
  <1>9. CASE PatchConditions \/ PatchSpec
    BY <1>9, PatchStep DEF Told, Validated, Targeted, Patching, ValidationTold, SchemaTold,
       DefaultingTold, TargetTold, TemplateTold
  <1>10. CASE PatchStatus \/ Restart
    <2>1. w' = Idle
      BY <1>10 DEF PatchStatus, Finish, Restart
    <2> QED  BY <2>1 DEF Told, Idle, Validated, Targeted, Patching
  <1>11. CASE w' = w
    BY <1>11 DEF Told, ValidationTold, SchemaTold, DefaultingTold, TargetTold, TemplateTold
  <1>12. CASE DeliverConfig \/ DeliverDefinition \/ Timer \/ UNCHANGED vars
    BY <1>11, <1>12 DEF DeliverConfig, DeliverDefinition, Timer, vars
  <1>13. CASE Environment /\ ~Restart
    BY <1>11, <1>13, OutsideStep
  <1> QED
    BY <1>5, <1>6, <1>7, <1>8, <1>9, <1>10, <1>12, <1>13 DEF Next, Reconcile

\* What the patch of the spec does, if it leaves nothing to deliver.
LEMMA PatchedSpecStored ==
  ASSUME TypeOK, TypeOK', InformersFollow, CopiesCurrent, PatchSpec,
         Answers \/ ~w'.failed, ~queued', events' = <<>>
  PROVE  UNCHANGED <<store, events>> /\ w'.ac = w.ac /\ store.spec = w.ac.spec
  <1>1. /\ w \in Worker /\ store \in AddonConfig /\ w.ac \in AddonConfig
        /\ events \in Seq(AddonConfig) /\ store' \in AddonConfig
    BY DEF TypeOK, Worker
  <1>2. w.pc = "spec" /\ ~queued /\ w'.ac = w.ac
    BY PatchStep DEF PatchSpec
  <1>3. UNCHANGED <<store, events>>
    <2>1. ~DeliverConfig /\ ~Restart
      BY <1>2, PatchStep DEF DeliverConfig, Restart, Idle
    <2> QED  BY <2>1, QuietStep DEF Next, Reconcile
  <1>4. w.before = store /\ store.exists
    BY <1>2, <1>3 DEF InformersFollow, Follows, CopiesCurrent
  <1>5. CASE ~SpecChanged(w.before, w.ac)
    BY <1>2, <1>3, <1>4, <1>5 DEF SpecChanged
  <1>6. CASE SpecChanged(w.before, w.ac)
    <2> DEFINE next == [w EXCEPT !.pc = "status"]
    <2>1. Fail(next).failed
      BY <1>1 DEF Fail, Worker
    <2>2. ~CallFails \/ w' # Fail(next)
      BY <2>1 DEF Answers, CallFails, Disturb
    <2>3. Write(PatchedSpec(w.before, w.ac, store))
      BY <1>4, <1>6, <2>2 DEF PatchSpec
    <2>4. PatchedSpec(store, w.ac, store) = store
      BY <1>1, <1>4, <2>3, WriteOfNothing
    <2> QED  BY <1>1, <1>2, <1>3, <2>4, SpecPatched
  <1> QED  BY <1>5, <1>6

\* The last step of a reconciliation leaves the spec stored, or something to
\* deliver.
LEMMA SpecStoredStep ==
  ASSUME TypeOK, TypeOK', InformersFollow, CopiesCurrent, SpecStored, [Next]_vars
  PROVE  SpecStored'
  <1> SUFFICES ASSUME w'.pc = "status", Answers \/ ~w'.failed, ~queued', events' = <<>>
               PROVE  store'.spec = w'.ac.spec
    BY DEF SpecStored
  <1>1. CASE PatchSpec
    BY <1>1, PatchedSpecStored
  <1>2. CASE Start \/ Validate \/ Target \/ ResolveDependency \/ DependenciesResolved
              \/ RenderAndSave \/ PatchConditions
    BY <1>2, StartStep, ValidateStep, PhaseStep, RenderStep, PatchStep DEF Idle
  <1>3. CASE PatchStatus \/ Restart
    BY <1>3 DEF PatchStatus, Finish, Restart, Idle
  <1>4. CASE DeliverConfig \/ Timer
    BY <1>4 DEF DeliverConfig, Timer
  <1>5. CASE w' = w /\ (queued => queued') /\ ~DeliverConfig /\ ~Restart
    <2>1. UNCHANGED <<store, events>>
      BY <1>5, QuietStep
    <2> QED  BY <1>5, <2>1 DEF SpecStored
  <1>6. CASE DeliverDefinition \/ UNCHANGED vars
    <2>1. w' = w
      BY <1>6 DEF DeliverDefinition, vars
    <2>2. queued => queued'
      <3>1. queued' \in {queued, queued \/ addonConfigDefinitionToAddonConfig(cache)}
        BY <1>6 DEF DeliverDefinition, vars
      <3> QED  BY <3>1, Zenon
    <2> QED  BY <1>3, <1>4, <1>5, <2>1, <2>2
  <1>7. CASE Environment
    BY <1>3, <1>4, <1>5, <1>7, OutsideStep
  <1> QED
    BY <1>1, <1>2, <1>3, <1>4, <1>6, <1>7 DEF Next, Reconcile

\* How the controller comes to have nothing to run and nothing to deliver: it
\* had nothing before, the AddonConfig is gone, or a reconciliation ends.
LEMMA RestStep ==
  ASSUME ReconcileInv, TypeOK', [Next]_vars, w'.pc = "idle", ~queued', events' = <<>>
  PROVE  \/ ~store'.exists
         \/ PatchStatus
         \/ /\ w.pc = "idle" /\ ~queued /\ events = <<>> /\ (delayed => delayed')
            /\ UNCHANGED <<store, outputs>>
            /\ cacheDef' = cacheDef \/ ~store.spec.ref
  <1> USE DEF ReconcileInv
  <1>1. CASE Start
    BY <1>1, StartStep DEF Start, api, InformersFollow, Follows
  <1>2. CASE Validate \/ Target \/ ResolveDependency \/ DependenciesResolved \/ RenderAndSave
             \/ PatchConditions \/ PatchSpec
    BY <1>2, ValidateStep, PhaseStep, RenderStep, PatchStep
  <1>3. CASE DeliverConfig \/ Timer
    BY <1>3 DEF DeliverConfig, Timer
  <1>4. CASE DeliverDefinition
    <2>1. /\ UNCHANGED <<w, events, store, outputs, delayed>>
          /\ queued' = (queued \/ addonConfigDefinitionToAddonConfig(cache))
      BY <1>4 DEF DeliverDefinition
    <2>2. ~queued /\ ~addonConfigDefinitionToAddonConfig(cache)
      BY <2>1, Zenon
    <2>3. cache = store
      BY <2>1 DEF InformersFollow, Follows
    <2> QED  BY <2>1, <2>2, <2>3 DEF addonConfigDefinitionToAddonConfig
  <1>5. CASE Restart
    BY <1>5 DEF Restart
  <1>6. CASE UNCHANGED vars
    BY <1>6 DEF vars, api
  <1>7. CASE Environment /\ ~Restart
    <2>1. UNCHANGED <<w, cacheDef, delayed>> /\ ~queued
      BY <1>7, OutsideStep
    <2>2. UNCHANGED <<store, events>>
      BY <1>3, <1>7, QuietStep DEF DeliverConfig
    <2>3. outputs' = outputs
      BY <1>7 DEF Environment, CreateConfig, EditConfig, DeleteConfig, SetForeignCondition,
         Define, Undefine, ChangeCluster, ChangeObjects, Resync, api
    <2> QED  BY <2>1, <2>2, <2>3
  <1> QED
    BY <1>1, <1>2, <1>3, <1>4, <1>5, <1>6, <1>7 DEF Next, Reconcile

-----------------------------------------------------------------------------
(* The end of a reconciliation.                                            *)

\* A reconciliation that ends quietly read what is stored, and left stored
\* what it found out.
LEMMA FinishStores ==
  ASSUME ReconcileInv, TypeOK', SpecStored,
         PatchStatus, ~queued', events' = <<>>, Answers \/ ~delayed'
  PROVE  /\ UNCHANGED <<store, cacheDef>>
         /\ w.pc = "status" /\ (w.failed => delayed')
         /\ store.spec = w.ac.spec /\ store.status = w.ac.status
         /\ \A t \in ConditionTypes : SameState(store.conditions[t], w.ac.conditions[t])
         /\ store.spec.ref => w.def = Found
         /\ store.exists => Reconciled(store, cacheDef)
  <1>1. /\ w.pc = "status" /\ (Answers \/ ~w.failed) /\ (w.failed => delayed')
        /\ ~queued /\ UNCHANGED <<store, events, cacheDef>>
        /\ store.status = w.ac.status
    BY FinishStatus DEF ReconcileInv
  <1>2. store.spec = w.ac.spec
    BY <1>1 DEF SpecStored
  <1>3. \A t \in ConditionTypes : SameState(store.conditions[t], w.ac.conditions[t])
    BY <1>1 DEF ReconcileInv, ConditionsStored
  <1>4. store.spec.ref => w.def = Found
    BY <1>1, <1>2 DEF ReconcileInv, CopiesCurrent, Validated
  <1>5. Reconciled(store, cacheDef)
    BY <1>1, PatchedMeansReconciled DEF ReconcileInv
  <1> QED  BY <1>1, <1>2, <1>3, <1>4, <1>5

\* So what is then stored is truthful about the definition that is cached.
LEMMA FinishTruthful ==
  ASSUME ReconcileInv, TypeOK', Told, SpecStored,
         PatchStatus, ~queued', events' = <<>>, Answers,
         store'.exists, store'.spec.ref, cacheDef'.exists
  PROVE  Truthful(store', cacheDef')
  <1>1. /\ UNCHANGED <<store, cacheDef>> /\ w.pc = "status"
        /\ store.spec = w.ac.spec /\ store.status = w.ac.status
        /\ \A t \in ConditionTypes : SameState(store.conditions[t], w.ac.conditions[t])
        /\ store.spec.ref => w.def = Found
        /\ store.exists => Reconciled(store, cacheDef)
    BY FinishStores
  <1>2. w.def = cacheDef
    BY <1>1 DEF Found
  <1>3. ReadyIsSummaryOf(store.conditions)
    BY <1>1 DEF Reconciled
  <1>4. ValidationTold(w) /\ TargetTold(w) /\ TemplateTold(w)
    BY <1>1 DEF Told, Validated, Targeted, Patching
  <1>5. \A t \in ValidationTypes \cup {"ValidTarget", "ValidTemplate"} :
          /\ store.conditions[t].status = w.ac.conditions[t].status
          /\ store.conditions[t].reason = w.ac.conditions[t].reason
    <2>1. ValidationTypes \cup {"ValidTarget", "ValidTemplate"} \subseteq ConditionTypes
      BY DEF ValidationTypes, ConditionTypes, OwnedTypes, InScopeTypes, InScope
    <2> QED  BY <1>1, <2>1 DEF SameState
  <1>6. Truthful(store, cacheDef)
    BY <1>1, <1>2, <1>3, <1>4, <1>5
    DEF ValidationTypes, ValidationTold, SchemaTold, DefaultingTold, TargetTold, TemplateTold,
        Truthful
  <1> QED  BY <1>1, <1>6

\* What was truthful stays so until there is something to run or to deliver.
LEMMA SettledTruthfulStep ==
  ASSUME ReconcileInv, TypeOK', Told, SpecStored, SettledTruthful, [Next]_vars, Answers
  PROVE  SettledTruthful'
  <1> SUFFICES ASSUME w'.pc = "idle", ~queued', events' = <<>>,
                      store'.exists, store'.spec.ref, cacheDef'.exists
               PROVE  Truthful(store', cacheDef')
    BY DEF SettledTruthful, Truthful, ReadyIsSummaryOf, SameState
  <1>1. CASE PatchStatus
    BY <1>1, FinishTruthful
  <1>2. CASE ~PatchStatus
    BY <1>2, RestStep DEF SettledTruthful
  <1> QED  BY <1>1, <1>2

\* While the API server answers, the status of an AddonConfig tells the truth
\* about its present values and the present definition as soon as there is
\* nothing left to run or to deliver, although a retry may be due: a failed
\* validation is reported, and the report is withdrawn when the values or the
\* definition changed: ValidConfig if the schema is structural, the field
\* errors if there is a validator for it (without one the phase returns
\* early).  Answers is needed: after a call that failed, the
\* controller rests until the retry with what it could not store.
THEOREM TruthfulWhileAnswered ==
  ASSUME Answers
  PROVE  Spec => []StatusTruthful
  <1>1. Init => StatusInv
    BY ReconcileInvInductive DEF Init, Idle, StatusInv, Told, SpecStored, SettledTruthful,
       Validated, Targeted, Patching
  <1>2. StatusInv /\ [Next]_vars => StatusInv'
    BY ReconcileInvInductive, ToldStep, SpecStoredStep, SettledTruthfulStep
    DEF StatusInv, ReconcileInv
  <1>3. StatusInv => StatusTruthful
    BY DEF StatusInv, ReconcileInv, InformersFollow, Follows, SettledTruthful,
       StatusTruthful, Settled
  <1> QED  BY <1>1, <1>2, <1>3, PTL DEF Spec

-----------------------------------------------------------------------------
(* What is persisted.                                                      *)

\* The error of CreateOrUpdate, which the code drops, does not occur.
SavesSucceed == "saveFault" \notin Disturbances

\* An AddonConfig `o' that claims to be Ready and to have its output updated.
Claims(o) ==
  /\ o.conditions["Ready"].status = "True"
  /\ o.conditions["OutputResourceUpdated"].status = "True"

\* The place for outputs of the definition `d' holds its template, rendered
\* with the values of `o', which names the same kind of output.
Holds(o, d) ==
  LET output == SpecOf(d).output
  IN  /\ d.revision \in DOMAIN Revision
      /\ o.status.outputRef = {output}
      /\ outputs[Place(output)] = [revision |-> d.revision, values |-> o.spec.values]

\* A reconciliation that has not failed claims what is so.
Saved ==
  w.pc \in Patching /\ w.ac.spec.ref /\ ~w.failed /\ Claims(w.ac) => Holds(w.ac, w.def)

\* With nothing to run, to retry or to deliver, what is stored claims what is
\* so of the definition that is cached.
RestPersisted ==
  w.pc = "idle" /\ ~queued /\ ~delayed /\ events = <<>> /\ store.exists /\ store.spec.ref
    /\ Claims(store) => Holds(store, cacheDef)

PersistedInv == ReconcileInv /\ Told /\ SpecStored /\ Saved /\ RestPersisted

\* What saveRenderedTemplate leaves behind when no phase failed.
LEMMA RenderSaves ==
  ASSUME ReconcileInv, RenderAndSave, DefinitionsComplete, SavesSucceed,
         w'.ac.spec.ref, ~w'.failed, Claims(w'.ac)
  PROVE  Holds(w.ac, w.def)'
  <1> DEFINE u == [w EXCEPT !.pc = "conditions"]
             x == reconcileTemplate(u)
             y == IF x.failed THEN x ELSE saveRenderedTemplate(x)
             spec == SpecOf(x.def)
             C == {"ValidTemplate", "OutputResourceUpdated"}
  <1>1. w' = Summarise(y) /\ outputs' = Persisted(x, outputs)
    BY DEF RenderAndSave, SaveFails, Disturb, SavesSucceed
  <1>2. u \in Worker
    BY StepTo DEF ReconcileInv, TypeOK, Steps
  <1> HIDE DEF u
  <1>3. /\ x \in Worker /\ TemplateTold(x)
        /\ ~x.failed => spec.template \in {"empty", "nested", "good"}
        /\ ~x.failed /\ spec.template = "good" => Resolvable(x, spec.needs)
    <2>1. Leaves(u, x, Others("ValidTemplate"))
      BY <1>2, TemplateTells
    <2>2. x.def = u.def
      BY <2>1 DEF Leaves
    <2> QED  BY <1>2, <2>2, TemplateType, TemplateTells
  <1> HIDE DEF x
  <1>4. y \in Worker /\ (~x.failed => y = saveRenderedTemplate(x)) /\ (x.failed => y = x)
    BY <1>3, SaveType
  <1> HIDE DEF y
  <1>5. /\ Leaves(y, w', Others("Ready")) /\ w'.failed = y.failed
        /\ w'.ac.status.outputRef = y.ac.status.outputRef
    BY <1>1, <1>4, SummariseLeaves
  <1>6. ~x.failed /\ y = saveRenderedTemplate(x)
    BY <1>4, <1>5
  <1>7. C \subseteq Others("Ready") /\ "ValidTemplate" \in Others("OutputResourceUpdated")
    BY DEF ConditionTypes, OwnedTypes, InScopeTypes, InScope, Others
  <1>8. /\ spec.output \in Outputs /\ w'.ac.status.outputRef = {spec.output}
        /\ w'.def = x.def /\ w'.ac.spec = x.ac.spec
        /\ w'.ac.conditions["ValidTemplate"] = x.ac.conditions["ValidTemplate"]
    BY <1>3, <1>5, <1>6, <1>7, SaveTells DEF Claims, Leaves
  <1>9. x.def.revision \in DOMAIN Revision /\ spec = Revision[x.def.revision]
    BY <1>8 DEF SpecOf, EmptySpec, Outputs
  <1>10. spec.template # "nested"
    <2> SUFFICES ASSUME spec.template = "nested" PROVE FALSE
      OBVIOUS
    <2>1. InError(w'.ac.conditions, "ValidTemplate") /\ "ValidTemplate" \in InScopeTypes
      BY <1>3, <1>8 DEF TemplateTold, InError, InScopeTypes, InScope
    <2>2. w'.ac.conditions \in ConditionList
      BY <1>1, <1>4, SummariseType DEF Worker, AddonConfig
    <2>3. Summary(w'.ac.conditions, InScope).status = "False"
      BY <2>1, <2>2, SummaryOfError
    <2>4. ReadyIsSummaryOf(w'.ac.conditions)
      <3>1. Summarised(w')
        BY RenderStep DEF ReconcileInv, Recorded, Validated, RenderAndSave
      <3> QED  BY <3>1 DEF Summarised
    <2> QED  BY <2>3, <2>4 DEF ReadyIsSummaryOf, SameState, Claims
  <1>11. spec.template = "good" /\ Resolvable(x, spec.needs)
    BY <1>3, <1>6, <1>9, <1>10 DEF DefinitionsComplete
  <1>12. Resolvable(x, spec.outputNeeds)
    BY <1>9, <1>11 DEF DefinitionsComplete, Resolvable
  <1>13. outputs'[Place(spec.output)] = [revision |-> x.def.revision, values |-> x.ac.spec.values]
    <2>1. Place(spec.output) \in Places
      BY DEF Place, Places
    <2> QED
      BY <1>1, <1>6, <1>8, <1>11, <1>12, <2>1
      DEF Persisted, Savable, RenderedTemplate, ReconcileInv, TypeOK
  <1> QED  BY <1>8, <1>9, <1>13 DEF Holds

\* What was saved stays so until the next reconciliation gets to saving.
LEMMA SavedStep ==
  ASSUME ReconcileInv, Saved, [Next]_vars, DefinitionsComplete, SavesSucceed
  PROVE  Saved'
  <1> SUFFICES ASSUME w'.pc \in Patching, w'.ac.spec.ref, ~w'.failed, Claims(w'.ac)
               PROVE  Holds(w.ac, w.def)'
    BY DEF Saved, Claims
  <1>1. TypeOK
    BY DEF ReconcileInv
  <1>2. CASE RenderAndSave
    BY <1>2, RenderSaves
  <1>3. CASE Start \/ Validate \/ Target \/ ResolveDependency \/ DependenciesResolved
    <2>1. CASE Start
      BY <1>1, <2>1, StartPatches DEF Patching
    <2>2. CASE Validate
      BY <1>1, <2>2, ValidateStep DEF Patching
    <2>3. CASE Target \/ ResolveDependency \/ DependenciesResolved
      BY <1>1, <2>3, PhaseStep DEF Patching
    <2> QED  BY <1>3, <2>1, <2>2, <2>3
  <1>4. CASE PatchConditions \/ PatchSpec
    <2>1. /\ w.pc \in Patching /\ w'.ac = w.ac /\ w'.def = w.def /\ ~w.failed
      BY <1>1, <1>4, PatchStep DEF Patching
    <2>2. outputs' = outputs
      BY <1>4 DEF PatchConditions, PatchSpec
    <2> QED  BY <2>1, <2>2 DEF Saved, Holds
  <1>5. CASE PatchStatus \/ Restart
    BY <1>5 DEF PatchStatus, Finish, Restart, Idle, Patching
  <1>6. CASE w' = w /\ outputs' = outputs
    BY <1>6 DEF Saved, Holds
  <1>7. CASE DeliverConfig \/ DeliverDefinition \/ Timer \/ UNCHANGED vars
    BY <1>6, <1>7 DEF DeliverConfig, DeliverDefinition, Timer, vars, api
  <1>8. CASE Environment /\ ~Restart
    BY <1>6, <1>8, OutsideStep DEF Environment, CreateConfig, EditConfig, DeleteConfig,
       SetForeignCondition, Define, Undefine, ChangeCluster, ChangeObjects, Resync, api
  <1> QED
    BY <1>2, <1>3, <1>4, <1>5, <1>7, <1>8 DEF Next, Reconcile

\* A reconciliation that ends with nothing to retry claims what is so of the
\* definition that is cached.
LEMMA RestPersistedStep ==
  ASSUME ReconcileInv, TypeOK', SpecStored, Saved, RestPersisted, [Next]_vars
  PROVE  RestPersisted'
  <1> SUFFICES ASSUME w'.pc = "idle", ~queued', ~delayed', events' = <<>>,
                      store'.exists, store'.spec.ref, Claims(store')
               PROVE  Holds(store, cacheDef)'
    BY DEF RestPersisted, Claims
  <1>1. CASE PatchStatus
    <2>1. /\ UNCHANGED <<store, cacheDef>>
          /\ w.pc = "status" /\ ~w.failed
          /\ store.spec = w.ac.spec /\ store.status = w.ac.status
          /\ \A t \in ConditionTypes : SameState(store.conditions[t], w.ac.conditions[t])
          /\ store.spec.ref => w.def = Found
      BY <1>1, FinishStores
    <2>2. {"Ready", "OutputResourceUpdated"} \subseteq ConditionTypes
      BY DEF ConditionTypes, OwnedTypes
    <2>3. Claims(w.ac)
      BY <2>1, <2>2 DEF Claims, SameState
    <2>4. Holds(w.ac, w.def)
      BY <2>1, <2>3 DEF Saved, Patching
    <2>5. w.def = cacheDef
      BY <2>1, <2>4, RevisionAssumption DEF Holds, Found, NoDefinition
    <2>6. outputs' = outputs
      BY <1>1 DEF PatchStatus
    <2> QED  BY <2>1, <2>4, <2>5, <2>6 DEF Holds
  <1>2. CASE ~PatchStatus
    BY <1>2, RestStep DEF RestPersisted, Holds
  <1> QED  BY <1>1, <1>2

\* When the controller rests with an AddonConfig that is Ready and says that
\* its output was updated, the place where the code puts outputs of its kind
\* holds the template of the present definition, rendered with the present
\* values, and that kind is the only key of outputRef.  The hypotheses name
\* what the code does not report: an error of CreateOrUpdate, an output name
\* without a value, an empty template.
THEOREM ReadyMeansPersisted ==
  ASSUME DefinitionsComplete, SavesSucceed
  PROVE  Spec => []RestMeansPersisted
  <1>1. Init => PersistedInv
    BY ReconcileInvInductive DEF Init, Idle, PersistedInv, Told, SpecStored, Saved,
       RestPersisted, Validated, Targeted, Patching
  <1>2. PersistedInv /\ [Next]_vars => PersistedInv'
    BY ReconcileInvInductive, ToldStep, SpecStoredStep, SavedStep, RestPersistedStep
    DEF PersistedInv, ReconcileInv
  <1>3. PersistedInv => RestMeansPersisted
    BY DEF PersistedInv, ReconcileInv, InformersFollow, Follows, RestPersisted, Claims, Holds,
       RestMeansPersisted, AtRest
  <1> QED  BY <1>1, <1>2, <1>3, PTL DEF Spec
=============================================================================
