------------------------- MODULE ManagerReplicasProofs -------------------------
(***************************************************************************)
(* Why the replicas of the manager agree when they rest, whoever wrote     *)
(* last: a write of one of them disturbs all of them, so that each of them *)
(* that is not disturbed works on what is stored; and the leader that      *)
(* starts after another one begins with a reconciliation.                  *)
(***************************************************************************)
EXTENDS ManagerReplicas, PhaseProofs

-----------------------------------------------------------------------------
(* The inductive invariant.                                                *)

Types ==
  /\ elect \in BOOLEAN /\ active \subseteq Managers
  /\ store \in AddonConfig /\ def \in Definition /\ def.exists
  /\ outputs \in [Places -> Renderings]
  /\ events \in [Managers -> Seq(AddonConfig)] /\ cache \in [Managers -> AddonConfig]
  /\ defEvents \in [Managers -> Seq(Definition)] /\ cacheDef \in [Managers -> Definition]
  /\ queued \in [Managers -> BOOLEAN] /\ delayed \in [Managers -> BOOLEAN]
  /\ w \in [Managers -> Worker]

\* Nothing tells the manager of a change that it has not reconciled.
Undisturbed(m) == ~queued[m] /\ events[m] = <<>> /\ defEvents[m] = <<>>

OneLeader == elect => \A m, n \in active : m = n

StoppedIdle == \A m \in Managers \ active : w[m].pc = "idle" /\ Undisturbed(m) /\ ~delayed[m]

InformersFollow ==
  \A m \in active : /\ Follows(cache[m], events[m], store)
                    /\ Follows(cacheDef[m], defEvents[m], def)

\* Unless the request was queued again, a worker reconciles what is cached.
CopiesCurrent ==
  \A m \in active : w[m].pc # "idle" /\ ~queued[m] =>
    w[m].before = cache[m] /\ w[m].def = cacheDef[m]

SchemaUID(d) == IF d.exists THEN d.uid ELSE 0

\* The values of an AddonConfig `o' are admitted by the definition `d', and
\* its status says so of that definition.
Valid(o, d) ==
  /\ o.spec.values \in SpecOf(d).accepts
  /\ o.conditions["ValidConfig"].status = "True"
  /\ o.status.fieldErrors = {} /\ o.status.observedSchemaUID = SchemaUID(d)

\* Its status is one that a reconciliation ends with that has nothing to
\* retry.
Sound(o, d) ==
  /\ o.status.observedGeneration = o.generation
  /\ ReadyIsSummaryOf(o.conditions)
  /\ Valid(o, d)
  /\ SpecOf(d).output \in Outputs /\ o.status.outputRef = {SpecOf(d).output}
  /\ o.conditions["Ready"].status = "True" => SpecOf(d).template = "good"

Patching == {"conditions", "spec", "status"}

\* What a worker has found out so far.
Found(x) ==
  /\ x.pc # "idle" => CopyOf(x, x.before)
  /\ x.pc = "template" => Present(x, "ValidSchema") /\ (~x.failed => Valid(x.ac, x.def))
  /\ x.pc \in Patching /\ ~x.failed /\ ~x.requeue => Sound(x.ac, x.def)

WorkersFound == \A m \in active : Found(w[m])

\* The patches that left nothing to deliver found stored what they send.
PatchesStored ==
  \A m \in active : Undisturbed(m) =>
    /\ w[m].pc \in {"spec", "status"} /\ ~w[m].failed =>
         \A t \in ConditionTypes : SameState(store.conditions[t], w[m].ac.conditions[t])
    /\ w[m].pc = "status" => store.spec = w[m].ac.spec

\* With nothing to run, to retry or to deliver, what is stored is sound.
RestSound ==
  \A m \in active :
    w[m].pc = "idle" /\ Undisturbed(m) /\ ~delayed[m] => Sound(store, cacheDef[m])

\* A manager that is not going to render, or just did so without an error,
\* from the values that are stored.
Rendered(m) ==
  /\ Undisturbed(m) /\ ~delayed[m] /\ w[m].pc # "template"
  /\ w[m].pc # "idle" => ~w[m].failed /\ ~SpecChanged(w[m].before, w[m].ac)

\* None has ended that nobody took over from.
Attended == IF elect THEN active # {} ELSE active = Managers

\* If none of them is going to render, the output that was written last is the
\* right one.
OutputCurrent ==
  Attended /\ (\A m \in active : Rendered(m)) =>
    LET spec == SpecOf(def)
    IN  spec.template = "good" /\ spec.output \in Outputs =>
          outputs[Place(spec.output)] =
            [revision |-> def.revision, values |-> store.spec.values]

ReplicasInv ==
  /\ Types /\ OneLeader /\ StoppedIdle /\ InformersFollow /\ CopiesCurrent /\ WorkersFound
  /\ PatchesStored /\ RestSound /\ OutputCurrent

-----------------------------------------------------------------------------
(* Writes.                                                                 *)

\* An object without its number is one.
LEMMA UnnumberedType ==
  ASSUME NEW o \in AddonConfig
  PROVE  /\ Unnumbered(o) \in AddonConfig
         /\ Unnumbered(o).spec = o.spec /\ Unnumbered(o).status = o.status
         /\ Unnumbered(o).conditions = o.conditions
  BY DEF Unnumbered, AddonConfig

\* A write is reported to every manager that runs, unless it changes nothing.
Reported ==
  /\ store' \in AddonConfig /\ events' \in [Managers -> Seq(AddonConfig)]
  /\ \A m \in Managers \ active : events'[m] = events[m]
  /\ \/ UNCHANGED <<store, events>>
     \/ \A m \in active : events'[m] = Append(events[m], store') /\ events'[m] # <<>>

\* Write reports.
LEMMA WriteStep ==
  ASSUME Types, NEW o \in AddonConfig,
         store' = Unnumbered(o),
         events' = IF Unnumbered(o) = store THEN events ELSE Announce(events, Unnumbered(o))
  PROVE  Reported
  <1>1. store' = Unnumbered(o) /\ store' \in AddonConfig
    BY UnnumberedType
  <1>2. CASE Unnumbered(o) = store
    BY <1>1, <1>2 DEF Types, Reported
  <1>3. CASE Unnumbered(o) # store
    <2>1. events' = [m \in Managers |-> IF m \in active THEN Append(events[m], store')
                                                       ELSE events[m]]
      BY <1>1, <1>3 DEF Announce
    <2>2. \A m \in Managers : events[m] \in Seq(AddonConfig)
      BY DEF Types
    <2>3. \A m \in active : m \in Managers
      BY DEF Types
    <2>4. \A m \in active : events'[m] = Append(events[m], store')
      BY <2>1, <2>3
    <2>5. \A m \in active : events'[m] # <<>>
      BY <1>1, <2>2, <2>3, <2>4, AppendProperties
    <2>6. \A m \in Managers : Append(events[m], store') \in Seq(AddonConfig)
      BY <1>1, <2>2, AppendProperties
    <2> QED  BY <1>1, <2>1, <2>2, <2>4, <2>5, <2>6 DEF Reported
  <1> QED  BY <1>2, <1>3

\* What the patches write is an AddonConfig.
LEMMA PatchReports ==
  ASSUME Types, NEW m \in Managers, PatchConditions(m) \/ PatchSpec(m) \/ PatchStatus(m)
  PROVE  Reported
  <1>1. /\ store \in AddonConfig /\ cache[m] \in AddonConfig
        /\ w[m].before \in AddonConfig /\ w[m].ac \in AddonConfig
    BY DEF Types, Worker
  <1> DEFINE c == PatchedConditions(w[m].before, w[m].ac, cache[m], store, Now)
             p == PatchedSpec(w[m].before, w[m].ac, store)
             s == PatchedStatus(w[m].before, w[m].ac, store)
  <1>2. c \in AddonConfig /\ p \in AddonConfig /\ s \in AddonConfig
    BY <1>1, PatchedTypes
  <1> HIDE DEF c, p, s
  <1>3. CASE UNCHANGED <<store, events>>
    BY <1>3 DEF Reported, Types
  <1>4. CASE PatchConditions(m)
    <2>1. UNCHANGED <<store, events>> \/ Write(c)
      BY <1>4 DEF PatchConditions, c
    <2> QED  BY <1>2, <1>3, <2>1, WriteStep DEF Write
  <1>5. CASE PatchSpec(m)
    <2>1. Write(p)
      BY <1>5 DEF PatchSpec, p
    <2> QED  BY <1>2, <2>1, WriteStep DEF Write
  <1>6. CASE PatchStatus(m)
    <2>1. Write(IF StatusChanged(w[m].before, w[m].ac) THEN s ELSE store)
      BY <1>6 DEF PatchStatus, s
    <2> QED  BY <1>1, <1>2, <2>1, WriteStep DEF Write
  <1> QED  BY <1>4, <1>5, <1>6

\* So is what the edit of a user writes.
LEMMA EditReports ==
  ASSUME Types, EditConfig
  PROVE  Reported
  <1>1. PICK spec \in Specs : Write(Written(store, [store EXCEPT !.spec = spec]))
    BY DEF EditConfig
  <1> DEFINE n == [store EXCEPT !.spec = spec]
             o == Written(store, n)
  <1>2. store \in AddonConfig /\ n \in AddonConfig
    BY ReplicasAssumption DEF Types, AddonConfig
  <1> HIDE DEF n
  <1>3. o \in AddonConfig
    BY <1>2, WrittenType
  <1>4. Write(o)
    BY <1>1 DEF n
  <1> HIDE DEF o
  <1> QED  BY <1>3, <1>4, WriteStep DEF Write

-----------------------------------------------------------------------------
(* The worker of one manager.                                              *)

\* What the phases up to the rendering find out.
LEMMA PhasedFinds ==
  ASSUME NEW o \in AddonConfig, NEW d \in Definition, NEW x \in Phased(o, d)
  PROVE  /\ x \in Worker /\ x.pc = "template" /\ x.before = o /\ x.def = d
         /\ Found(x)
  <1> DEFINE a == [Idle EXCEPT !.pc = "template", !.before = o, !.ac = o, !.def = d]
             b == reconcileValidation(a)
             c == reconcileTemplateValues(reconcileTarget(b, "present"))
  <1>1. x = c
    BY DEF Phased
  <1>2. /\ a \in Worker /\ a.pc = "template" /\ a.before = o /\ a.ac = o /\ a.def = d
    BY EmptyObjectTypes DEF Worker, Steps, Idle
  <1> HIDE DEF a
  <1>3. /\ b \in Worker /\ Keeps(a, b) /\ b.ac.spec.ref = a.ac.spec.ref
        /\ Present(b, "ValidSchema")
        /\ ~b.failed => Valid(b.ac, b.def)
    BY <1>2, ValidationType, ValidationKeeps, ValidationPasses DEF Valid, SchemaUID, Keeps
  <1> HIDE DEF b
  <1>4. /\ c \in Worker /\ KeepsCopy(b, c) /\ Leaves(b, c, Others("ValidTarget"))
    BY <1>3, TargetType, TargetKeeps, TargetLeaves DEF Clusters
  <1> HIDE DEF c
  <1>5. {"ValidSchema", "ValidConfig"} \subseteq Others("ValidTarget")
    BY DEF Others, ConditionTypes, OwnedTypes, InScopeTypes, InScope
  <1>6. c.pc = "template" /\ c.before = o /\ c.def = d /\ CopyOf(c, o)
    BY <1>2, <1>3, <1>4 DEF Keeps, KeepsCopy, CopyOf
  <1>7. Present(c, "ValidSchema")
    BY <1>3, <1>4, <1>5 DEF Leaves, Present
  <1>8. ~c.failed => Valid(c.ac, c.def)
    BY <1>3, <1>4, <1>5 DEF Leaves, Keeps, KeepsCopy, Valid
  <1> QED  BY <1>1, <1>4, <1>6, <1>7, <1>8 DEF Found, Patching

\* A reconciliation starts.
LEMMA StartStep ==
  ASSUME Types, NEW m \in Managers, Start(m)
  PROVE  /\ w' = [w EXCEPT ![m] = w'[m]]
         /\ w'[m] \in Worker /\ w'[m].pc = "template"
         /\ w'[m].before = cache[m] /\ w'[m].def = cacheDef[m] /\ Found(w'[m])
  <1>1. PICK x \in Phased(cache[m], cacheDef[m]) : Become(m, x)
    BY DEF Start
  <1>2. cache[m] \in AddonConfig /\ cacheDef[m] \in Definition
    BY DEF Types
  <1>3. w' = [w EXCEPT ![m] = x] /\ w'[m] = x
    BY <1>1 DEF Become, Types
  <1>4. x \in Worker /\ x.pc = "template" /\ x.before = cache[m] /\ x.def = cacheDef[m] /\ Found(x)
    BY <1>1, <1>2, PhasedFinds
  <1> QED  BY <1>3, <1>4

\* Where a patch is not needed the copy is what was read.
LEMMA NextPatch ==
  ASSUME NEW y \in Worker
  PROVE  LET z == ToConditions(y)
         IN  /\ z \in Worker /\ z.before = y.before /\ z.ac = y.ac /\ z.def = y.def
             /\ z.failed = y.failed /\ z.requeue = y.requeue
             /\ z.pc \in Patching
             /\ z.pc \in {"spec", "status"} => ~ConditionsChanged(y.before, y.ac)
             /\ z.pc = "status" => ~SpecChanged(y.before, y.ac)
  <1>1. \A p \in Patching : p \in Steps
    BY DEF Patching, Steps
  <1>2. ToConditions(y) =
          [y EXCEPT !.pc = IF ConditionsChanged(y.before, y.ac) THEN "conditions"
                           ELSE IF SpecChanged(y.before, y.ac) THEN "spec" ELSE "status"]
    BY DEF ToConditions, ToSpec
  <1> QED  BY <1>1, <1>2, StepTo DEF Patching

\* The same of the patches that follow the conditions.
LEMMA NextSpecPatch ==
  ASSUME NEW y \in Worker
  PROVE  LET z == ToSpec(y)
         IN  /\ z \in Worker /\ z.before = y.before /\ z.ac = y.ac /\ z.def = y.def
             /\ z.failed = y.failed /\ z.requeue = y.requeue
             /\ z.pc \in {"spec", "status"}
             /\ z.pc = "status" => ~SpecChanged(y.before, y.ac)
  <1>1. ToSpec(y) = [y EXCEPT !.pc = IF SpecChanged(y.before, y.ac) THEN "spec" ELSE "status"]
    BY DEF ToSpec
  <1>2. "spec" \in Steps /\ "status" \in Steps
    BY DEF Steps
  <1> QED  BY <1>1, <1>2, StepTo

\* What reconcileTemplate leaves for the patches, and what it tells.
LEMMA TemplateFinds ==
  ASSUME NEW v \in Worker, v.pc = "template", Found(v)
  PROVE  LET x == reconcileTemplate(v)
         IN  /\ x \in Worker /\ KeepsCopy(v, x)
             /\ CopyOf(x, x.before) /\ Present(x, "ValidSchema")
             /\ ~x.failed =>
                  /\ Valid(x.ac, x.def)
                  /\ SpecOf(x.def).template \in {"empty", "nested", "good"}
                  /\ SpecOf(x.def).template = "nested" => InError(x.ac.conditions, "ValidTemplate")
                  /\ SpecOf(x.def).template = "good" => Resolvable(x, SpecOf(x.def).needs)
  <1> DEFINE x == reconcileTemplate(v)
  <1>1. /\ x \in Worker /\ KeepsCopy(v, x) /\ Leaves(v, x, Others("ValidTemplate"))
        /\ TemplateTold(x)
        /\ ~x.failed => SpecOf(v.def).template \in {"empty", "nested", "good"}
        /\ ~x.failed /\ SpecOf(v.def).template = "good" => Resolvable(x, SpecOf(v.def).needs)
    BY TemplateType, TemplateKeeps, TemplateTells
  <1> HIDE DEF x
  <1>2. CopyOf(v, v.before) /\ Present(v, "ValidSchema") /\ (~v.failed => Valid(v.ac, v.def))
    BY DEF Found
  <1>3. {"ValidSchema", "ValidConfig"} \subseteq Others("ValidTemplate")
    BY DEF Others, ConditionTypes, OwnedTypes, InScopeTypes, InScope
  <1>4. x.def = v.def /\ (v.failed => x.failed)
    BY <1>1 DEF Keeps, KeepsCopy
  <1>5. CopyOf(x, x.before)
    BY <1>1, <1>2 DEF CopyOf, Keeps, KeepsCopy
  <1>6. Present(x, "ValidSchema")
    BY <1>1, <1>2, <1>3 DEF Leaves, Present
  <1>7. ~x.failed => Valid(x.ac, x.def)
    BY <1>1, <1>2, <1>3, <1>4 DEF Leaves, KeepsCopy, Valid
  <1>8. ~x.failed =>
          /\ SpecOf(x.def).template \in {"empty", "nested", "good"}
          /\ SpecOf(x.def).template = "nested" => InError(x.ac.conditions, "ValidTemplate")
          /\ SpecOf(x.def).template = "good" => Resolvable(x, SpecOf(x.def).needs)
    BY <1>1, <1>4 DEF TemplateTold
  <1> QED  BY <1>1, <1>5, <1>6, <1>7, <1>8 DEF x

\* What saving and summarising leave for the patches.
LEMMA SavesFind ==
  ASSUME DefinitionsComplete, NEW v \in Worker, v.pc = "template", Found(v),
         NEW y \in Saves(reconcileTemplate(v))
  PROVE  /\ y \in Worker /\ y.before = v.before /\ y.def = v.def
         /\ y.ac.spec = reconcileTemplate(v).ac.spec
         /\ reconcileTemplate(v).failed => y.failed
         /\ CopyOf(y, y.before)
         /\ ~y.failed /\ ~y.requeue => Sound(y.ac, y.def)
  <1> DEFINE x == reconcileTemplate(v)
             z == IF x.failed THEN x ELSE saveRenderedTemplate(x)
  <1>1. /\ x \in Worker /\ KeepsCopy(v, x) /\ CopyOf(x, x.before) /\ Present(x, "ValidSchema")
        /\ ~x.failed => /\ Valid(x.ac, x.def)
                        /\ SpecOf(x.def).template \in {"empty", "nested", "good"}
                        /\ SpecOf(x.def).template = "nested" =>
                             InError(x.ac.conditions, "ValidTemplate")
    BY TemplateFinds
  <1>2. y = Summarise(z)
    BY DEF Saves
  <1> HIDE DEF x
  <1>3. /\ z \in Worker /\ KeepsCopy(x, z)
        /\ Leaves(x, z, Others("OutputResourceUpdated"))
    BY <1>1, SaveType, SaveKeeps, SaveTells, StepKeeps, StepLeaves DEF Leaves, Others
  <1>4. ~z.failed /\ ~z.requeue =>
          SpecOf(x.def).output \in Outputs /\ z.ac.status.outputRef = {SpecOf(x.def).output}
    <2>1. SpecOf(x.def).output \in OutputShapes
      BY <1>1, SpecOfType DEF Worker, DefinitionSpec
    <2>2. CASE x.failed
      BY <2>2
    <2>3. CASE ~x.failed /\ SpecOf(x.def).output \in {"undefined", "multiple", "noNamespace"}
      <3>1. PICK r \in Reasons : z = Requeue(MarkFalse(x, "OutputResourceUpdated", r))
        <4>1. OutputReason[SpecOf(x.def).output] \in Reasons
          BY <2>3 DEF OutputReason, Reasons
        <4>2. z = Requeue(MarkFalse(x, "OutputResourceUpdated",
                                    OutputReason[SpecOf(x.def).output]))
          BY <2>3 DEF saveRenderedTemplate, OutputReason, Outputs
        <4> QED  BY <2>3, <4>1, <4>2
      <3>2. MarkFalse(x, "OutputResourceUpdated", r) \in Worker
        BY <1>1, MarkType DEF ConditionTypes
      <3> HIDE DEF z
      <3> QED  BY <3>1, <3>2 DEF Requeue, Worker
    <2>4. CASE ~x.failed /\ SpecOf(x.def).output = "unparsable"
      <3>1. z = Fail(MarkFalse(x, "OutputResourceUpdated", "NameTemplatingFailed"))
        BY <2>4 DEF saveRenderedTemplate, OutputReason, Outputs
      <3>2. MarkFalse(x, "OutputResourceUpdated", "NameTemplatingFailed") \in Worker
        BY <1>1, MarkType DEF ConditionTypes, Reasons
      <3> HIDE DEF z
      <3> QED  BY <3>1, <3>2 DEF Fail, Worker
    <2>5. CASE ~x.failed /\ SpecOf(x.def).output \in Outputs
      <3> DEFINE m == MarkTrue(x, "OutputResourceUpdated")
                 output == SpecOf(x.def).output
      <3>1. z = [m EXCEPT !.ac.status.outputRef = {output}]
        BY <2>5 DEF saveRenderedTemplate, OutputReason, Outputs
      <3>2. m \in Worker
        BY <1>1, MarkType DEF ConditionTypes
      <3> HIDE DEF z, m, output
      <3>3. z.ac = [m.ac EXCEPT !.status = [m.ac.status EXCEPT !.outputRef = {output}]]
        BY <3>1, <3>2 DEF Worker
      <3>4. z.ac.status.outputRef = {output}
        BY <3>2, <3>3 DEF Worker, AddonConfig, AddonConfigStatus
      <3> QED  BY <2>5, <3>4 DEF output
    <2> QED  BY <2>1, <2>2, <2>3, <2>4, <2>5 DEF OutputShapes
  <1> HIDE DEF z
  <1>5. /\ y \in Worker /\ KeepsCopy(z, y) /\ Leaves(z, y, Others("Ready"))
        /\ y.failed = z.failed /\ y.requeue = z.requeue
        /\ y.ac.status.outputRef = z.ac.status.outputRef
    <2>1. y.requeue = z.requeue
      BY <1>2, <1>3 DEF Summarise, Observe, Worker
    <2> QED  BY <1>2, <1>3, <2>1, SummariseType, SummariseKeeps, SummariseLeaves
  <1>6. /\ y.before = v.before /\ y.def = v.def /\ y.ac.spec = x.ac.spec
        /\ x.failed => y.failed
    BY <1>1, <1>3, <1>5 DEF Keeps, KeepsCopy
  <1>7. CopyOf(y, y.before)
    BY <1>1, <1>3, <1>5 DEF CopyOf, Keeps, KeepsCopy
  <1>8. ASSUME ~y.failed, ~y.requeue
        PROVE  Sound(y.ac, y.def)
    <2>1. /\ "ValidSchema" \in Others("OutputResourceUpdated") \cap Others("Ready")
          /\ "ValidConfig" \in Others("OutputResourceUpdated") \cap Others("Ready")
          /\ "ValidTemplate" \in Others("OutputResourceUpdated") \cap Others("Ready")
      BY DEF Others, ConditionTypes, OwnedTypes, InScopeTypes, InScope
    <2>2. /\ y.ac.conditions["ValidSchema"] = x.ac.conditions["ValidSchema"]
          /\ y.ac.conditions["ValidConfig"] = x.ac.conditions["ValidConfig"]
          /\ y.ac.conditions["ValidTemplate"] = x.ac.conditions["ValidTemplate"]
      BY <1>3, <1>5, <2>1 DEF Leaves
    <2>3. ~x.failed /\ x.def = y.def
      BY <1>1, <1>6, <1>8 DEF Keeps, KeepsCopy
    <2>4. Valid(y.ac, y.def)
      BY <1>1, <1>3, <1>5, <1>6, <2>2, <2>3 DEF Valid, Leaves, KeepsCopy
    <2>5. SpecOf(y.def).output \in Outputs /\ y.ac.status.outputRef = {SpecOf(y.def).output}
      BY <1>4, <1>5, <1>8, <2>3
    <2>6. Summarised(y)
      <3>1. Present(z, "ValidSchema")
        BY <1>1, <1>3, <2>1 DEF Leaves, Present
      <3> QED  BY <1>2, <1>3, <3>1, SummariseSummarises
    <2>7. Summary(y.ac.conditions, InScope) # Absent
      <3>1. y.ac.conditions["ValidSchema"].status # "Absent"
        BY <1>1, <2>2 DEF Present
      <3>2. y.ac.conditions \in ConditionList
        BY <1>5 DEF Worker, AddonConfig
      <3> QED  BY <3>1, <3>2, SummaryExists DEF InScopeTypes, InScope
    <2>8. y.ac.status.observedGeneration = y.ac.generation /\ ReadyIsSummaryOf(y.ac.conditions)
      BY <2>6, <2>7 DEF Summarised
    <2>9. ASSUME y.ac.conditions["Ready"].status = "True"
          PROVE  SpecOf(y.def).template = "good"
      <3>1. SpecOf(y.def).template # "empty"
        BY <2>5, RevisionAssumption DEF SpecOf, EmptySpec, DefinitionsComplete, Outputs
      <3>2. SpecOf(y.def).template # "nested"
        <4>1. SUFFICES ASSUME InError(y.ac.conditions, "ValidTemplate") PROVE FALSE
          BY <1>1, <2>2, <2>3 DEF InError
        <4>2. y.ac.conditions \in ConditionList /\ "ValidTemplate" \in InScopeTypes
          BY <1>5 DEF Worker, AddonConfig, InScopeTypes, InScope
        <4>3. Summary(y.ac.conditions, InScope).status = "False"
          BY <4>1, <4>2, SummaryOfError
        <4> QED  BY <2>8, <2>9, <4>3 DEF ReadyIsSummaryOf, SameState
      <3> QED  BY <1>1, <2>3, <3>1, <3>2
    <2> QED  BY <2>4, <2>5, <2>8, <2>9 DEF Sound
  <1> QED  BY <1>5, <1>6, <1>7, <1>8 DEF x

\* A rendering: the worker goes on to its first patch.
LEMMA RenderStep ==
  ASSUME DefinitionsComplete, Types, NEW m \in Managers, Found(w[m]), RenderAndSave(m)
  PROVE  /\ w' = [w EXCEPT ![m] = w'[m]]
         /\ w'[m] \in Worker /\ w'[m].pc \in Patching /\ Found(w'[m])
         /\ w'[m].before = w[m].before /\ w'[m].def = w[m].def
         /\ w'[m].pc \in {"spec", "status"} => ~ConditionsChanged(w[m].before, w'[m].ac)
         /\ w'[m].pc = "status" => ~SpecChanged(w[m].before, w'[m].ac)
         /\ reconcileTemplate(w[m]).failed => w'[m].failed
         /\ reconcileTemplate(w[m]).ac.spec = w'[m].ac.spec
         /\ outputs' = Persisted(reconcileTemplate(w[m]), outputs)
         /\ outputs' \in [Places -> Renderings]
  <1>1. PICK y \in Saves(reconcileTemplate(w[m])) : Become(m, ToConditions(y))
    BY DEF RenderAndSave
  <1>2. outputs' = Persisted(reconcileTemplate(w[m]), outputs) /\ w[m].pc = "template"
    BY DEF RenderAndSave
  <1>3. w[m] \in Worker /\ outputs \in [Places -> Renderings]
    BY DEF Types
  <1>4. /\ y \in Worker /\ y.before = w[m].before /\ y.def = w[m].def
        /\ y.ac.spec = reconcileTemplate(w[m]).ac.spec
        /\ reconcileTemplate(w[m]).failed => y.failed
        /\ CopyOf(y, y.before)
        /\ ~y.failed /\ ~y.requeue => Sound(y.ac, y.def)
    BY <1>1, <1>2, <1>3, SavesFind
  <1> DEFINE z == ToConditions(y)
  <1>5. w' = [w EXCEPT ![m] = z] /\ w'[m] = z
    BY <1>1 DEF Become, Types
  <1>6. /\ z \in Worker /\ z.before = y.before /\ z.ac = y.ac /\ z.def = y.def
        /\ z.failed = y.failed /\ z.requeue = y.requeue
        /\ z.pc \in Patching
        /\ z.pc \in {"spec", "status"} => ~ConditionsChanged(y.before, y.ac)
        /\ z.pc = "status" => ~SpecChanged(y.before, y.ac)
    BY <1>4, NextPatch
  <1> HIDE DEF z
  <1>7. Found(z)
    <2>1. CopyOf(z, z.before)
      BY <1>4, <1>6 DEF CopyOf
    <2> QED  BY <1>4, <1>6, <2>1 DEF Found, Patching
  <1>8. outputs' \in [Places -> Renderings]
    BY <1>2, <1>3, TemplateType, PersistedType
  <1> QED  BY <1>2, <1>4, <1>5, <1>6, <1>7, <1>8

\* A patch before the last one: the worker keeps what it has found out.
LEMMA PatchStep ==
  ASSUME Types, NEW m \in Managers, Found(w[m]), PatchConditions(m) \/ PatchSpec(m)
  PROVE  /\ w' = [w EXCEPT ![m] = w'[m]]
         /\ w'[m] \in Worker /\ w'[m].pc \in Patching /\ Found(w'[m])
         /\ w'[m].before = w[m].before /\ w'[m].ac = w[m].ac /\ w'[m].def = w[m].def
         /\ w[m].failed => w'[m].failed
         /\ w[m].pc = "conditions" /\ w'[m].pc = "status" => ~SpecChanged(w[m].before, w[m].ac)
  <1> DEFINE v == w[m]
             z == w'[m]
             s == ToSpec(v)
  <1>1. v \in Worker /\ MaxAttempts \in Nat
    BY ReplicasAssumption DEF Types
  <1>2. /\ s \in Worker /\ s.before = v.before /\ s.ac = v.ac /\ s.def = v.def
        /\ s.failed = v.failed /\ s.requeue = v.requeue
        /\ s.pc \in {"spec", "status"}
        /\ s.pc = "status" => ~SpecChanged(v.before, v.ac)
    BY <1>1, NextSpecPatch
  <1> DEFINE f == Fail(s)
             a == [v EXCEPT !.attempts = @ + 1]
             t == [v EXCEPT !.pc = "status"]
  <1>3. \/ /\ w' \in {[w EXCEPT ![m] = s], [w EXCEPT ![m] = f], [w EXCEPT ![m] = a]}
           /\ v.pc = "conditions"
        \/ w' = [w EXCEPT ![m] = t] /\ v.pc = "spec"
    <2>1. CASE PatchConditions(m)
      <3>1. \/ Become(m, Fail(ToSpec(w[m]))) \/ Become(m, ToSpec(w[m]))
            \/ Become(m, IF w[m].attempts + 1 < MaxAttempts
                         THEN [w[m] EXCEPT !.attempts = @ + 1] ELSE Fail(ToSpec(w[m])))
        BY <2>1 DEF PatchConditions
      <3>2. Become(m, f) \/ Become(m, s) \/ Become(m, a)
        BY <3>1
      <3>3. v.pc = "conditions"
        BY <2>1 DEF PatchConditions
      <3> HIDE DEF f, s, a, v
      <3> QED  BY <3>2, <3>3 DEF Become
    <2>2. CASE PatchSpec(m)
      BY <2>2 DEF PatchSpec, Become
    <2> QED  BY <2>1, <2>2
  <1> HIDE DEF s
  <1>4. /\ f \in Worker /\ f.before = v.before /\ f.ac = v.ac /\ f.def = v.def
        /\ f.failed /\ f.pc = s.pc /\ f.requeue = v.requeue
    BY <1>2 DEF Fail, Worker
  <1>5. /\ a \in Worker /\ a.before = v.before /\ a.ac = v.ac /\ a.def = v.def
        /\ a.failed = v.failed /\ a.pc = v.pc /\ a.requeue = v.requeue
    BY <1>1 DEF Worker
  <1>6. /\ t \in Worker /\ t.before = v.before /\ t.ac = v.ac /\ t.def = v.def
        /\ t.failed = v.failed /\ t.pc = "status" /\ t.requeue = v.requeue
    BY <1>1 DEF Worker, Steps
  <1> HIDE DEF f, a, t
  <1>7. /\ w' = [w EXCEPT ![m] = z]
        /\ \/ z \in {s, f, a} /\ v.pc = "conditions"
           \/ z = t /\ v.pc = "spec"
    BY <1>3 DEF Types
  <1> HIDE DEF v, z
  <1>8. /\ z \in Worker /\ z.before = v.before /\ z.ac = v.ac /\ z.def = v.def
        /\ z.requeue = v.requeue /\ (v.failed => z.failed)
        /\ z.pc \in Patching /\ v.pc \in Patching
        /\ v.pc = "conditions" /\ z.pc = "status" => ~SpecChanged(v.before, v.ac)
    BY <1>2, <1>4, <1>5, <1>6, <1>7 DEF Patching
  <1>9. Found(z)
    <2>1. Found(v)
      BY DEF v
    <2>2. CopyOf(z, z.before)
      BY <1>8, <2>1 DEF CopyOf, Found, Patching
    <2> QED  BY <1>8, <2>1, <2>2 DEF Found, Patching
  <1> QED  BY <1>7, <1>8, <1>9 DEF v, z

-----------------------------------------------------------------------------
(* A step, as one manager sees it.                                         *)

\* Nothing happens in the manager, nor reaches its queue or its caches.
Passive(n) ==
  /\ cache'[n] = cache[n] /\ cacheDef'[n] = cacheDef[n]
  /\ queued'[n] = queued[n] /\ delayed'[n] = delayed[n] /\ w'[n] = w[n]

\* What is stored changes only together with what there is to deliver.
Heard(n) ==
  \/ UNCHANGED store /\ events'[n] = events[n]
  \/ /\ store' \in AddonConfig
     /\ events'[n] = Append(events[n], store') /\ events'[n] # <<>>

HeardDef(n) ==
  \/ UNCHANGED def /\ defEvents'[n] = defEvents[n]
  \/ /\ def' \in Definition
     /\ defEvents'[n] = Append(defEvents[n], def') /\ defEvents'[n] # <<>>

Delivers(m) == DeliverConfig(m) \/ DeliverDefinition(m) \/ Timer(m)
Patches(m) == PatchConditions(m) \/ PatchSpec(m) \/ PatchStatus(m)

\* A report is heard by every manager that runs.
LEMMA ReportHeard ==
  ASSUME Reported, NEW n \in active
  PROVE  Heard(n)
  BY DEF Reported, Heard

\* A definition that is edited is announced to every manager that runs.
LEMMA DefinitionReported ==
  ASSUME Types, EditDefinition
  PROVE  /\ def' \in Definition /\ def'.exists
         /\ defEvents' \in [Managers -> Seq(Definition)]
         /\ \A m \in Managers \ active : defEvents'[m] = defEvents[m]
         /\ \A m \in active : defEvents'[m] = Append(defEvents[m], def') /\ defEvents'[m] # <<>>
  <1>1. PICK r \in DOMAIN Revision : /\ def' = [def EXCEPT !.revision = r]
                                     /\ defEvents' = Announce(defEvents, def')
    BY DEF EditDefinition
  <1>2. def' \in Definition /\ def'.exists
    BY <1>1 DEF Types, Definition, Revisions
  <1>3. defEvents' = [m \in Managers |-> IF m \in active THEN Append(defEvents[m], def')
                                                         ELSE defEvents[m]]
    BY <1>1 DEF Announce
  <1>4. \A m \in Managers : defEvents[m] \in Seq(Definition)
    BY DEF Types
  <1>5. \A m \in active : m \in Managers
    BY DEF Types
  <1>6. \A m \in active : defEvents'[m] = Append(defEvents[m], def')
    BY <1>3, <1>5
  <1>7. \A m \in active : defEvents'[m] # <<>>
    BY <1>2, <1>4, <1>5, <1>6, AppendProperties
  <1>8. \A m \in Managers : Append(defEvents[m], def') \in Seq(Definition)
    BY <1>2, <1>4, AppendProperties
  <1> QED  BY <1>2, <1>3, <1>4, <1>6, <1>7, <1>8

\* A step of the other managers, of the users or of none is nothing that
\* happens in this one.
LEMMA OthersStep ==
  ASSUME Types, NEW m \in Managers, NEW n \in active \ {m},
         \/ StartManager(m) \/ StopManager(m) \/ Delivers(m)
         \/ Start(m) \/ RenderAndSave(m) \/ Patches(m)
  PROVE  Passive(n) /\ Heard(n) /\ HeardDef(n)
  <1> USE DEF Passive, HeardDef, Types
  <1>1. CASE StartManager(m)
    BY <1>1 DEF StartManager, Heard
  <1>2. CASE StopManager(m)
    BY <1>2 DEF StopManager, Heard
  <1>3. CASE DeliverConfig(m)
    BY <1>3 DEF DeliverConfig, Heard
  <1>4. CASE DeliverDefinition(m)
    BY <1>4 DEF DeliverDefinition, Heard
  <1>5. CASE Timer(m)
    BY <1>5 DEF Timer, Heard
  <1>6. CASE Start(m)
    BY <1>6 DEF Start, Become, Heard
  <1>7. CASE RenderAndSave(m)
    BY <1>7 DEF RenderAndSave, Become, Heard
  <1>8. CASE Patches(m)
    <2>1. Heard(n)
      BY <1>8, PatchReports, ReportHeard DEF Patches
    <2>2. Passive(n) /\ HeardDef(n)
      BY <1>8 DEF Patches, PatchConditions, PatchSpec, PatchStatus, Become
    <2> QED  BY <2>1, <2>2
  <1> QED  BY <1>1, <1>2, <1>3, <1>4, <1>5, <1>6, <1>7, <1>8 DEF Delivers

\* What may happen in a manager that runs.
LEMMA ManagerStep ==
  ASSUME Types, [Next]_vars, NEW n \in active'
  PROVE  \/ n \notin active /\ StartManager(n)
         \/ n \in active /\ Delivers(n)
         \/ /\ n \in active /\ Heard(n) /\ HeardDef(n)
            /\ Passive(n) \/ Start(n) \/ RenderAndSave(n) \/ Patches(n)
  <1>1. CASE UNCHANGED vars
    BY <1>1 DEF vars, managed, Passive, Heard, HeardDef
  <1>2. CASE EditConfig
    <2>1. n \in active
      BY <1>2 DEF EditConfig
    <2>2. Passive(n) /\ HeardDef(n)
      BY <1>2 DEF EditConfig, Passive, HeardDef
    <2> QED  BY <1>2, <2>1, <2>2, EditReports, ReportHeard
  <1>3. CASE EditDefinition
    <2>1. n \in active
      BY <1>3 DEF EditDefinition
    <2>2. Passive(n) /\ Heard(n)
      BY <1>3 DEF EditDefinition, Passive, Heard
    <2> QED  BY <1>3, <2>1, <2>2, DefinitionReported DEF HeardDef
  <1>4. ASSUME NEW m \in Managers,
               \/ StartManager(m) \/ StopManager(m) \/ Delivers(m)
               \/ Start(m) \/ RenderAndSave(m) \/ Patches(m)
        PROVE  \/ n \notin active /\ StartManager(n)
               \/ n \in active /\ Delivers(n)
               \/ /\ n \in active /\ Heard(n) /\ HeardDef(n)
                  /\ Passive(n) \/ Start(n) \/ RenderAndSave(n) \/ Patches(n)
    <2>1. CASE n \in active /\ n # m
      BY <1>4, <2>1, OthersStep
    <2>2. CASE n = m /\ StartManager(m)
      BY <2>2 DEF StartManager
    <2>3. CASE ~StartManager(m)
      <3>1. n \in active
        BY <1>4, <2>3 DEF StopManager, Delivers, DeliverConfig, DeliverDefinition, Timer, Start,
             RenderAndSave, Patches, PatchConditions, PatchSpec, PatchStatus
      <3>2. ~(n = m /\ StopManager(m))
        BY DEF StopManager
      <3>3. CASE n = m /\ (Start(m) \/ RenderAndSave(m))
        BY <3>1, <3>3 DEF Start, RenderAndSave, Heard, HeardDef
      <3>4. CASE n = m /\ Patches(m)
        <4>1. Heard(n)
          BY <1>4, <3>1, <3>4, PatchReports, ReportHeard DEF Patches
        <4>2. HeardDef(n)
          BY <3>4 DEF Patches, PatchConditions, PatchSpec, PatchStatus, HeardDef
        <4> QED  BY <3>1, <3>4, <4>1, <4>2
      <3> QED  BY <1>4, <2>1, <2>3, <3>1, <3>2, <3>3, <3>4
    <2>4. CASE n \notin active
      BY <2>2, <2>3, <2>4 DEF StartManager, Types
    <2> QED  BY <2>1, <2>2, <2>3, <2>4
  <1> QED  BY <1>1, <1>2, <1>3, <1>4 DEF Next, Reconcile, Delivers, Patches

-----------------------------------------------------------------------------
(* What every step preserves.                                              *)

\* Types.
LEMMA TypesStep ==
  ASSUME DefinitionsComplete, Types, StoppedIdle, WorkersFound, [Next]_vars
  PROVE  Types'
  <1>1. CASE UNCHANGED vars
    BY <1>1 DEF vars, managed, Types
  <1>2. CASE EditConfig
    <2>1. store' \in AddonConfig /\ events' \in [Managers -> Seq(AddonConfig)]
      BY <1>2, EditReports DEF Reported
    <2> QED  BY <1>2, <2>1 DEF EditConfig, Types
  <1>3. CASE EditDefinition
    BY <1>3, DefinitionReported DEF EditDefinition, Types
  <1>4. ASSUME NEW m \in Managers, StartManager(m)
        PROVE  Types'
    BY <1>4 DEF StartManager, Types
  <1>5. ASSUME NEW m \in Managers, StopManager(m)
        PROVE  Types'
    <2>1. /\ NoAddonConfig \in AddonConfig /\ NoDefinition \in Definition /\ Idle \in Worker
          /\ <<>> \in Seq(AddonConfig) /\ <<>> \in Seq(Definition)
      BY EmptyObjectTypes, EmptySeq
    <2> QED  BY <1>5, <2>1 DEF StopManager, Types
  <1>6. ASSUME NEW m \in Managers, Delivers(m)
        PROVE  Types'
    <2>1. CASE DeliverConfig(m)
      <3>1. events[m] \in Seq(AddonConfig) /\ events[m] # <<>>
        BY <2>1 DEF DeliverConfig, Types
      <3>2. Head(events[m]) \in AddonConfig /\ Tail(events[m]) \in Seq(AddonConfig)
        BY <3>1, HeadTailProperties
      <3> QED  BY <2>1, <3>2 DEF DeliverConfig, Types
    <2>2. CASE DeliverDefinition(m)
      <3>1. defEvents[m] \in Seq(Definition) /\ defEvents[m] # <<>>
        BY <2>2 DEF DeliverDefinition, Types
      <3>2. Head(defEvents[m]) \in Definition /\ Tail(defEvents[m]) \in Seq(Definition)
        BY <3>1, HeadTailProperties
      <3> QED  BY <2>2, <3>2 DEF DeliverDefinition, Types
    <2>3. CASE Timer(m)
      BY <2>3 DEF Timer, Types
    <2> QED  BY <1>6, <2>1, <2>2, <2>3 DEF Delivers
  <1>7. ASSUME NEW m \in Managers, Start(m)
        PROVE  Types'
    <2>1. w' \in [Managers -> Worker]
      BY <1>7, StartStep DEF Types
    <2> QED  BY <1>7, <2>1 DEF Start, Types
  <1>8. ASSUME NEW m \in Managers, RenderAndSave(m)
        PROVE  Types'
    <2>1. m \in active
      BY <1>8 DEF RenderAndSave, StoppedIdle
    <2>2. Found(w[m])
      BY <2>1 DEF WorkersFound
    <2>3. w' \in [Managers -> Worker] /\ outputs' \in [Places -> Renderings]
      BY <1>8, <2>2, RenderStep DEF Types
    <2> QED  BY <1>8, <2>3 DEF RenderAndSave, Types
  <1>9. ASSUME NEW m \in Managers, Patches(m)
        PROVE  Types'
    <2>1. m \in active
      BY <1>9 DEF Patches, PatchConditions, PatchSpec, PatchStatus, StoppedIdle
    <2>2. Found(w[m])
      BY <2>1 DEF WorkersFound
    <2>3. store' \in AddonConfig /\ events' \in [Managers -> Seq(AddonConfig)]
      BY <1>9, PatchReports DEF Patches, Reported
    <2>4. CASE PatchConditions(m) \/ PatchSpec(m)
      <3>1. w' \in [Managers -> Worker]
        BY <2>2, <2>4, PatchStep DEF Types
      <3> QED  BY <2>3, <2>4, <3>1 DEF PatchConditions, PatchSpec, Types
    <2>5. CASE PatchStatus(m)
      <3>1. w' \in [Managers -> Worker]
        BY <2>5, EmptyObjectTypes DEF PatchStatus, Become, Types
      <3>2. delayed' \in [Managers -> BOOLEAN]
        <4>1. w[m].failed \in BOOLEAN /\ w[m].requeue \in BOOLEAN /\ delayed[m] \in BOOLEAN
          BY DEF Types, Worker
        <4> QED  BY <2>5, <4>1 DEF PatchStatus, Types
      <3> QED  BY <2>3, <2>5, <3>1, <3>2 DEF PatchStatus, Types
    <2> QED  BY <1>9, <2>4, <2>5 DEF Patches
  <1> QED  BY <1>1, <1>2, <1>3, <1>4, <1>5, <1>6, <1>7, <1>8, <1>9
           DEF Next, Reconcile, Delivers, Patches

\* At most one leader runs.
LEMMA OneLeaderStep ==
  ASSUME Types, OneLeader, [Next]_vars
  PROVE  OneLeader'
  <1>1. UNCHANGED <<elect, active>>
        \/ \E m \in Managers : StartManager(m) \/ StopManager(m)
    BY DEF Next, Reconcile, vars, EditConfig, EditDefinition, DeliverConfig, DeliverDefinition,
       Timer, Start, RenderAndSave, PatchConditions, PatchSpec, PatchStatus
  <1> QED  BY <1>1 DEF OneLeader, StartManager, StopManager

\* Nothing happens in a manager that does not run.
LEMMA StoppedIdleStep ==
  ASSUME Types, StoppedIdle, [Next]_vars
  PROVE  StoppedIdle'
  <1> SUFFICES ASSUME NEW n \in Managers \ active'
               PROVE  (w[n].pc = "idle" /\ Undisturbed(n) /\ ~delayed[n])'
    BY DEF StoppedIdle
  <1> USE DEF Undisturbed, Types
  <1>1. CASE n \in active
    <2>1. StopManager(n)
      BY <1>1 DEF Next, Reconcile, vars, EditConfig, EditDefinition, StartManager, StopManager,
         DeliverConfig, DeliverDefinition, Timer, Start, RenderAndSave, PatchConditions,
         PatchSpec, PatchStatus
    <2> QED  BY <2>1 DEF StopManager, Idle
  <1>2. CASE n \notin active
    <2>1. w[n].pc = "idle" /\ Undisturbed(n) /\ ~delayed[n]
      BY <1>2 DEF StoppedIdle
    <2>2. CASE UNCHANGED vars
      BY <2>1, <2>2 DEF vars, managed
    <2>3. CASE EditConfig
      <3>1. events'[n] = events[n]
        BY <1>2, <2>3, EditReports DEF Reported
      <3> QED  BY <2>1, <2>3, <3>1 DEF EditConfig
    <2>4. CASE EditDefinition
      <3>1. defEvents'[n] = defEvents[n]
        BY <1>2, <2>4, DefinitionReported
      <3> QED  BY <2>1, <2>4, <3>1 DEF EditDefinition
    <2>5. ASSUME NEW m \in Managers,
                 \/ StartManager(m) \/ StopManager(m) \/ Delivers(m)
                 \/ Start(m) \/ RenderAndSave(m)
          PROVE  (w[n].pc = "idle" /\ Undisturbed(n) /\ ~delayed[n])'
      <3>1. CASE StartManager(m)
        BY <2>1, <3>1 DEF StartManager
      <3>2. CASE StopManager(m)
        BY <2>1, <3>2 DEF StopManager, Idle
      <3>3. CASE Delivers(m)
        BY <2>1, <3>3 DEF Delivers, DeliverConfig, DeliverDefinition, Timer
      <3>4. CASE Start(m)
        BY <2>1, <3>4 DEF Start, Become
      <3>5. CASE RenderAndSave(m)
        <4>1. m # n
          BY <2>1, <3>5 DEF RenderAndSave
        <4> QED  BY <2>1, <3>5, <4>1 DEF RenderAndSave, Become
      <3> QED  BY <2>5, <3>1, <3>2, <3>3, <3>4, <3>5
    <2>6. ASSUME NEW m \in Managers, Patches(m)
          PROVE  (w[n].pc = "idle" /\ Undisturbed(n) /\ ~delayed[n])'
      <3>1. events'[n] = events[n]
        BY <1>2, <2>6, PatchReports DEF Patches, Reported
      <3>2. m # n
        BY <2>1, <2>6 DEF Patches, PatchConditions, PatchSpec, PatchStatus
      <3> QED  BY <2>1, <2>6, <3>1, <3>2
               DEF Patches, PatchConditions, PatchSpec, PatchStatus, Become
    <2> QED  BY <2>2, <2>3, <2>4, <2>5, <2>6 DEF Next, Reconcile, Delivers, Patches
  <1> QED  BY <1>1, <1>2

\* The informers follow what is stored.
LEMMA InformersFollowStep ==
  ASSUME Types, Types', StoppedIdle, InformersFollow, [Next]_vars
  PROVE  InformersFollow'
  <1> SUFFICES ASSUME NEW n \in active'
               PROVE  /\ Follows(cache'[n], events'[n], store')
                      /\ Follows(cacheDef'[n], defEvents'[n], def')
    BY DEF InformersFollow
  <1>1. n \in Managers /\ events[n] \in Seq(AddonConfig) /\ defEvents[n] \in Seq(Definition)
    BY DEF Types
  <1>2. CASE n \notin active /\ StartManager(n)
    <2>1. events[n] = <<>> /\ defEvents[n] = <<>>
      BY <1>1, <1>2 DEF StoppedIdle, Undisturbed
    <2> QED  BY <1>1, <1>2, <2>1 DEF StartManager, Follows, Types
  <1>3. CASE n \in active
    <2>1. Follows(cache[n], events[n], store) /\ Follows(cacheDef[n], defEvents[n], def)
      BY <1>3 DEF InformersFollow
    <2>2. CASE DeliverConfig(n)
      <3>1. Follows(Head(events[n]), Tail(events[n]), store)
        BY <1>1, <2>1, <2>2, FollowsStep DEF DeliverConfig
      <3> QED  BY <1>1, <2>1, <2>2, <3>1 DEF DeliverConfig, Types
    <2>3. CASE DeliverDefinition(n)
      <3>1. Follows(Head(defEvents[n]), Tail(defEvents[n]), def)
        BY <1>1, <2>1, <2>3, FollowsStep DEF DeliverDefinition
      <3> QED  BY <1>1, <2>1, <2>3, <3>1 DEF DeliverDefinition, Types
    <2>4. CASE Timer(n)
      BY <2>1, <2>4 DEF Timer
    <2>5. CASE Heard(n) /\ HeardDef(n) /\ cache'[n] = cache[n] /\ cacheDef'[n] = cacheDef[n]
      <3>1. Follows(cache[n], events'[n], store')
        BY <1>1, <2>1, <2>5, FollowsStep DEF Heard
      <3>2. Follows(cacheDef[n], defEvents'[n], def')
        BY <1>1, <2>1, <2>5, FollowsStep DEF HeardDef
      <3> QED  BY <2>5, <3>1, <3>2
    <2> QED  BY <1>3, <2>2, <2>3, <2>4, <2>5, ManagerStep
             DEF Delivers, Passive, Start, RenderAndSave, Patches, PatchConditions, PatchSpec,
                 PatchStatus
  <1> QED  BY <1>2, <1>3, ManagerStep

\* A worker whose request was not queued again reconciles what is cached.
LEMMA CopiesCurrentStep ==
  ASSUME DefinitionsComplete, Types, Types', StoppedIdle, WorkersFound, CopiesCurrent,
         [Next]_vars
  PROVE  CopiesCurrent'
  <1> SUFFICES ASSUME NEW n \in active', w'[n].pc # "idle", ~queued'[n]
               PROVE  w'[n].before = cache'[n] /\ w'[n].def = cacheDef'[n]
    BY DEF CopiesCurrent
  <1>1. n \in active /\ n \in Managers /\ ~Delivers(n)
    BY ManagerStep DEF Types, StartManager, Delivers, DeliverConfig, DeliverDefinition, Timer
  <1>2. w[n].pc # "idle" /\ ~queued[n] => w[n].before = cache[n] /\ w[n].def = cacheDef[n]
    BY <1>1 DEF CopiesCurrent
  <1>3. CASE Passive(n)
    BY <1>2, <1>3 DEF Passive
  <1>4. CASE Start(n)
    BY <1>1, <1>4, StartStep DEF Start
  <1>5. CASE RenderAndSave(n)
    <2>1. Found(w[n])
      BY <1>1 DEF WorkersFound
    <2> QED  BY <1>1, <1>2, <1>5, <2>1, RenderStep DEF RenderAndSave
  <1>6. CASE PatchConditions(n) \/ PatchSpec(n)
    <2>1. Found(w[n])
      BY <1>1 DEF WorkersFound
    <2>2. /\ w[n].pc # "idle" /\ queued'[n] = queued[n]
          /\ cache'[n] = cache[n] /\ cacheDef'[n] = cacheDef[n]
      BY <1>6 DEF PatchConditions, PatchSpec
    <2> QED  BY <1>1, <1>2, <1>6, <2>1, <2>2, PatchStep
  <1>7. ~PatchStatus(n)
    BY <1>1 DEF PatchStatus, Become, Idle, Types
  <1> QED  BY <1>1, <1>3, <1>4, <1>5, <1>6, <1>7, ManagerStep DEF Patches

\* What the workers have found out is kept until they are done.
LEMMA WorkersFoundStep ==
  ASSUME DefinitionsComplete, Types, Types', StoppedIdle, WorkersFound, [Next]_vars
  PROVE  WorkersFound'
  <1> SUFFICES ASSUME NEW n \in active'
               PROVE  Found(w'[n])
    BY DEF WorkersFound
  <1>1. CASE n \notin active /\ StartManager(n)
    <2>1. w[n].pc = "idle"
      BY <1>1 DEF StoppedIdle, StartManager, Types
    <2> QED  BY <1>1, <2>1 DEF StartManager, Found, Patching
  <1>2. CASE n \in active
    <2>1. Found(w[n]) /\ n \in Managers
      BY <1>2 DEF WorkersFound, Types
    <2>2. CASE Delivers(n) \/ Passive(n)
      BY <2>1, <2>2 DEF Passive, Delivers, DeliverConfig, DeliverDefinition, Timer
    <2>3. CASE Start(n)
      BY <2>1, <2>3, StartStep
    <2>4. CASE RenderAndSave(n)
      BY <2>1, <2>4, RenderStep
    <2>5. CASE PatchConditions(n) \/ PatchSpec(n)
      BY <2>1, <2>5, PatchStep
    <2>6. CASE PatchStatus(n)
      <3>1. w'[n].pc = "idle"
        BY <2>1, <2>6 DEF PatchStatus, Become, Idle, Types
      <3> QED  BY <3>1 DEF Found, Patching
    <2> QED  BY <1>2, <2>2, <2>3, <2>4, <2>5, <2>6, ManagerStep DEF Patches
  <1> QED  BY <1>1, <1>2, ManagerStep

\* Who is undisturbed after a step was before it, or has taken its request
\* up; and nothing that is stored has changed.
LEMMA UndisturbedStep ==
  ASSUME Types, Types', [Next]_vars, NEW n \in active', Undisturbed(n)'
  PROVE  /\ n \in active /\ n \in Managers
         /\ UNCHANGED <<store, def>> /\ cache'[n] = cache[n] /\ cacheDef'[n] = cacheDef[n]
         /\ \/ Start(n)
            \/ Undisturbed(n) /\ w'[n] = w[n] /\ delayed'[n] = delayed[n]
            \/ Undisturbed(n) /\ (RenderAndSave(n) \/ Patches(n))
  <1>1. /\ n \in active /\ n \in Managers /\ Heard(n) /\ HeardDef(n)
        /\ Passive(n) \/ Start(n) \/ RenderAndSave(n) \/ Patches(n)
    BY ManagerStep DEF Types, StartManager, Delivers, DeliverConfig, DeliverDefinition, Timer,
       Undisturbed
  <1>2. /\ UNCHANGED <<store, def>>
        /\ events'[n] = events[n] /\ defEvents'[n] = defEvents[n]
    BY <1>1 DEF Heard, HeardDef, Undisturbed
  <1>3. CASE Passive(n)
    BY <1>1, <1>2, <1>3 DEF Passive, Undisturbed
  <1>4. CASE Start(n)
    BY <1>1, <1>2, <1>4 DEF Start
  <1>5. CASE RenderAndSave(n)
    BY <1>1, <1>2, <1>5 DEF RenderAndSave, Undisturbed
  <1>6. CASE Patches(n)
    BY <1>1, <1>2, <1>6 DEF Patches, PatchConditions, PatchSpec, PatchStatus, Undisturbed
  <1> QED  BY <1>1, <1>3, <1>4, <1>5, <1>6

\* An undisturbed worker reconciles what is stored.
LEMMA CopiesStored ==
  ASSUME Types, InformersFollow, CopiesCurrent, NEW n \in active, Undisturbed(n)
  PROVE  /\ cache[n] = store /\ cacheDef[n] = def
         /\ w[n].pc # "idle" => w[n].before = store /\ w[n].def = def
  BY DEF InformersFollow, CopiesCurrent, Undisturbed, Follows

\* The objects a patch is made of.
LEMMA WorkerObjects ==
  ASSUME Types, NEW n \in Managers
  PROVE  /\ store \in AddonConfig /\ w[n].before \in AddonConfig /\ w[n].ac \in AddonConfig
         /\ cache[n] \in AddonConfig
  BY DEF Types, Worker

\* A patch that is sent and changes nothing found what it sends; and so did
\* one that is not sent.
LEMMA PatchesStoredStep ==
  ASSUME DefinitionsComplete, Types, Types', InformersFollow, CopiesCurrent, WorkersFound,
         PatchesStored, [Next]_vars
  PROVE  PatchesStored'
  <1> DEFINE Stored(o, x) ==
        /\ x.pc \in {"spec", "status"} /\ ~x.failed =>
             \A t \in ConditionTypes : SameState(o.conditions[t], x.ac.conditions[t])
        /\ x.pc = "status" => o.spec = x.ac.spec
  <1> SUFFICES ASSUME NEW n \in active', Undisturbed(n)'
               PROVE  Stored(store', w'[n])
    BY DEF PatchesStored
  <1>1. n \in active /\ n \in Managers /\ store' = store
    BY UndisturbedStep
  <1>2. SUFFICES Stored(store, w'[n])
    BY <1>1
  <1>3. CASE Start(n)
    BY <1>1, <1>3, StartStep
  <1>4. CASE Undisturbed(n) /\ w'[n] = w[n]
    BY <1>1, <1>4 DEF PatchesStored
  <1>5. ASSUME Undisturbed(n), RenderAndSave(n)
        PROVE  Stored(store, w'[n])
    <2>1. Found(w[n]) /\ w[n].before = store
      BY <1>1, <1>5, CopiesStored DEF WorkersFound, RenderAndSave
    <2>2. /\ w'[n].pc \in {"spec", "status"} => ~ConditionsChanged(store, w'[n].ac)
          /\ w'[n].pc = "status" => ~SpecChanged(store, w'[n].ac)
          /\ w'[n].ac \in AddonConfig
      BY <1>1, <1>5, <2>1, RenderStep DEF Worker
    <2>3. ASSUME ~ConditionsChanged(store, w'[n].ac), NEW t \in ConditionTypes
          PROVE  SameState(store.conditions[t], w'[n].ac.conditions[t])
      <3>1. DOMAIN w'[n].ac.conditions = ConditionTypes
        BY <2>2 DEF AddonConfig, ConditionList
      <3> QED  BY <2>3, <3>1 DEF ConditionsChanged, NewPatch, SameState
    <2> QED  BY <2>2, <2>3 DEF SpecChanged
  <1>6. ASSUME Undisturbed(n), PatchConditions(n)
        PROVE  Stored(store, w'[n])
    <2>1. /\ Found(w[n]) /\ w[n].before = store /\ cache[n] = store
          /\ w[n].pc = "conditions"
      BY <1>1, <1>6, CopiesStored DEF WorkersFound, PatchConditions
    <2>2. /\ w'[n].ac = w[n].ac
          /\ w'[n].pc = "status" => ~SpecChanged(store, w[n].ac)
      BY <1>1, <1>6, <2>1, PatchStep
    <2>3. \/ w'[n].failed \/ w'[n].pc = "conditions"
          \/ Write(PatchedConditions(w[n].before, w[n].ac, cache[n], store, Now))
      <3>1. CASE w'[n] = Fail(ToSpec(w[n]))
        <4>1. ToSpec(w[n]) \in Worker
          BY <1>1, NextSpecPatch DEF Types
        <4> QED  BY <3>1, <4>1 DEF Fail, Worker
      <3>2. CASE w'[n] = [w[n] EXCEPT !.attempts = @ + 1]
        BY <1>1, <2>1, <3>2 DEF Types, Worker
      <3> QED  BY <1>1, <1>6, <3>1, <3>2 DEF PatchConditions, Become, Types
    <2>4. ASSUME Write(PatchedConditions(w[n].before, w[n].ac, cache[n], store, Now)),
                 NEW t \in ConditionTypes
          PROVE  SameState(store.conditions[t], w[n].ac.conditions[t])
      <3> DEFINE p == PatchedConditions(store, w[n].ac, store, store, Now)
      <3>1. p \in AddonConfig
        BY <1>1, WorkerObjects, PatchedTypes
      <3>2. store = Unnumbered(p)
        BY <1>1, <2>1, <2>4 DEF Write
      <3>3. p.conditions = store.conditions
        BY <3>1, <3>2, UnnumberedType
      <3> QED  BY <1>1, <3>3, WorkerObjects, ConditionsPatched
    <2> QED  BY <2>2, <2>3, <2>4 DEF SpecChanged
  <1>7. ASSUME Undisturbed(n), PatchSpec(n)
        PROVE  Stored(store, w'[n])
    <2>1. Found(w[n]) /\ w[n].before = store /\ w[n].pc = "spec"
      BY <1>1, <1>7, CopiesStored DEF WorkersFound, PatchSpec
    <2>2. w'[n].ac = w[n].ac /\ (w[n].failed => w'[n].failed)
      BY <1>1, <1>7, <2>1, PatchStep
    <2>3. store.spec = w[n].ac.spec
      <3> DEFINE p == PatchedSpec(store, w[n].ac, store)
      <3>1. p \in AddonConfig
        BY <1>1, WorkerObjects, PatchedTypes
      <3>2. store = Unnumbered(p)
        BY <1>1, <1>7, <2>1 DEF PatchSpec, Write
      <3>3. p.spec = store.spec
        BY <3>1, <3>2, UnnumberedType
      <3> QED  BY <1>1, <3>3, WorkerObjects, SpecPatched
    <2> QED  BY <1>1, <1>7, <2>1, <2>2, <2>3 DEF PatchesStored
  <1>8. CASE PatchStatus(n)
    BY <1>1, <1>8 DEF PatchStatus, Become, Idle, Types
  <1> QED  BY <1>3, <1>4, <1>5, <1>6, <1>7, <1>8, UndisturbedStep DEF Patches

\* A sound object stored is still one after its conditions were merged: the
\* times of transitions may differ.
LEMMA SoundStored ==
  ASSUME NEW o \in AddonConfig, NEW a \in AddonConfig, NEW d, Sound(a, d),
         o.spec = a.spec, o.status = a.status, o.generation = a.generation,
         \A t \in ConditionTypes : SameState(o.conditions[t], a.conditions[t])
  PROVE  Sound(o, d)
  <1>1. {"ValidConfig", "Ready"} \subseteq ConditionTypes /\ InScopeTypes \subseteq ConditionTypes
    BY DEF ConditionTypes, OwnedTypes, InScopeTypes, InScope
  <1>2. o.conditions \in ConditionList /\ a.conditions \in ConditionList
    BY DEF AddonConfig
  <1>3. Summary(o.conditions, InScope) = Summary(a.conditions, InScope)
    BY <1>1, <1>2, SummaryOfStates
  <1>4. /\ o.conditions["ValidConfig"].status = a.conditions["ValidConfig"].status
        /\ SameState(o.conditions["Ready"], a.conditions["Ready"])
    BY <1>1 DEF SameState
  <1> QED  BY <1>3, <1>4 DEF Sound, Valid, ReadyIsSummaryOf, SameState

\* A manager that comes to rest leaves what it has found stored.
LEMMA RestSoundStep ==
  ASSUME DefinitionsComplete, Types, Types', InformersFollow, CopiesCurrent, WorkersFound,
         PatchesStored, RestSound, [Next]_vars
  PROVE  RestSound'
  <1> SUFFICES ASSUME NEW n \in active', w'[n].pc = "idle", Undisturbed(n)', ~delayed'[n]
               PROVE  Sound(store', cacheDef'[n])
    BY DEF RestSound
  <1>1. n \in active /\ n \in Managers /\ store' = store /\ cacheDef'[n] = cacheDef[n]
    BY UndisturbedStep
  <1>2. ~Start(n)
    BY <1>1, StartStep
  <1>3. CASE Undisturbed(n) /\ w'[n] = w[n] /\ delayed'[n] = delayed[n]
    BY <1>1, <1>3 DEF RestSound
  <1>4. ASSUME Undisturbed(n), PatchStatus(n)
        PROVE  Sound(store, cacheDef[n])
    <2>1. /\ w[n].pc = "status" /\ Found(w[n])
          /\ w[n].before = store /\ w[n].def = cacheDef[n]
      BY <1>1, <1>4, CopiesStored DEF WorkersFound, PatchStatus
    <2>2. ~w[n].failed /\ ~w[n].requeue
      BY <1>1, <1>4 DEF PatchStatus, Types
    <2>3. Sound(w[n].ac, cacheDef[n]) /\ CopyOf(w[n], store)
      BY <2>1, <2>2 DEF Found, Patching
    <2>4. /\ store.spec = w[n].ac.spec
          /\ \A t \in ConditionTypes : SameState(store.conditions[t], w[n].ac.conditions[t])
      BY <1>1, <1>4, <2>1, <2>2 DEF PatchesStored
    <2>5. store.status = w[n].ac.status
      <3> DEFINE p == PatchedStatus(store, w[n].ac, store)
      <3>1. CASE ~StatusChanged(store, w[n].ac)
        BY <3>1 DEF StatusChanged
      <3>2. CASE StatusChanged(store, w[n].ac)
        <4>1. p \in AddonConfig
          BY <1>1, WorkerObjects, PatchedTypes
        <4>2. store = Unnumbered(p)
          BY <1>1, <1>4, <2>1, <3>2 DEF PatchStatus, Write
        <4>3. p.status = store.status
          BY <4>1, <4>2, UnnumberedType
        <4> QED  BY <1>1, <4>3, WorkerObjects, StatusPatched
      <3> QED  BY <3>1, <3>2
    <2>6. store.generation = w[n].ac.generation
      BY <2>3 DEF CopyOf
    <2> QED  BY <1>1, <2>3, <2>4, <2>5, <2>6, WorkerObjects, SoundStored
  <1>5. ASSUME Undisturbed(n), RenderAndSave(n) \/ PatchConditions(n) \/ PatchSpec(n)
        PROVE  FALSE
    <2>1. Found(w[n])
      BY <1>1 DEF WorkersFound
    <2>2. w'[n].pc \in Patching
      BY <1>1, <1>5, <2>1, RenderStep, PatchStep
    <2> QED  BY <2>2 DEF Patching
  <1> QED  BY <1>1, <1>2, <1>3, <1>4, <1>5, UndisturbedStep DEF Patches

\* Who is not going to render after a step was not before it either, or has
\* just rendered.
LEMMA RenderedStep ==
  ASSUME DefinitionsComplete, Types, Types', InformersFollow, CopiesCurrent, WorkersFound,
         PatchesStored, [Next]_vars, NEW n \in active', Rendered(n)'
  PROVE  /\ n \in active /\ n \in Managers /\ UNCHANGED <<store, def>>
         /\ Rendered(n) \/ (Undisturbed(n) /\ RenderAndSave(n))
  <1>1. /\ Undisturbed(n)' /\ ~delayed'[n] /\ w'[n].pc # "template"
        /\ w'[n].pc # "idle" => ~w'[n].failed /\ ~SpecChanged(w'[n].before, w'[n].ac)
    BY DEF Rendered
  <1>2. n \in active /\ n \in Managers /\ UNCHANGED <<store, def>>
    BY <1>1, UndisturbedStep
  <1>3. ~Start(n)
    BY <1>1, <1>2, StartStep
  <1>4. CASE Undisturbed(n) /\ w'[n] = w[n] /\ delayed'[n] = delayed[n]
    BY <1>1, <1>2, <1>4 DEF Rendered
  <1>5. Found(w[n])
    BY <1>2 DEF WorkersFound
  <1>6. ASSUME Undisturbed(n), PatchConditions(n) \/ PatchSpec(n)
        PROVE  Rendered(n)
    <2>1. /\ w'[n].pc \in Patching /\ w'[n].before = w[n].before /\ w'[n].ac = w[n].ac
          /\ w[n].failed => w'[n].failed
      BY <1>2, <1>5, <1>6, PatchStep
    <2>2. ~delayed[n] /\ w[n].pc # "template"
      BY <1>1, <1>6 DEF PatchConditions, PatchSpec
    <2> QED  BY <1>1, <1>6, <2>1, <2>2 DEF Rendered, Patching
  <1>7. ASSUME Undisturbed(n), PatchStatus(n)
        PROVE  Rendered(n)
    <2>1. w[n].pc = "status" /\ ~delayed[n] /\ ~w[n].failed
      BY <1>1, <1>2, <1>7 DEF PatchStatus, Types
    <2>2. w[n].before = store /\ store.spec = w[n].ac.spec
      BY <1>2, <1>7, <2>1, CopiesStored DEF PatchesStored
    <2> QED  BY <1>7, <2>1, <2>2 DEF Rendered, SpecChanged
  <1> QED  BY <1>1, <1>2, <1>3, <1>4, <1>6, <1>7, UndisturbedStep DEF Patches

\* A worker that renders what is stored and is told of no error leaves the
\* right output.
LEMMA RenderingCurrent ==
  ASSUME DefinitionsComplete, Types, Types', InformersFollow, CopiesCurrent, WorkersFound,
         NEW m \in active, Undisturbed(m), RenderAndSave(m), Rendered(m)',
         SpecOf(def).template = "good", SpecOf(def).output \in Outputs
  PROVE  outputs'[Place(SpecOf(def).output)] =
           [revision |-> def.revision, values |-> store.spec.values]
  <1>1. /\ m \in Managers /\ Found(w[m]) /\ w[m] \in Worker /\ w[m].pc = "template"
        /\ w[m].before = store /\ w[m].def = def
    BY CopiesStored DEF Types, WorkersFound, RenderAndSave
  <1> DEFINE x == reconcileTemplate(w[m])
  <1>2. /\ w'[m].pc \in Patching /\ w'[m].before = store
        /\ x.failed => w'[m].failed
        /\ x.ac.spec = w'[m].ac.spec
        /\ outputs' = Persisted(x, outputs)
    BY <1>1, RenderStep
  <1>3. x.def = def
    BY <1>1, TemplateKeeps DEF KeepsCopy, Keeps
  <1>4. ~x.failed => Resolvable(x, SpecOf(x.def).needs)
    BY <1>1, <1>3, TemplateFinds
  <1> HIDE DEF x
  <1>5. ~x.failed /\ x.ac.spec = store.spec
    BY <1>2 DEF Rendered, Patching, SpecChanged
  <1>6. Resolvable(x, SpecOf(def).needs) /\ Resolvable(x, SpecOf(def).outputNeeds)
    <2>1. SpecOf(def).outputNeeds \subseteq SpecOf(def).needs
      BY DEF DefinitionsComplete, SpecOf, EmptySpec
    <2> QED  BY <1>3, <1>4, <1>5, <2>1 DEF Resolvable
  <1>7. outputs' = [outputs EXCEPT ![Place(SpecOf(def).output)] = RenderedTemplate(x)]
    BY <1>2, <1>3, <1>5, <1>6 DEF Persisted, Savable
  <1>8. RenderedTemplate(x) = [revision |-> def.revision, values |-> store.spec.values]
    BY <1>3, <1>5, <1>6 DEF RenderedTemplate
  <1>9. Place(SpecOf(def).output) \in Places
    BY DEF Place, Places
  <1> QED  BY <1>7, <1>8, <1>9 DEF Types

\* Whoever renders last does it from what is stored.
LEMMA OutputCurrentStep ==
  ASSUME DefinitionsComplete, Types, Types', OneLeader, StoppedIdle, InformersFollow, CopiesCurrent,
         WorkersFound, PatchesStored, OutputCurrent, [Next]_vars
  PROVE  OutputCurrent'
  <1> SUFFICES ASSUME Attended', \A m \in active' : Rendered(m)',
                      SpecOf(def').template = "good", SpecOf(def').output \in Outputs
               PROVE  outputs'[Place(SpecOf(def').output)] =
                        [revision |-> def'.revision, values |-> store'.spec.values]
    BY DEF OutputCurrent
  <1>1. \A n \in active' : /\ n \in active /\ UNCHANGED <<store, def>>
                           /\ Rendered(n) \/ (Undisturbed(n) /\ RenderAndSave(n))
    BY RenderedStep
  <1>2. active' # {}
    BY ReplicasAssumption DEF Attended
  <1>3. UNCHANGED <<store, def>>
    BY <1>1, <1>2
  <1>4. elect' = elect /\ active' = active
    <2>1. elect' = elect
      BY DEF Next, Reconcile, vars, EditConfig, EditDefinition, StartManager, StopManager,
         DeliverConfig, DeliverDefinition, Timer, Start, RenderAndSave, PatchConditions,
         PatchSpec, PatchStatus
    <2>2. active' \subseteq active
      BY <1>1
    <2>3. CASE ~elect
      BY <2>1, <2>2, <2>3 DEF Types, Attended
    <2>4. CASE elect
      BY <1>2, <2>2, <2>4 DEF OneLeader
    <2> QED  BY <2>1, <2>3, <2>4
  <1>5. CASE \E m \in active : Undisturbed(m) /\ RenderAndSave(m)
    <2>1. PICK m \in active : Undisturbed(m) /\ RenderAndSave(m)
      BY <1>5
    <2>2. Rendered(m)'
      BY <1>4
    <2> QED  BY <1>3, <2>1, <2>2, RenderingCurrent
  <1>6. CASE ~\E m \in active : Undisturbed(m) /\ RenderAndSave(m)
    <2>1. \A m \in active : Rendered(m)
      BY <1>1, <1>4, <1>6
    <2>2. outputs[Place(SpecOf(def).output)] =
            [revision |-> def.revision, values |-> store.spec.values]
      BY <1>3, <1>4, <2>1 DEF OutputCurrent, Attended
    <2>3. \A m \in Managers : ~RenderAndSave(m)
      <3> SUFFICES ASSUME NEW m \in Managers, RenderAndSave(m)
                   PROVE  FALSE
        OBVIOUS
      <3>1. CASE m \in active
        <4>1. Rendered(m)
          BY <2>1, <3>1
        <4> QED  BY <4>1 DEF Rendered, RenderAndSave
      <3>2. CASE m \notin active
        BY <3>2 DEF StoppedIdle, RenderAndSave
      <3> QED  BY <3>1, <3>2
    <2>4. outputs' = outputs
      BY <2>3 DEF Next, Reconcile, vars, EditConfig, EditDefinition, StartManager, StopManager,
         DeliverConfig, DeliverDefinition, Timer, Start, PatchConditions, PatchSpec, PatchStatus
    <2> QED  BY <1>3, <2>2, <2>4
  <1> QED  BY <1>5, <1>6

-----------------------------------------------------------------------------
(* The invariant.                                                          *)

\* What an earlier manager left is an AddonConfig.
LEMMA ReconciledType ==
  ASSUME NEW o \in AddonConfig, NEW r \in Reconciled(o)
  PROVE  r \in AddonConfig
  <1>1. PICK x \in UNION {Saves(reconcileTemplate(y)) : y \in Phased(o, InitialDefinition)} :
          r = PatchedStatus(o, x.ac, PatchedSpec(o, x.ac, PatchedConditions(o, x.ac, o, o, Now)))
    BY DEF Reconciled
  <1>2. PICK y \in Phased(o, InitialDefinition) : x \in Saves(reconcileTemplate(y))
    BY <1>1
  <1>3. InitialDefinition \in Definition
    BY ReplicasAssumption DEF InitialDefinition, Definition, Revisions
  <1>4. y \in Worker
    BY <1>2, <1>3, PhasedFinds
  <1>5. x \in Worker
    <2>1. reconcileTemplate(y) \in Worker
      BY <1>4, TemplateType
    <2>2. saveRenderedTemplate(reconcileTemplate(y)) \in Worker
      BY <2>1, SaveType
    <2>3. PICK z \in {reconcileTemplate(y), saveRenderedTemplate(reconcileTemplate(y))} :
            x = Summarise(z)
      BY <1>2 DEF Saves
    <2> QED  BY <2>1, <2>2, <2>3, SummariseType
  <1>6. x.ac \in AddonConfig
    BY <1>5 DEF Worker
  <1> DEFINE c == PatchedConditions(o, x.ac, o, o, Now)
             s == PatchedSpec(o, x.ac, c)
  <1>7. c \in AddonConfig
    BY <1>6, PatchedTypes
  <1> HIDE DEF c
  <1>8. s \in AddonConfig
    BY <1>6, <1>7, PatchedTypes
  <1> HIDE DEF s
  <1>9. r = PatchedStatus(o, x.ac, s)
    BY <1>1 DEF c, s
  <1> QED  BY <1>6, <1>8, <1>9, PatchedTypes

\* The managers that have just started reconcile first.
LEMMA InitReplicas ==
  ASSUME Init
  PROVE  ReplicasInv
  <1>1. PICK o \in Reconciled(Created(NoAddonConfig, InitialSpec)) : store = Unnumbered(o)
    BY DEF Init
  <1>2. store \in AddonConfig
    <2>1. InitialSpec \in AddonConfigSpec
      BY ReplicasAssumption
    <2>2. Created(NoAddonConfig, InitialSpec) \in AddonConfig
      BY <2>1, EmptyObjectTypes, CreatedDeletedType
    <2> QED  BY <1>1, <2>2, ReconciledType, UnnumberedType
  <1>3. def = InitialDefinition /\ def \in Definition /\ def.exists
    BY ReplicasAssumption DEF Init, InitialDefinition, Definition, Revisions
  <1>4. outputs \in [Places -> Renderings]
    <2>1. Nothing \in Renderings
      BY DEF Nothing, Renderings, Revisions, Values
    <2> QED  BY <2>1 DEF Init
  <1>5. /\ elect \in BOOLEAN /\ active \subseteq Managers /\ active # {} /\ OneLeader
        /\ \A m \in Managers : queued[m] <=> m \in active
    BY ReplicasAssumption DEF Init, OneLeader
  <1>6. /\ \A m \in Managers : /\ w[m] = Idle /\ ~delayed[m]
                              /\ events[m] = <<>> /\ defEvents[m] = <<>>
                              /\ cache[m] = store /\ cacheDef[m] = def
    BY DEF Init
  <1>7. Types
    <2>1. Idle \in Worker /\ <<>> \in Seq(AddonConfig) /\ <<>> \in Seq(Definition)
      BY EmptyObjectTypes, EmptySeq
    <2>2. queued \in [Managers -> BOOLEAN]
      BY DEF Init
    <2>3. delayed \in [Managers -> BOOLEAN]
      BY DEF Init
    <2>4. /\ cache \in [Managers -> AddonConfig] /\ cacheDef \in [Managers -> Definition]
          /\ events \in [Managers -> Seq(AddonConfig)]
          /\ defEvents \in [Managers -> Seq(Definition)]
      BY <1>2, <1>3, <2>1 DEF Init
    <2>5. w \in [Managers -> Worker]
      BY <2>1 DEF Init
    <2> QED  BY <1>2, <1>3, <1>4, <1>5, <2>2, <2>3, <2>4, <2>5 DEF Types
  <1>8. \A m \in active : w[m].pc = "idle" /\ ~Undisturbed(m)
    BY <1>5, <1>6 DEF Undisturbed, Idle
  <1>9. StoppedIdle
    BY <1>5, <1>6 DEF StoppedIdle, Undisturbed, Idle
  <1>10. InformersFollow
    BY <1>5, <1>6 DEF InformersFollow, Follows
  <1>11. CopiesCurrent /\ WorkersFound /\ PatchesStored /\ RestSound
    BY <1>8 DEF CopiesCurrent, WorkersFound, Found, Patching, PatchesStored, RestSound
  <1>12. OutputCurrent
    BY <1>5, <1>8 DEF OutputCurrent, Rendered
  <1> QED  BY <1>5, <1>7, <1>9, <1>10, <1>11, <1>12 DEF ReplicasInv

\* The invariant is inductive.
LEMMA ReplicasInvStep ==
  ASSUME DefinitionsComplete, ReplicasInv, [Next]_vars
  PROVE  ReplicasInv'
  <1>1. Types'
    BY TypesStep DEF ReplicasInv
  <1>2. OneLeader' /\ StoppedIdle'
    BY OneLeaderStep, StoppedIdleStep DEF ReplicasInv
  <1>3. InformersFollow'
    BY <1>1, InformersFollowStep DEF ReplicasInv
  <1>4. CopiesCurrent' /\ WorkersFound'
    BY <1>1, CopiesCurrentStep, WorkersFoundStep DEF ReplicasInv
  <1>5. PatchesStored' /\ RestSound'
    BY <1>1, PatchesStoredStep, RestSoundStep DEF ReplicasInv
  <1>6. OutputCurrent'
    BY <1>1, OutputCurrentStep DEF ReplicasInv
  <1> QED  BY <1>1, <1>2, <1>3, <1>4, <1>5, <1>6 DEF ReplicasInv

\* The invariant implies that the replicas agree.
LEMMA InvAgree ==
  ASSUME ReplicasInv
  PROVE  ReplicasAgree
  <1> SUFFICES ASSUME AtRest, elect \/ active = Managers
               PROVE  Current
    BY DEF ReplicasAgree
  <1>1. Attended
    BY DEF Attended, AtRest
  <1>2. \A m \in active : w[m].pc = "idle" /\ Undisturbed(m) /\ ~delayed[m]
    BY DEF AtRest, Undisturbed
  <1>3. \A m \in active : Rendered(m)
    BY <1>2 DEF Rendered
  <1>4. Sound(store, def)
    <2>1. PICK m \in active : TRUE
      BY DEF AtRest
    <2>2. Sound(store, cacheDef[m])
      BY <1>2 DEF ReplicasInv, RestSound
    <2>3. cacheDef[m] = def
      BY <1>2, CopiesStored DEF ReplicasInv
    <2> QED  BY <2>2, <2>3
  <1>5. /\ store.status.observedGeneration = store.generation
        /\ ReadyIsSummaryOf(store.conditions)
        /\ store.conditions["ValidConfig"].status = "True"
        /\ store.spec.values \in SpecOf(def).accepts
        /\ store.status.fieldErrors = {} /\ store.status.observedSchemaUID = def.uid
        /\ store.status.outputRef = {SpecOf(def).output}
    BY <1>4 DEF Sound, Valid, SchemaUID, ReplicasInv, Types
  <1>6. store.conditions["Ready"].status = "True" =>
          outputs[Place(SpecOf(def).output)] =
            [revision |-> def.revision, values |-> store.spec.values]
    BY <1>1, <1>3, <1>4 DEF Sound, ReplicasInv, OutputCurrent
  <1> QED  BY <1>5, <1>6 DEF Current

\* With or without leader election, however the processes and the users
\* interleave: when the managers that run have nothing left to do, and none
\* ended that nobody took over from, the status describes the present spec
\* and definition, with its uid, the field errors and the ValidConfig and
\* Ready conditions that they call for; and outputRef names, for a Ready
\* AddonConfig, the definition's output, which holds its present rendering.
THEOREM ReplicasAgreeSafe ==
  ASSUME DefinitionsComplete
  PROVE  Spec => []ReplicasAgree
  <1>1. Init => ReplicasInv
    BY InitReplicas
  <1>2. ReplicasInv /\ [Next]_vars => ReplicasInv'
    BY ReplicasInvStep
  <1>3. ReplicasInv => ReplicasAgree
    BY InvAgree
  <1> QED  BY <1>1, <1>2, <1>3, PTL DEF Spec
=============================================================================
