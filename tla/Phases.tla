------------------------------- MODULE Phases -------------------------------
(***************************************************************************)
(* The phases of one reconciliation:                                       *)
(* controllers/addonconfig_controller_phases.go.  A phase is a function    *)
(* from the context of the reconciliation (addonConfigContext and what     *)
(* reconcile() accumulates) to the context it leaves:                      *)
(*   pc       the step that comes next, "idle" if none is under way        *)
(*   before   the AddonConfig as it was read                               *)
(*   ac       the working copy of the AddonConfig                          *)
(*   def      the definition that was read, NoDefinition if none was found *)
(*   vars     the template variables that have a value                     *)
(*   dep      the position of the next dependency to resolve               *)
(*   failed   some phase returned an error                                 *)
(*   requeue  some phase asked to be run again after 30 seconds            *)
(*   attempts the failed attempts to patch the conditions                  *)
(***************************************************************************)
EXTENDS PatchHelper, Integers

Steps == {"idle", "definition", "target", "dependencies", "template",
          "conditions", "spec", "status"}

Worker ==
  [pc : Steps, before : AddonConfig, ac : AddonConfig, def : Definition,
   vars : SUBSET Variables, dep : Nat \ {0}, failed : BOOLEAN, requeue : BOOLEAN, attempts : Nat]

Idle ==
  [pc |-> "idle", before |-> NoAddonConfig, ac |-> NoAddonConfig, def |-> NoDefinition,
   vars |-> {}, dep |-> 1, failed |-> FALSE, requeue |-> FALSE, attempts |-> 0]

\* Every step of the model happens within the same second.
Now == 1

MarkTrue(x, type) ==
  [x EXCEPT !.ac.conditions = Set(@, type, TrueCondition, Now)]

\* Every condition the phases set to False has severity Error.
MarkFalse(x, type, reason) ==
  [x EXCEPT !.ac.conditions = Set(@, type, FalseCondition(reason, "Error"), Now)]

Fail(x) == [x EXCEPT !.failed = TRUE]
Requeue(x) == [x EXCEPT !.requeue = TRUE]
Provide(x, var) == [x EXCEPT !.vars = @ \cup {var}]
Resolvable(x, needs) == needs \subseteq x.vars

-----------------------------------------------------------------------------
(* reconcileValidation and its three phases.                               *)

reconcileSchema(x) ==
  IF ~x.def.exists
  THEN Requeue(MarkFalse([x EXCEPT !.ac.status.observedSchemaUID = 0],
                         "ValidSchema", "SchemaNotFound"))
  ELSE LET y == [x EXCEPT !.ac.status.observedSchemaUID = x.def.uid]
       IN  IF SpecOf(x.def).schema = "none"
           THEN Fail(MarkFalse(y, "ValidSchema", "InvalidSchema"))
           ELSE MarkTrue(y, "ValidSchema")

reconcileSchemaDefaulting(x) ==
  IF SpecOf(x.def).schema \in {"nonstructural", "malformed"}
  THEN Fail(MarkFalse(x, "DefaultingComplete", "DefaultingInternalError"))
  ELSE MarkTrue([x EXCEPT !.ac.spec.values = IF @ = Empty THEN SpecOf(x.def).default ELSE @],
                "DefaultingComplete")

Admits(x) == x.ac.spec.values \in SpecOf(x.def).accepts

\* Where the validator finds fault: in the values as a whole or in the field.
Faults(values) == IF values \in {Null, Scalar} THEN {"root"} ELSE {"field"}

\* The outcomes of a validation that took place.
Accept(x) == [x EXCEPT !.ac.status.fieldErrors = {}]
Reject(x) == MarkFalse([x EXCEPT !.ac.status.fieldErrors = Faults(x.ac.spec.values)],
                       "ValidConfig", "InvalidConfiguration")

\* Faulty variants: an invalid configuration is no error; the field errors of
\* an earlier configuration are not withdrawn.
reconcileSchemaValidationUnfailed(x) ==
  CASE SpecOf(x.def).schema = "malformed" -> Fail(x)
    [] SpecOf(x.def).schema # "malformed" /\ Admits(x) -> Accept(x)
    [] OTHER -> Reject(x)

reconcileSchemaValidationSticky(x) ==
  CASE SpecOf(x.def).schema = "malformed" -> Fail(x)
    [] SpecOf(x.def).schema # "malformed" /\ Admits(x) -> x
    [] OTHER -> Fail(Reject(x))

\* Without a validator the reports of an earlier validation stay as they are.
reconcileSchemaValidation(x) ==
  CASE SpecOf(x.def).schema = "malformed" -> Fail(x)
    [] SpecOf(x.def).schema # "malformed" /\ Admits(x) -> Accept(x)
    [] OTHER -> Fail(Reject(x))

reconcileValidation(x) ==
  LET y == reconcileSchemaValidation(reconcileSchemaDefaulting(reconcileSchema(x)))
  IN  IF y.failed THEN y ELSE MarkTrue(y, "ValidConfig")

-----------------------------------------------------------------------------
(* reconcileTarget with the cluster read from the API server, and          *)
(* reconcileTemplateValues.  "unreadable" is any answer but the object and *)
(* NotFound, or an object without the expected fields.                     *)

Clusters == {"present", "missing", "unreadable"}

reconcileTarget(x, cluster) ==
  CASE ~x.ac.spec.target -> Requeue(MarkFalse(x, "ValidTarget", "TargetUndefined"))
    [] x.ac.spec.target /\ cluster = "missing" ->
         Requeue(MarkFalse(x, "ValidTarget", "TargetNotFound"))
    [] x.ac.spec.target /\ cluster = "unreadable" -> Fail(x)
    [] x.ac.spec.target /\ cluster = "present" ->
         MarkTrue(Provide(x, TargetVariable), "ValidTarget")

reconcileTemplateValues(x) ==
  CASE x.ac.spec.values = Scalar           -> Fail(x)
    [] x.ac.spec.values \in Explicit       -> Provide(x, ValuesVariable)
    [] x.ac.spec.values \in {Null, Empty}  -> x

-----------------------------------------------------------------------------
(* reconcileDependencies, one dependency at a time.  `n' is the number of  *)
(* objects that match its target, Unlisted when the API server gave no     *)
(* answer.                                                                 *)

Unlisted == -1

Dependencies(x) == SpecOf(x.def).dependencies
Resolved(x) == x.dep > Len(Dependencies(x))

Skip(x) == [x EXCEPT !.dep = @ + 1]
\* An error leaves the loop.
Abort(x) == [Fail(x) EXCEPT !.dep = Len(Dependencies(x)) + 1]

fetchLabeledDependency(x, d, n) ==
  LET unsatisfied(reason) == MarkFalse(x, "ValidDependency", reason)
  IN  CASE ~Resolvable(x, d.needs) -> Abort(x)  \* "<no value>" is not a label value
        [] Resolvable(x, d.needs) /\ n <= 0 /\ d.optional -> Skip(x)
        \* errors.Wrap(nil) is nil: an empty list is no error.
        [] Resolvable(x, d.needs) /\ n = 0 /\ ~d.optional -> Skip(unsatisfied("DependencyNotFound"))
        [] Resolvable(x, d.needs) /\ n = Unlisted /\ ~d.optional ->
             Abort(unsatisfied("DependencyNotFound"))
        [] Resolvable(x, d.needs) /\ n > 0 /\ d.unique /\ d.selectFirst ->
             Skip(unsatisfied("DependencyConstraintFailed"))
        [] Resolvable(x, d.needs) /\ n > 1 /\ d.unique /\ ~d.selectFirst ->
             Abort(unsatisfied("DependencyUniquenessNotSatisfied"))
        [] OTHER -> Skip(Provide(x, d.name))

fetchNamedDependency(x, d, n) ==
  IF Resolvable(x, d.needs) /\ n > 0 THEN Skip(Provide(x, d.name))
  ELSE IF d.optional THEN Skip(x)
  ELSE Abort(MarkFalse(x, "ValidDependency", "DependencyNotFound"))

resolveDependency(x, n) ==
  LET d == Dependencies(x)[x.dep]
  IN  CASE d.by = "both" \/ ~d.known -> Abort(x)
        [] d.by # "both" /\ d.known /\ ~d.parsable ->
             Abort(MarkFalse(x, "ValidDependency", "DependencyTemplatingFailed"))
        [] d.by = "selector" /\ d.known /\ d.parsable -> fetchLabeledDependency(x, d, n)
        [] d.by = "name" /\ d.known /\ d.parsable     -> fetchNamedDependency(x, d, n)

-----------------------------------------------------------------------------
(* reconcileTemplate and saveRenderedTemplate.                             *)

reconcileTemplate(x) ==
  LET spec == SpecOf(x.def)
  IN  CASE spec.template = "unparsable" -> Fail(MarkFalse(x, "ValidTemplate", "InvalidTemplate"))
        \* errors.Wrap(nil) is nil: nested templates are no error.
        [] spec.template = "nested" -> MarkFalse(x, "ValidTemplate", "InvalidTemplate")
        [] spec.template = "good" /\ ~Resolvable(x, spec.needs) ->
             Fail(MarkFalse(x, "ValidTemplate", "FailedRendering"))
        [] OTHER -> MarkTrue(x, "ValidTemplate")

Nothing == [revision |-> NoRevision, values |-> Null]   \* no output resource
Blank == [revision |-> NoRevision, values |-> Empty]    \* the empty rendering
Renderings == [revision : Revisions, values : Values]

\* Where output resources are: in the cluster of the manager, in the namespace
\* of the AddonConfig or in the one that the definition gives; or in the
\* target cluster.  Remote ones are written by the same client as local ones.
Places == {"own", "given", "target"}
Place(output) == IF output = "remote" THEN "given" ELSE "own"

RenderedTemplate(x) ==
  IF SpecOf(x.def).template = "good" /\ Resolvable(x, SpecOf(x.def).needs)
  THEN [revision |-> x.def.revision, values |-> x.ac.spec.values]
  ELSE Blank

OutputReason ==
  [undefined   |-> "OutputResourceUndefined",
   multiple    |-> "MultipleOutputResourceDefined",
   noNamespace |-> "RemoteOutputResourceNoNamespaceDefined"]

Savable(x) == ~x.failed /\ SpecOf(x.def).output \in Outputs

\* Faulty variant: outputRef is set before the shape of the output is checked.
saveRenderedTemplateUnchecked(x) ==
  [MarkTrue(x, "OutputResourceUpdated") EXCEPT !.ac.status.outputRef = {SpecOf(x.def).output}]

\* What saving does to the context; the error of CreateOrUpdate is dropped.
\* outputRef gets the key of the kind of output, and a name without namespace.
saveRenderedTemplate(x) ==
  LET output == SpecOf(x.def).output
      mark(reason) == MarkFalse(x, "OutputResourceUpdated", reason)
  IN  CASE output \in DOMAIN OutputReason -> Requeue(mark(OutputReason[output]))
        [] output = "unparsable" -> Fail(mark("NameTemplatingFailed"))
        [] output \in Outputs ->
             [MarkTrue(x, "OutputResourceUpdated") EXCEPT !.ac.status.outputRef = {output}]

\* Faulty variant: the output resource is created, and never updated.
PersistedOnce(x, outputs) ==
  IF Savable(x) /\ outputs[Place(SpecOf(x.def).output)] = Nothing
  THEN [outputs EXCEPT ![Place(SpecOf(x.def).output)] = RenderedTemplate(x)]
  ELSE outputs

\* What it does to the output resources: a name with an unresolved variable
\* ("<no value>") is refused by the API server.
Persisted(x, outputs) ==
  IF Savable(x) /\ Resolvable(x, SpecOf(x.def).outputNeeds)
  THEN [outputs EXCEPT ![Place(SpecOf(x.def).output)] = RenderedTemplate(x)]
  ELSE outputs

-----------------------------------------------------------------------------
Observe(x, generation) ==
  [x EXCEPT !.ac.conditions = SetSummary(@, InScope, Now),
            !.ac.status.observedGeneration = generation]

\* Faulty variants: the resourceVersion for the generation; the generation the
\* patch of the spec is about to make.
SummariseVersion(x) == Observe(x, x.ac.resourceVersion)
SummariseAhead(x) ==
  Observe(x, x.ac.generation + IF SpecChanged(x.before, x.ac) THEN 1 ELSE 0)

\* patchAddonConfig up to the patches: the Ready condition, and the
\* generation that was read as the observed one.
Summarise(x) == Observe(x, x.ac.generation)

ReadyIsSummaryOf(conds) == SameState(conds["Ready"], Summary(conds, InScope))
=============================================================================
