-------------------------- MODULE AddonConfigTypes --------------------------
(***************************************************************************)
(* The API objects the controller reads and writes: api/v1alpha1.          *)
(*                                                                         *)
(* spec.values is abstracted to an object of at most one field: Null (not  *)
(* given), Empty (an object without the field), Scalar (not an object) or  *)
(* the value a user gave the field.  There is one definition name and one  *)
(* cluster name, so spec.ref and spec.target say whether they are given.   *)
(***************************************************************************)
EXTENDS Conditions

CONSTANTS
  Explicit,            \* the values a user may give the field
  DependencyNames,     \* the names definitions give their dependencies
  Null, Empty, Scalar, \* spec.values without the field
  Revision,            \* a function: the specs AddonConfigDefinitions may have
  NoRevision           \* the revision of the empty AddonConfigDefinition

Values == Explicit \cup {Null, Empty, Scalar}

-----------------------------------------------------------------------------
(* AddonConfigDefinition.  `default' is the schema's default for the field *)
(* (Empty: none), `accepts' the values it admits.  A "nonstructural" one   *)
(* has no structural form to default from; of a "malformed" one (as with a *)
(* $ref that is no URL) no validator can be made either.  `needs' are the  *)
(* variables a template cannot be rendered without.                        *)

ValuesVariable == "Values"
TargetVariable == "Target"
Variables == {ValuesVariable, TargetVariable} \cup DependencyNames

\* A dependency's target: given by name, by selector or (wrongly) by both;
\* `known' says that every constraint operator is a known one.
Dependency ==
  [name : DependencyNames, by : {"name", "selector", "both"}, known : BOOLEAN,
   parsable : BOOLEAN, needs : SUBSET Variables,
   unique : BOOLEAN, selectFirst : BOOLEAN, optional : BOOLEAN]

Outputs == {"local", "remote"}
OutputShapes == Outputs \cup {"undefined", "multiple", "noNamespace", "unparsable"}

DefinitionSpec ==
  [schema : {"none", "structural", "nonstructural", "malformed"},
   default : Explicit \cup {Empty}, accepts : SUBSET Values,
   dependencies : Seq(Dependency),
   template : {"empty", "unparsable", "nested", "good"}, needs : SUBSET Variables,
   output : OutputShapes, outputNeeds : SUBSET Variables]

EmptySpec ==
  [schema |-> "none", default |-> Empty, accepts |-> Values, dependencies |-> <<>>,
   template |-> "empty", needs |-> {}, output |-> "undefined", outputNeeds |-> {}]

Revisions == DOMAIN Revision \cup {NoRevision}
SpecOf(d) == IF d.revision \in DOMAIN Revision THEN Revision[d.revision] ELSE EmptySpec

ASSUME ValuesAssumption ==
  /\ {Null, Empty, Scalar} \cap Explicit = {}
  /\ Null # Empty /\ Null # Scalar /\ Empty # Scalar

\* Without a schema there is nothing to default from or to validate against.
ASSUME RevisionAssumption ==
  /\ NoRevision \notin DOMAIN Revision
  /\ \A r \in DOMAIN Revision :
       /\ Revision[r] \in DefinitionSpec
       /\ Revision[r].schema = "none" =>
            Revision[r].default = Empty /\ Revision[r].accepts = Values

\* uid 0 and exists = FALSE: no object of that name yet; a deleted object
\* keeps its uid, so that the next one of the name gets another.
Definition == [exists : BOOLEAN, uid : Nat, revision : Revisions]
NoDefinition == [exists |-> FALSE, uid |-> 0, revision |-> NoRevision]

-----------------------------------------------------------------------------
(* AddonConfig.                                                            *)

InScope == <<"ValidSchema", "ValidConfig", "DefaultingComplete", "ValidTarget", "ValidTemplate">>
InScopeTypes == {InScope[i] : i \in DOMAIN InScope}
OwnedTypes == InScopeTypes \cup {"Ready"}
\* "Foreign" stands for a condition that somebody else puts on the object.
ConditionTypes == OwnedTypes \cup {"ValidDependency", "OutputResourceUpdated", "Foreign"}
Reasons ==
  {"SchemaNotFound", "InvalidSchema", "InvalidConfiguration", "DefaultingInternalError",
   "TargetUndefined", "TargetNotFound", "InvalidTemplate", "FailedRendering",
   "DependencyNotFound", "DependencyUniquenessNotSatisfied", "DependencyTemplatingFailed",
   "DependencyConstraintFailed", "OutputResourceUndefined", "MultipleOutputResourceDefined",
   "RemoteOutputResourceNoNamespaceDefined", "NameTemplatingFailed", "Foreign"}
Condition == ConditionsFor(Reasons)
ConditionList == [ConditionTypes -> Condition]
NoConditions == [t \in ConditionTypes |-> Absent]

AddonConfigSpec == [ref : BOOLEAN, target : BOOLEAN, values : Values]
\* observedGeneration 0, observedSchemaUID 0: not set.  fieldErrors and
\* outputRef are JSON objects; the sets are their keys.
FieldPaths == {"root", "field"}
AddonConfigStatus == [observedGeneration : Nat, observedSchemaUID : Nat,
            fieldErrors : SUBSET FieldPaths, outputRef : SUBSET Outputs]
NoStatus == [observedGeneration |-> 0, observedSchemaUID |-> 0,
             fieldErrors |-> {}, outputRef |-> {}]

AddonConfig ==
  [exists : BOOLEAN, uid : Nat, resourceVersion : Nat, generation : Nat,
   spec : AddonConfigSpec, status : AddonConfigStatus, conditions : ConditionList]
NoSpec == [ref |-> FALSE, target |-> FALSE, values |-> Null]
NoAddonConfig ==
  [exists |-> FALSE, uid |-> 0, resourceVersion |-> 0, generation |-> 0,
   spec |-> NoSpec, status |-> NoStatus, conditions |-> NoConditions]

-----------------------------------------------------------------------------
(* What the API server does with a write of object `o': a write that       *)
(* changes nothing is a no-op, any other gets a new resourceVersion, and   *)
(* the generation counts the versions of the spec.                         *)

Written(o, n) ==
  IF n = o THEN o
  ELSE [n EXCEPT !.resourceVersion = o.resourceVersion + 1,
                 !.generation = IF n.spec = o.spec THEN o.generation ELSE o.generation + 1]

Created(o, spec) ==
  [exists |-> TRUE, uid |-> o.uid + 1, resourceVersion |-> o.resourceVersion + 1,
   generation |-> 1, spec |-> spec, status |-> NoStatus, conditions |-> NoConditions]

Deleted(o) ==
  [NoAddonConfig EXCEPT !.uid = o.uid, !.resourceVersion = o.resourceVersion + 1]
=============================================================================
