---------------------- MODULE MCAddonConfigController ----------------------
(***************************************************************************)
(* Small instances of AddonConfigController for TLC.                       *)
(***************************************************************************)
EXTENDS AddonConfigController

MCExplicit == {"a", "b"}
MCDependencyNames == {"first", "second"}

\* A definition in order: defaults to "a", admits both values.
Plain ==
  [schema |-> "structural", default |-> "a", accepts |-> {"a", "b"}, dependencies |-> <<>>,
   template |-> "good", needs |-> {ValuesVariable, TargetVariable},
   output |-> "local", outputNeeds |-> {TargetVariable}]

\* One that admits "b" only and writes to another place.
Strict == [Plain EXCEPT !.accepts = {"b"}, !.default = "b", !.output = "remote"]

ByName == [name |-> "first", by |-> "name", known |-> TRUE, parsable |-> TRUE,
           needs |-> {TargetVariable}, unique |-> FALSE, selectFirst |-> FALSE,
           optional |-> FALSE]
BySelector == [ByName EXCEPT !.name = "second", !.by = "selector", !.unique = TRUE]

\* One that needs an object found by name and one found by labels.
Dependent == [Plain EXCEPT !.dependencies = <<ByName, BySelector>>,
                           !.needs = @ \cup {"first", "second"}]

PlainRevision == [plain |-> Plain]
ValuesRevisions == [plain |-> Plain, strict |-> Strict]
DependentRevisions == [plain |-> Plain, dependent |-> Dependent]

\* Definitions for every way one can be wrong: one is wrong in several ways
\* where a phase that fails, or only reports, does not hide the others.
AllRevisions ==
  [plain      |-> Plain,
   none       |-> [Dependent EXCEPT !.schema = "none", !.default = Empty, !.accepts = Values,
                                    !.dependencies[1].parsable = FALSE],
   picky      |-> [Plain EXCEPT !.accepts = {"b", Null}, !.output = "unparsable"],
   nonstructural |-> [Dependent EXCEPT !.schema = "nonstructural", !.template = "unparsable",
                                       !.dependencies[1].by = "both"],
   malformed  |-> [Dependent EXCEPT !.schema = "malformed", !.dependencies[2].known = FALSE],
   nested     |-> [Plain EXCEPT !.template = "nested", !.output = "undefined"],
   blank      |-> [Plain EXCEPT !.template = "empty", !.output = "noNamespace"],
   contradictory |-> [Dependent EXCEPT !.dependencies[2].selectFirst = TRUE,
                                       !.needs = {ValuesVariable}, !.outputNeeds = {"second"}],
   optional   |-> [Dependent EXCEPT !.dependencies[1].optional = TRUE,
                                    !.dependencies[2].optional = TRUE,
                                    !.needs = {ValuesVariable}, !.output = "multiple"]]

\* Three that differ in the template and in the values they admit.
BrokenRevisions ==
  [plain |-> Plain,
   bad   |-> [Plain EXCEPT !.template = "unparsable"],
   worse |-> [Plain EXCEPT !.template = "unparsable", !.accepts = {"b"}]]

\* Of AllRevisions, three that differ in what they make of the values.
SchemaRevisions == [r \in {"plain", "picky", "malformed"} |-> AllRevisions[r]]

Complete == [ref |-> TRUE, target |-> TRUE, values |-> Empty]
FullSpecs == {Complete, [Complete EXCEPT !.values = "b"]}

\* Every way a spec can be wrong: values that are not given or no object, a
\* target or a definition that is not given.  (`picky' admits the first.)
OddSpecs == {Complete, [ref |-> TRUE, target |-> FALSE, values |-> Null],
             [ref |-> FALSE, target |-> TRUE, values |-> Scalar]}
=============================================================================
