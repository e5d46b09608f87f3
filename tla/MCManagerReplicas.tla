------------------------- MODULE MCManagerReplicas -------------------------
(***************************************************************************)
(* A small instance of ManagerReplicas for TLC.                            *)
(***************************************************************************)
EXTENDS ManagerReplicas

MCExplicit == {"a", "b"}

Plain ==
  [schema |-> "structural", default |-> "a", accepts |-> {"a", "b"}, dependencies |-> <<>>,
   template |-> "good", needs |-> {ValuesVariable, TargetVariable},
   output |-> "local", outputNeeds |-> {TargetVariable}]

\* The second admits nothing but "b", and writes to another place.
Strict == [Plain EXCEPT !.accepts = {"b"}, !.default = "b", !.output = "remote"]
MCRevisions == [plain |-> Plain, strict |-> Strict]

Complete == [ref |-> TRUE, target |-> TRUE, values |-> "a"]
\* The other one has no values; the default of the definition is put in.
MCSpecs == {Complete, [Complete EXCEPT !.values = Empty]}

\* Leaders end; where every replica runs, all of them stay.
MCMaxStops == [e \in BOOLEAN |-> IF e THEN 2 ELSE 0]
=============================================================================
