-------------------------- MODULE MCConditionList --------------------------
(***************************************************************************)
(* A small instance of ConditionList for TLC: two conditions, of which the *)
(* controller owns one.                                                    *)
(***************************************************************************)
EXTENDS ConditionList

MCTypes == {"Ready", "Own", "Shared"}
MCAlphabet == <<"Own", "Shared">>
MCOwned == {"Ready", "Own"}
\* As WithConditions lists them, which need not be by name, and all but Ready.
MCOrders == {<<"Shared", "Own">>, <<"Own">>}

Failing == C!FalseCondition("failing", "Error")
Degraded == C!FalseCondition("degraded", "Warning")
Unclear == C!UnknownCondition("unclear")
MCStates == {C!TrueCondition, Failing}

At1(c) == [c EXCEPT !.time = 1]

MCReasons == {"failing", "degraded", "unclear", C!NoReason}
MCCounted == [r \in MCReasons |-> [n \in 0..1 |-> IF n = 0 THEN r ELSE r \o ", 1 done"]]
MCReadyLists ==
  {<<C!Absent, C!TrueCondition>>,
   <<At1(Unclear), At1(C!TrueCondition), At1(Degraded)>>}

MCInitial ==
  {[t \in MCTypes |-> IF t = "Own" THEN At1(Degraded) ELSE At1(C!TrueCondition)]}
=============================================================================
