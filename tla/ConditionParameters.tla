------------------------- MODULE ConditionParameters -------------------------
(***************************************************************************)
(* What ConditionMap and ConditionList have in common: the conditions, the *)
(* inputs of the controllers that keep them, and the bounds.               *)
(***************************************************************************)
EXTENDS Naturals

CONSTANTS
  Types,       \* the condition types on the object, "Ready" among them
  Owned,       \* those the controller owns
  Orders,      \* what a summary may be asked to consider, in this order
  States,      \* the conditions that are set, with time 0
  ReadyLists,  \* the Ready conditions dependents may have, one of each
  Counted,     \* a reason with the message that counts the true conditions
  Initial,     \* the conditions stored at the start, by type
  MaxTime,     \* bound: the clock
  MaxEdits,    \* bound: changes the controller makes to its copy
  MaxForeign,  \* bound: writes by others
  MaxAttempts  \* backoff.Steps of patchStatusConditions

ASSUME MapAssumption ==
  /\ "Ready" \in Types /\ Owned \subseteq Types
  /\ MaxTime \in Nat \ {0} /\ MaxEdits \in Nat /\ MaxForeign \in Nat
  /\ MaxAttempts \in Nat \ {0}

\* A condition as module Conditions has them: nothing is known of one that is
\* not there, and its reason may be anything.
IsCondition(c) ==
  /\ c = [status |-> c.status, severity |-> c.severity, reason |-> c.reason, time |-> c.time]
  /\ c.status = "Absent" => c.severity = "None" /\ c.reason = "NoReason" /\ c.time = 0

IsMap(conditions) ==
  /\ conditions = [t \in Types |-> conditions[t]]
  /\ \A t \in Types : IsCondition(conditions[t])

ASSUME ConditionAssumption ==
  /\ \A c \in States : IsCondition(c) /\ c.status # "Absent"
  /\ \A readies \in ReadyLists : 1 \in DOMAIN readies /\ IsCondition(readies[1])
  /\ \A conditions \in Initial : IsMap(conditions)
=============================================================================
