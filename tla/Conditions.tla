----------------------------- MODULE Conditions -----------------------------
(***************************************************************************)
(* The condition library of the controller: util/conditions.               *)
(*                                                                         *)
(* The Go code keeps a list sorted by type with at most one condition of   *)
(* each type; here it is a function from types to conditions, with Absent  *)
(* where the list has none.  A reason stands for a reason and its message. *)
(* `now' is the wall clock truncated to seconds; time 0 is the zero time.  *)
(***************************************************************************)
EXTENDS Naturals, Sequences

Statuses == {"Absent", "True", "False", "Unknown"}
Severities == {"None", "Info", "Warning", "Error"}

NoReason == "NoReason"  \* the empty string in the code

ConditionsFor(reasons) ==
  [status : Statuses, severity : Severities, reason : reasons \cup {NoReason}, time : Nat]

Cond(status, severity, reason) ==
  [status |-> status, severity |-> severity, reason |-> reason, time |-> 0]

Absent == Cond("Absent", "None", NoReason)
TrueCondition == Cond("True", "None", NoReason)
FalseCondition(reason, severity) == Cond("False", severity, reason)
UnknownCondition(reason) == Cond("Unknown", "None", reason)

SameState(c, d) ==
  c.status = d.status /\ c.severity = d.severity /\ c.reason = d.reason

-----------------------------------------------------------------------------
(* Setting, deleting and summarising.                                      *)

\* The time of a transition is kept when the state does not change, taken
\* from the clock when it does, and from the condition when it is new and
\* already carries one.
Set(conds, type, c, now) ==
  IF SameState(conds[type], c) THEN conds
  ELSE [conds EXCEPT ![type] =
          IF conds[type].status = "Absent" /\ c.time # 0 THEN c ELSE [c EXCEPT !.time = now]]

Delete(conds, type) == [conds EXCEPT ![type] = Absent]

MergePriority(c) ==
  CASE c.status = "False" /\ c.severity = "Error"   -> 0
    [] c.status = "False" /\ c.severity = "Warning" -> 1
    [] c.status = "False" /\ c.severity = "Info"    -> 2
    [] c.status = "True"                            -> 3
    [] c.status = "Unknown"                         -> 4
    [] OTHER                                        -> 99

\* The positions of `order' whose condition exists and is of the top group.
TopGroup(conds, order) ==
  LET scope == {i \in DOMAIN order : conds[order[i]].status # "Absent"}
  IN  {i \in scope : \A j \in scope :
         MergePriority(conds[order[i]]) <= MergePriority(conds[order[j]])}

\* The Ready condition: the status of the top group, with the reason of its
\* first condition in `order'; Absent when no condition of `order' exists.
Summary(conds, order) ==
  LET top   == TopGroup(conds, order)
      first == conds[order[CHOOSE i \in top : \A j \in top : i <= j]]
  IN  IF top = {} THEN Absent
      ELSE CASE first.status = "True"  -> TrueCondition
             [] first.status = "False" -> FalseCondition(first.reason, first.severity)
             [] OTHER                  -> UnknownCondition(first.reason)

SetSummary(conds, order, now) ==
  LET ready == Summary(conds, order)
  IN  IF ready = Absent THEN conds ELSE Set(conds, "Ready", ready, now)

-----------------------------------------------------------------------------
(* The three-way merge: `before' and `after' are the two sides of the      *)
(* difference, `latest' what it is applied to.                             *)

NewPatch(before, after) == {t \in DOMAIN after : before[t] # after[t]}

\* Types the patch may not touch, because somebody else changed them too.
Conflicts(before, after, latest, owned) ==
  {t \in NewPatch(before, after) \ owned :
     IF after[t] = Absent
     THEN latest[t] # Absent /\ ~SameState(latest[t], before[t])
     ELSE latest[t] # before[t] /\ ~SameState(latest[t], after[t])}

Apply(before, after, latest, now) ==
  [t \in DOMAIN latest |->
     IF t \notin NewPatch(before, after) THEN latest[t]
     ELSE IF after[t] = Absent THEN Absent
     ELSE Set(latest, t, after[t], now)[t]]
=============================================================================
