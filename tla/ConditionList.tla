--------------------------- MODULE ConditionList ---------------------------
(***************************************************************************)
(* The condition library as it is written: a list of conditions that is    *)
(* searched, changed in place and sorted again, groups of conditions, and  *)
(* patches that are lists of operations applied one after another.         *)
(*                                                                         *)
(* A condition is one of module Conditions with its type; Nil is the nil   *)
(* pointer.  The steps are those of ConditionMap.                          *)
(***************************************************************************)
EXTENDS Naturals, FiniteSets, Sequences, ConditionParameters

LOCAL INSTANCE SequencesExt
LOCAL INSTANCE TLC

CONSTANT Alphabet  \* the types but Ready in the order of their names

VARIABLES stored, fresh, before, after, diff, latest, clock, pc, attempts, edits, writes

vars == <<stored, fresh, before, after, diff, latest, clock, pc, attempts, edits, writes>>

C == INSTANCE Conditions

Nil == [type |-> "nil"]

\* With its type, and without it.
Typed(t, c) == [type |-> t, status |-> c.status, severity |-> c.severity,
                reason |-> c.reason, time |-> c.time]
Untyped(c) == [status |-> c.status, severity |-> c.severity, reason |-> c.reason, time |-> c.time]

-----------------------------------------------------------------------------
(* getter.go, setter.go.                                                   *)

IndexOf(conditions, t) ==
  LET at == {i \in DOMAIN conditions : conditions[i].type = t}
  IN  IF at = {} THEN 0 ELSE CHOOSE i \in at : \A j \in at : i <= j

Get(conditions, t) ==
  IF IndexOf(conditions, t) = 0 THEN Nil ELSE conditions[IndexOf(conditions, t)]

hasSameState(c, d) ==
  /\ c.type = d.type /\ c.status = d.status
  /\ c.reason = d.reason /\ c.severity = d.severity

lexicographicLess(c, d) ==
  /\ d.type # "Ready"
  /\ c.type = "Ready" \/
       \E i, j \in DOMAIN Alphabet : i < j /\ c.type = Alphabet[i] /\ d.type = Alphabet[j]

\* Faulty variant: a condition set anew is a transition.
DatedAnew(conditions, c, now) == [c EXCEPT !.time = now]

\* The condition with the time that setting it gives it.
Dated(conditions, c, now) ==
  LET existing == Get(conditions, c.type)
  IN  [c EXCEPT !.time =
         IF existing # Nil
         THEN IF hasSameState(existing, c) THEN existing.time ELSE now
         ELSE IF @ = 0 THEN now ELSE @]

\* Faulty variant: a new condition is put at the end of the list.
SetUnsorted(conditions, c, now) ==
  LET i == IndexOf(conditions, c.type)
      d == Dated(conditions, c, now)
  IN  IF i = 0 THEN Append(conditions, d) ELSE [conditions EXCEPT ![i] = d]

Set(conditions, c, now) ==
  LET i == IndexOf(conditions, c.type)
      d == Dated(conditions, c, now)
  IN  SortSeq(IF i = 0 THEN Append(conditions, d) ELSE [conditions EXCEPT ![i] = d],
              lexicographicLess)

SetIfAny(conditions, c, now) == IF c = Nil THEN conditions ELSE Set(conditions, c, now)

Delete(conditions, t) == SelectSeq(conditions, LAMBDA c : c.type # t)

-----------------------------------------------------------------------------
(* merge.go, merge_strategies.go.                                          *)

mergePriority(group) == C!MergePriority(group)

\* The conditions grouped by status and severity, in the order met; nil
\* pointers are left out.
getConditionGroups(conditions) ==
  LET add(groups, c) ==
        LET i == SelectInSeq(groups, LAMBDA g : g.status = c.status /\ g.severity = c.severity)
        IN  CASE c = Nil -> groups
              [] c # Nil /\ i = 0 -> Append(groups, [status |-> c.status, severity |-> c.severity,
                                                     conditions |-> <<c>>])
              [] OTHER -> [groups EXCEPT ![i].conditions = Append(@, c)]
  IN  SortSeq(FoldLeft(add, <<>>, conditions),
              LAMBDA g, h : mergePriority(g) < mergePriority(h))

\* Faulty variant: the first by type, whatever the order asked for.
getFirstConditionByType(top, order) == SortSeq(top.conditions, lexicographicLess)[1]

\* The condition that gives the target its reason: the first type of `order'
\* in the top group, else the group's first by type.
getFirstCondition(top, order) ==
  LET sorted == SortSeq(top.conditions, lexicographicLess)
      listed == SelectSeq(order, LAMBDA t : Get(sorted, t) # Nil)
  IN  IF Len(sorted) = 1 \/ listed = <<>> THEN sorted[1] ELSE Get(sorted, listed[1])

\* The number of conditions in the True group.
completed(groups) ==
  LET i == SelectInSeq(groups, LAMBDA g : g.status = "True" /\ g.severity = "None")
  IN  IF i = 0 THEN 0 ELSE Len(groups[i].conditions)

merge(conditions, target, order, counting) ==
  LET groups == getConditionGroups(conditions)
      top    == groups[1]
      first  == getFirstCondition(top, order).reason
      reason == IF counting THEN Counted[first][completed(groups)] ELSE first
  IN  IF groups = <<>> THEN Nil
      ELSE Typed(target, CASE top.status = "True"  -> C!TrueCondition
                           [] top.status = "False" -> C!FalseCondition(reason, top.severity)
                           [] OTHER                -> C!UnknownCondition(reason))

\* getter.go:124, with WithConditions(order).
summary(conditions, order) ==
  merge(SelectSeq(conditions, LAMBDA c : c.type # "Ready" /\ Contains(order, c.type)),
        "Ready", order, FALSE)

\* getter.go:218; the fallback is Absent for none.
mirror(from, target, fallback) ==
  LET ready == Get(from, "Ready")
  IN  CASE ready # Nil -> [ready EXCEPT !.type = target]
        [] ready = Nil /\ fallback # C!Absent -> Typed(target, fallback)
        [] OTHER -> Nil

\* getter.go:245, of objects in the order of their names.
aggregate(froms, target) ==
  merge([i \in DOMAIN froms |-> Get(froms[i], "Ready")], target, <<>>, TRUE)

-----------------------------------------------------------------------------
(* patch.go.                                                               *)

\* Faulty variant: what was deleted is not part of the difference.
NewPatchUnremoved(b, a) ==
  LET changed == SelectSeq(a, LAMBDA c : Get(b, c.type) # c)
  IN  [i \in DOMAIN changed |->
         LET old == Get(b, changed[i].type)
         IN  [op |-> IF old = Nil THEN "Add" ELSE "Change", before |-> old, after |-> changed[i]]]

\* The operations, for the conditions of `b' and `a', in the order of the
\* code: what is added or changed as it stands in `a', then what is removed.
NewPatch(b, a) ==
  LET op(kind, old, new) == [op |-> kind, before |-> old, after |-> new]
      changed == SelectSeq(a, LAMBDA c : Get(b, c.type) # c)
      removed == SelectSeq(b, LAMBDA c : Get(a, c.type) = Nil)
  IN  [i \in DOMAIN changed |->
         LET old == Get(b, changed[i].type)
         IN  op(IF old = Nil THEN "Add" ELSE "Change", old, changed[i])]
      \o [i \in DOMAIN removed |-> op("Remove", removed[i], Nil)]

TypeOf(op) == IF op.op = "Remove" THEN op.before.type ELSE op.after.type

\* Somebody else got there first and wants something else.
Conflicting(op, conditions) ==
  LET c == Get(conditions, TypeOf(op))
  IN  CASE op.op = "Add"    -> c # Nil /\ ~hasSameState(c, op.after)
        [] op.op = "Change" -> c = Nil \/ (c # op.before /\ ~hasSameState(c, op.after))
        [] op.op = "Remove" -> c # Nil /\ ~hasSameState(c, op.before)

\* Somebody else got there first and wants the same.
AlreadyIntended(op, conditions) ==
  LET c == Get(conditions, TypeOf(op))
  IN  \/ op.op = "Add" /\ c # Nil
      \/ op.op = "Change" /\ c # op.before

\* Faulty variant: what somebody else changed is no conflict.
ApplyOneOverwriting(r, op) ==
  IF op.op = "Remove"
  THEN [r EXCEPT !.conditions = Delete(@, TypeOf(op)), !.patch = Append(@, op)]
  ELSE [r EXCEPT !.conditions = Set(@, op.after, clock),
                 !.patch = Append(@, [op EXCEPT !.after = Dated(r.conditions, @, clock)])]

\* One operation, on what the ones before it made of the conditions and of the
\* patch: Set leaves the time it gave a condition in the operation.
ApplyOne(r, op) ==
  LET owned == TypeOf(op) \in Owned
      unchanged == [r EXCEPT !.patch = Append(@, op)]
  IN  CASE r.failed -> r
        [] ~r.failed /\ ~owned /\ Conflicting(op, r.conditions) -> [r EXCEPT !.failed = TRUE]
        [] ~r.failed /\ ~owned /\ ~Conflicting(op, r.conditions)
                     /\ AlreadyIntended(op, r.conditions) -> unchanged
        [] OTHER ->
             IF op.op = "Remove"
             THEN [unchanged EXCEPT !.conditions = Delete(@, TypeOf(op))]
             ELSE [r EXCEPT !.conditions = Set(@, op.after, clock),
                            !.patch = Append(@, [op EXCEPT !.after =
                                                   Dated(r.conditions, @, clock)])]

Apply(patch, conditions) ==
  FoldLeft(ApplyOne, [conditions |-> conditions, patch |-> <<>>, failed |-> FALSE], patch)

-----------------------------------------------------------------------------
(* The steps.                                                              *)

\* The list of conditions that are given by type.
ListOf(conditions) ==
  LET order == <<"Ready">> \o Alphabet
  IN  SelectSeq([i \in DOMAIN order |-> Typed(order[i], conditions[order[i]])],
                LAMBDA c : c.status # "Absent")

Init ==
  /\ stored \in {ListOf(conditions) : conditions \in Initial} /\ fresh = FALSE
  /\ before = <<>> /\ after = <<>> /\ diff = <<>> /\ latest = <<>>
  /\ clock = 1
  /\ pc = "idle" /\ attempts = 0 /\ edits = 0 /\ writes = 0

Tick ==
  /\ clock < MaxTime
  /\ clock' = clock + 1
  /\ UNCHANGED <<stored, fresh, before, after, diff, latest, pc, attempts, edits, writes>>

WriteOfOther ==
  /\ writes < MaxForeign
  /\ \E t \in Types \ {"Ready"} :
       \/ \E c \in States : stored' = Set(stored, Typed(t, c), clock)
       \/ stored' = Delete(stored, t)
  /\ stored' # stored
  /\ fresh' = FALSE
  /\ writes' = writes + 1
  /\ UNCHANGED <<before, after, diff, latest, clock, pc, attempts, edits>>

Read ==
  /\ pc = "idle"
  /\ before' = stored /\ after' = stored
  /\ pc' = "editing"
  /\ UNCHANGED <<stored, fresh, diff, latest, clock, attempts, edits, writes>>

\* An object with nothing but a Ready condition, or without one.
WithReady(ready) == IF ready = C!Absent THEN <<>> ELSE <<Typed("Ready", ready)>>

Edit ==
  /\ pc = "editing" /\ edits < MaxEdits
  /\ \/ \E t \in Types, c \in States : after' = Set(after, Typed(t, c), clock)
     \/ \E t \in Types : after' = Delete(after, t)
     \/ \E order \in Orders : after' = SetIfAny(after, summary(after, order), clock)
     \/ \E t \in Types \ {"Ready"}, readies \in ReadyLists, fallback \in States \cup {C!Absent} :
          after' = SetIfAny(after, mirror(WithReady(readies[1]), t, fallback), clock)
     \/ \E t \in Types \ {"Ready"}, readies \in ReadyLists :
          after' = SetIfAny(after, aggregate([i \in DOMAIN readies |-> WithReady(readies[i])], t),
                            clock)
  /\ edits' = edits + 1
  /\ UNCHANGED <<stored, fresh, before, diff, latest, clock, pc, attempts, writes>>

Done ==
  /\ pc' = "idle" /\ attempts' = 0 /\ fresh' = FALSE
  /\ before' = <<>> /\ after' = <<>> /\ diff' = <<>> /\ latest' = <<>>

Diff ==
  /\ pc = "editing"
  /\ \/ NewPatch(before, after) = <<>> /\ Done
     \/ /\ NewPatch(before, after) # <<>>
        /\ pc' = "fetching" /\ diff' = NewPatch(before, after)
        /\ UNCHANGED <<fresh, before, after, latest, attempts>>
  /\ UNCHANGED <<stored, clock, edits, writes>>

Fetch ==
  /\ pc = "fetching"
  /\ pc' = "merging"
  /\ latest' = stored /\ fresh' = TRUE
  /\ UNCHANGED <<stored, before, after, diff, clock, attempts, edits, writes>>

\* Apply, and the patch that the server takes if the version is the stored
\* one; if not, back off and fetch again.
Merge ==
  /\ pc = "merging"
  /\ LET r == Apply(diff, latest)
     IN  \/ r.failed /\ Done /\ UNCHANGED stored
         \/ ~r.failed /\ fresh /\ stored' = r.conditions /\ Done
         \/ /\ ~r.failed /\ ~fresh /\ attempts + 1 < MaxAttempts
            /\ pc' = "fetching" /\ attempts' = attempts + 1
            /\ diff' = r.patch /\ latest' = <<>>
            /\ UNCHANGED <<stored, fresh, before, after>>
         \/ ~r.failed /\ ~fresh /\ attempts + 1 >= MaxAttempts /\ Done /\ UNCHANGED stored
  /\ UNCHANGED <<clock, edits, writes>>

Next == Tick \/ WriteOfOther \/ Read \/ Edit \/ Diff \/ Fetch \/ Merge

Spec == Init /\ [][Next]_vars

-----------------------------------------------------------------------------
(* Properties.                                                             *)

\* What the list says of each type.
MapOf(conditions) ==
  [t \in Types |->
     LET c == Get(conditions, t) IN IF c = Nil THEN C!Absent ELSE Untyped(c)]

\* The conditions the patch in hand wants.
WantedOf(patch) ==
  [t \in Types |->
     LET of == {i \in DOMAIN patch : patch[i].op # "Remove" /\ patch[i].after.type = t}
     IN  IF patch = <<>> THEN C!Absent
         ELSE IF of = {} THEN MapOf(after)[t] ELSE Untyped(patch[CHOOSE i \in of : TRUE].after)]

Map == INSTANCE ConditionMap WITH
  stored  <- MapOf(stored),
  before  <- MapOf(before),
  after   <- MapOf(after),
  wanted  <- WantedOf(diff),
  latest  <- MapOf(latest)

\* Searching, setting in place, grouping, sorting and applying operations one
\* by one, which change the list the next one is looked up in and the patch
\* the next attempt starts from, do what ConditionMap says of each type.
ImplementsMap == Map!Spec

\* A summary, grouped and sorted as the code does it, is what it is for a
\* client: the worst of the conditions asked for, with the reason of the first
\* of them in the order asked for, whatever the order in the list.
SummariesAgree ==
  \A order \in Orders :
    LET ready == summary(after, order)
    IN  IF ready = Nil THEN C!Summary(MapOf(after), order) = C!Absent
        ELSE Untyped(ready) = C!Summary(MapOf(after), order)

\* Whatever is set, deleted, summarised or merged, a list keeps one condition
\* of each type, Ready first and the others by name: Set relies on the first
\* to find what to replace, the readers and the summary on the second.
Ordered(conditions) ==
  \A i, j \in DOMAIN conditions : i < j => lexicographicLess(conditions[i], conditions[j])

ListsOrdered == Ordered(stored) /\ Ordered(after)

DatedByTransition == Map!DatedByTransition
NothingOverwritten == Map!NothingOverwritten
=============================================================================
