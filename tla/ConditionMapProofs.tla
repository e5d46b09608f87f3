--------------------------- MODULE ConditionMapProofs ---------------------------
(***************************************************************************)
(* Why conditions that are kept with the condition library carry the time  *)
(* of their last transition, and why merging them loses nothing.           *)
(***************************************************************************)
EXTENDS ConditionMap, TLAPS

-----------------------------------------------------------------------------
(* The inductive invariant.                                                *)

Maps == IsMap(stored) /\ IsMap(after) /\ IsMap(wanted) /\ IsMap(latest)

\* As long as nobody writes, the version fetched is the stored one.
FreshIsStored == pc = "merging" /\ fresh => latest = stored

\* An attempt gives what it wants to set another time, not another state.
WantedIsAfter ==
  pc \in {"fetching", "merging"} => \A t \in Types : SameState(wanted[t], after[t])

MapInv == Maps /\ FreshIsStored /\ WantedIsAfter

-----------------------------------------------------------------------------
(* The operators.                                                          *)

\* None of the conditions is a condition.
LEMMA AbsentIsCondition ==
  /\ IsCondition(Absent) /\ IsMap(None)
  /\ \A c : IsCondition(c) /\ c.status = "Absent" => c = Absent
  BY DEF IsCondition, IsMap, None, Absent, Cond, NoReason

\* What setting a condition does to it.
LEMMA SetCondition ==
  ASSUME NEW conds, IsMap(conds), NEW t \in Types, NEW c, IsCondition(c), NEW now
  PROVE  LET old == conds[t]
             new == Set(conds, t, c, now)[t]
         IN  /\ SameState(new, c)
             /\ new.status # "Absent" => IsCondition(new)
             /\ SameState(old, c) => new = old
             /\ ~SameState(old, c) /\ old # Absent => new.time = now
  <1> DEFINE old == conds[t]
             new == Set(conds, t, c, now)[t]
  <1>1. IsCondition(old)
    BY DEF IsMap
  <1>2. CASE SameState(old, c)
    <2>1. new = old
      BY <1>2 DEF Set
    <2> QED  BY <1>1, <1>2, <2>1
  <1>3. CASE ~SameState(old, c)
    <2>1. t \in DOMAIN conds
      BY DEF IsMap
    <2>2. new = IF old.status = "Absent" /\ c.time # 0 THEN c ELSE [c EXCEPT !.time = now]
      BY <1>3, <2>1 DEF Set
    <2>3. SameState(c, c)
      BY DEF SameState
    <2> DEFINE dated == [c EXCEPT !.time = now]
    <2>4. /\ SameState(dated, c) /\ dated.time = now
          /\ dated.status # "Absent" => IsCondition(dated)
      BY DEF IsCondition, SameState
    <2>5. old # Absent => old.status # "Absent"
      BY <1>1, AbsentIsCondition
    <2>6. new \in {c, dated} /\ (old # Absent => new = dated)
      BY <2>2, <2>5
    <2> HIDE DEF new, old, dated
    <2>7. /\ SameState(new, c) /\ (new.status # "Absent" => IsCondition(new))
          /\ old # Absent => new.time = now
      BY <2>3, <2>4, <2>6
    <2> QED  BY <1>3, <2>7 DEF new, old
  <1> QED  BY <1>2, <1>3

\* And to the others: nothing.
LEMMA SetMap ==
  ASSUME NEW conds, IsMap(conds), NEW t \in Types, NEW c, IsCondition(c), c.status # "Absent",
         NEW now
  PROVE  /\ IsMap(Set(conds, t, c, now))
         /\ \A u \in Types \ {t} : Set(conds, t, c, now)[u] = conds[u]
  <1> DEFINE new == Set(conds, t, c, now)
  <1>1. /\ new = [u \in Types |-> new[u]]
        /\ \A u \in Types \ {t} : new[u] = conds[u]
    BY DEF IsMap, Set
  <1>2. IsCondition(new[t])
    <2>1. SameState(new[t], c) /\ (new[t].status # "Absent" => IsCondition(new[t]))
      BY SetCondition
    <2> HIDE DEF new
    <2> QED  BY <2>1 DEF SameState
  <1> HIDE DEF new
  <1>3. IsMap(new)
    BY <1>1, <1>2 DEF IsMap
  <1> QED  BY <1>1, <1>3 DEF new

\* Deleting a condition.
LEMMA DeleteMap ==
  ASSUME NEW conds, IsMap(conds), NEW t \in Types
  PROVE  /\ IsMap(Delete(conds, t)) /\ Delete(conds, t)[t] = Absent
         /\ \A u \in Types \ {t} : Delete(conds, t)[u] = conds[u]
  BY AbsentIsCondition DEF IsMap, Delete

\* A summary or a mirrored condition, if there is one, is a condition.
LEMMA SummaryIsCondition ==
  ASSUME NEW conds, NEW order
  PROVE  /\ IsCondition(Summary(conds, order))
         /\ Summary(conds, order) # Absent => Summary(conds, order).status # "Absent"
  BY DEF Summary, IsCondition, Absent, TrueCondition, FalseCondition, UnknownCondition, Cond,
     NoReason

\* Setting it, if there is one.
LEMMA SetIfAnyMap ==
  ASSUME NEW conds, IsMap(conds), NEW t \in Types, NEW c, IsCondition(c)
  PROVE  IsMap(SetIfAny(conds, t, c))
  BY SetMap, AbsentIsCondition DEF SetIfAny

\* Whatever the controller does to its copy.
LEMMA EditMap ==
  ASSUME IsMap(after), Edit
  PROVE  IsMap(after')
  <1>1. ASSUME NEW t \in Types, NEW c \in States, after' = Set(after, t, c, clock)
        PROVE  IsMap(after')
    BY <1>1, SetMap, ConditionAssumption
  <1>2. ASSUME NEW t \in Types, after' = Delete(after, t)
        PROVE  IsMap(after')
    BY <1>2, DeleteMap
  <1>3. ASSUME NEW order \in Orders, after' = SetSummary(after, order, clock)
        PROVE  IsMap(after')
    <2> DEFINE ready == Summary(after, order)
    <2>1. IsCondition(ready) /\ (ready # Absent => ready.status # "Absent")
      BY SummaryIsCondition
    <2>2. after' = IF ready = Absent THEN after ELSE Set(after, "Ready", ready, clock)
      BY <1>3 DEF SetSummary
    <2> HIDE DEF ready
    <2> QED  BY <2>1, <2>2, SetMap, MapAssumption
  <1>4. ASSUME NEW t \in Types, NEW readies \in ReadyLists, NEW fallback \in States \cup {Absent},
               after' = SetIfAny(after, t, Mirror(readies[1], fallback))
        PROVE  IsMap(after')
    <2>1. IsCondition(Mirror(readies[1], fallback))
      BY ConditionAssumption, AbsentIsCondition DEF Mirror
    <2> QED  BY <1>4, <2>1, SetIfAnyMap
  <1>5. ASSUME NEW t \in Types, NEW readies \in ReadyLists,
               after' = SetIfAny(after, t, Aggregate(readies))
        PROVE  IsMap(after')
    <2> DEFINE all == Summary(readies, [i \in DOMAIN readies |-> i])
    <2>1. IsCondition(all)
      BY SummaryIsCondition
    <2> HIDE DEF all
    <2>2. \/ Aggregate(readies) = all
          \/ all.status # "Absent" /\ \E r : Aggregate(readies) = [all EXCEPT !.reason = r]
      BY DEF Aggregate, all
    <2>3. IsCondition(Aggregate(readies))
      BY <2>1, <2>2 DEF IsCondition
    <2> QED  BY <1>5, <2>3, SetIfAnyMap
  <1> QED  BY <1>1, <1>2, <1>3, <1>4, <1>5 DEF Edit

-----------------------------------------------------------------------------
(* The merge.                                                              *)

\* A condition that the merge sets, and what of the others.
LEMMA MergedCondition ==
  ASSUME MapInv, pc = "merging", NEW t \in Types
  PROVE  /\ IsCondition(Merged[t])
         /\ t \in ToSet => Merged[t] = Set(latest, t, wanted[t], clock)[t]
         /\ t \notin ToSet => Merged[t] \in {latest[t], Absent}
         /\ t \notin NewPatch(before, after) => Merged[t] = latest[t]
  <1> USE DEF MapInv, Maps
  <1>1. Merged[t] = IF t \in ToSet THEN Set(latest, t, wanted[t], clock)[t]
                    ELSE Apply(before, after, latest, clock)[t]
    BY DEF Merged
  <1>2. t \in DOMAIN latest
    BY DEF IsMap
  <1>3. CASE t \in ToSet
    <2>1. IsCondition(wanted[t]) /\ IsCondition(latest[t])
      BY DEF IsMap
    <2>2. Merged[t] = Set(latest, t, wanted[t], clock)[t] /\ t \in NewPatch(before, after)
      BY <1>1, <1>3 DEF ToSet
    <2>3. wanted[t].status # "Absent"
      <3>1. after[t].status # "Absent"
        BY <1>3, AbsentIsCondition DEF ToSet, IsMap
      <3> QED  BY <3>1 DEF WantedIsAfter, SameState
    <2>4. IsCondition(Merged[t])
      <3> DEFINE new == Set(latest, t, wanted[t], clock)[t]
      <3>1. SameState(new, wanted[t]) /\ (new.status # "Absent" => IsCondition(new))
        BY <2>1, SetCondition
      <3> HIDE DEF new
      <3> QED  BY <2>2, <2>3, <3>1 DEF SameState, new
    <2> QED  BY <1>3, <2>2, <2>4
  <1>4. CASE t \notin ToSet
    <2>1. Merged[t] = Apply(before, after, latest, clock)[t]
      BY <1>1, <1>4
    <2>2. \/ t \notin NewPatch(before, after) /\ Merged[t] = latest[t]
          \/ t \in NewPatch(before, after) /\ Merged[t] = Absent
      BY <1>2, <1>4, <2>1 DEF Apply, ToSet
    <2> QED  BY <1>4, <2>2, AbsentIsCondition DEF IsMap
  <1> QED  BY <1>3, <1>4

\* What the merge leaves in the patch for the next attempt.
LEMMA RedatedMap ==
  ASSUME MapInv, pc = "merging"
  PROVE  /\ IsMap(Redated)
         /\ \A t \in Types : SameState(Redated[t], after[t])
  <1>1. ASSUME NEW t \in Types
        PROVE  IsCondition(Redated[t]) /\ SameState(Redated[t], after[t])
    <2>1. IsCondition(wanted[t]) /\ SameState(wanted[t], after[t])
      BY DEF MapInv, Maps, IsMap, WantedIsAfter
    <2>2. CASE Redated[t] = wanted[t]
      BY <2>1, <2>2
    <2>3. CASE Redated[t] # wanted[t]
      <3>1. Redated[t] = Merged[t] /\ t \in ToSet
        BY <2>3 DEF Redated
      <3>2. IsCondition(Merged[t]) /\ Merged[t] = Set(latest, t, wanted[t], clock)[t]
        BY <3>1, MergedCondition
      <3>3. SameState(Merged[t], wanted[t])
        BY <2>1, <3>2, SetCondition DEF MapInv, Maps
      <3> QED  BY <2>1, <3>1, <3>2, <3>3 DEF SameState
    <2> QED  BY <2>2, <2>3
  <1>2. Redated = [t \in Types |-> Redated[t]]
    BY DEF Redated
  <1> QED  BY <1>1, <1>2 DEF IsMap

\* The merge makes a map.
LEMMA MergedMap ==
  ASSUME MapInv, pc = "merging"
  PROVE  IsMap(Merged)
  <1>1. Merged = [t \in Types |-> Merged[t]]
    BY DEF Merged
  <1> QED  BY <1>1, MergedCondition DEF IsMap

-----------------------------------------------------------------------------
(* The invariant is inductive.                                             *)

\* Initially.
LEMMA MapInit == Init => MapInv
  BY AbsentIsCondition, ConditionAssumption
  DEF Init, MapInv, Maps, FreshIsStored, WantedIsAfter

\* Every step of the writers, of the controller and of its merge.
LEMMA MapStep ==
  ASSUME MapInv, [Next]_vars
  PROVE  MapInv'
  <1> USE DEF MapInv
  <1>1. CASE Tick \/ UNCHANGED vars
    BY <1>1 DEF Tick, vars, Maps, FreshIsStored, WantedIsAfter
  <1>2. CASE WriteOfOther
    <2>1. IsMap(stored')
      <3>1. PICK t \in Types \ {"Ready"} :
              \/ \E c \in States : stored' = Set(stored, t, c, clock)
              \/ stored' = Delete(stored, t)
        BY <1>2 DEF WriteOfOther
      <3> QED  BY <3>1, SetMap, DeleteMap, ConditionAssumption DEF Maps
    <2> QED  BY <1>2, <2>1 DEF WriteOfOther, Maps, FreshIsStored, WantedIsAfter
  <1>3. CASE Read
    BY <1>3 DEF Read, Maps, FreshIsStored, WantedIsAfter
  <1>4. CASE Edit
    BY <1>4, EditMap DEF Edit, Maps, FreshIsStored, WantedIsAfter
  <1>5. CASE UNCHANGED stored /\ Done
    BY <1>5, AbsentIsCondition DEF Done, Maps, FreshIsStored, WantedIsAfter
  <1>6. CASE Diff
    <2>1. CASE Done
      BY <1>5, <1>6, <2>1 DEF Diff
    <2>2. CASE /\ pc' = "fetching" /\ wanted' = after
               /\ UNCHANGED <<fresh, before, after, latest, attempts>>
      BY <1>6, <2>2 DEF Diff, Maps, FreshIsStored, WantedIsAfter, SameState
    <2> QED  BY <1>6, <2>1, <2>2 DEF Diff
  <1>7. CASE Fetch
    BY <1>7 DEF Fetch, Maps, FreshIsStored, WantedIsAfter
  <1>8. CASE Refused
    BY <1>5, <1>8 DEF Refused
  <1>9. CASE Accepted
    <2>1. IsMap(stored')
      BY <1>9, MergedMap DEF Accepted
    <2> QED  BY <1>9, <2>1, AbsentIsCondition DEF Accepted, Done, Maps, FreshIsStored, WantedIsAfter
  <1>10. CASE Outdated
    <2>1. CASE Done
      BY <1>5, <1>10, <2>1 DEF Outdated
    <2>2. CASE /\ pc' = "fetching" /\ wanted' = Redated /\ latest' = None
               /\ UNCHANGED <<fresh, before, after>>
      <3>1. pc = "merging" /\ UNCHANGED stored
        BY <1>10 DEF Outdated
      <3>2. IsMap(wanted') /\ \A t \in Types : SameState(wanted'[t], after'[t])
        BY <2>2, <3>1, RedatedMap
      <3> QED
        BY <2>2, <3>1, <3>2, AbsentIsCondition DEF Maps, FreshIsStored, WantedIsAfter
    <2> QED  BY <1>10, <2>1, <2>2 DEF Outdated
  <1> QED
    BY <1>1, <1>2, <1>3, <1>4, <1>6, <1>7, <1>8, <1>9, <1>10 DEF Next

-----------------------------------------------------------------------------
(* What the library promises.                                              *)

\* A stored condition is set by a writer or by the merge, into the version
\* that is stored.
LEMMA TransitionStep ==
  ASSUME MapInv, [Next]_vars, NEW t \in Types, stored[t] # Absent, stored'[t] # Absent
  PROVE  stored'[t].time =
           IF SameState(stored[t], stored'[t]) THEN stored[t].time ELSE clock
  <1> USE DEF MapInv, Maps
  <1>1. CASE stored'[t] = stored[t]
    BY <1>1 DEF SameState
  <1>2. ASSUME NEW c, IsCondition(c), stored'[t] = Set(stored, t, c, clock)[t]
        PROVE  stored'[t].time =
                 IF SameState(stored[t], stored'[t]) THEN stored[t].time ELSE clock
    <2>1. /\ SameState(stored'[t], c)
          /\ SameState(stored[t], c) => stored'[t] = stored[t]
          /\ ~SameState(stored[t], c) => stored'[t].time = clock
      BY <1>2, SetCondition
    <2> QED  BY <1>1, <2>1 DEF SameState
  <1>3. CASE WriteOfOther
    <2>1. PICK u \in Types \ {"Ready"} :
            \/ \E c \in States : stored' = Set(stored, u, c, clock)
            \/ stored' = Delete(stored, u)
      BY <1>3 DEF WriteOfOther
    <2>2. CASE u # t
      BY <1>1, <2>1, <2>2, SetMap, DeleteMap, ConditionAssumption
    <2>3. CASE u = t
      BY <1>2, <2>1, <2>3, DeleteMap, ConditionAssumption
    <2> QED  BY <2>2, <2>3
  <1>4. CASE Accepted
    <2>1. stored' = Merged /\ latest = stored /\ pc = "merging"
      BY <1>4 DEF Accepted, FreshIsStored
    <2>2. CASE t \in ToSet
      <3>1. stored'[t] = Set(stored, t, wanted[t], clock)[t] /\ IsCondition(wanted[t])
        BY <2>1, <2>2, MergedCondition DEF IsMap
      <3> QED  BY <1>2, <3>1
    <2>3. CASE t \notin ToSet
      BY <1>1, <2>1, <2>3, MergedCondition
    <2> QED  BY <2>2, <2>3
  <1>5. CASE UNCHANGED stored
    BY <1>1, <1>5
  <1>6. CASE Tick \/ Read \/ Edit \/ Diff \/ Fetch \/ Refused \/ Outdated \/ UNCHANGED vars
    BY <1>5, <1>6 DEF Tick, Read, Edit, Diff, Fetch, Refused, Outdated, vars
  <1> QED  BY <1>3, <1>4, <1>6 DEF Next

\* The merge is into the version that is stored, and what it changes there of
\* the conditions of others had not changed since it was read.
LEMMA MergeStep ==
  ASSUME MapInv, [Next]_vars, pc = "merging", pc' # pc,
         NEW t \in Types \ Owned, stored'[t] # stored[t]
  PROVE  SameState(stored[t], before[t])
  <1> USE DEF MapInv, Maps
  <1>1. Accepted
    BY DEF Next, vars, Tick, WriteOfOther, Read, Edit, Diff, Fetch, Refused, Outdated
  <1>2. /\ stored' = Merged /\ latest = stored
        /\ t \notin Conflicts(before, after, latest, Owned)
    BY <1>1 DEF Accepted, FreshIsStored
  <1>3. t \in NewPatch(before, after)
    BY <1>2, MergedCondition
  <1>4. CASE after[t] = Absent
    <2>1. stored'[t] \in {stored[t], Absent}
      BY <1>2, <1>4, MergedCondition DEF ToSet
    <2> QED  BY <1>2, <1>3, <1>4, <2>1 DEF Conflicts
  <1>5. CASE after[t] # Absent
    <2>1. /\ stored'[t] = Set(stored, t, wanted[t], clock)[t] /\ IsCondition(wanted[t])
          /\ SameState(wanted[t], after[t])
      BY <1>2, <1>3, <1>5, MergedCondition DEF ToSet, IsMap, WantedIsAfter
    <2>2. ~SameState(stored[t], wanted[t])
      BY <2>1, SetCondition
    <2>3. ~SameState(stored[t], after[t])
      BY <2>1, <2>2 DEF SameState
    <2>4. stored[t] = before[t]
      BY <1>2, <1>3, <1>5, <2>3 DEF Conflicts
    <2> QED  BY <2>4 DEF SameState
  <1> QED  BY <1>4, <1>5

\* The transition time of a condition moves when its state does, and only
\* then, whoever sets it and however often a merge is tried.
THEOREM TransitionsDated == Spec => DatedByTransition
  <1>1. MapInv /\ [Next]_vars => MapInv'
    BY MapStep
  <1>2. MapInv /\ [Next]_vars =>
          [LET old == stored  new == stored'
           IN  \A t \in Types :
                 old[t] # Absent /\ new[t] # Absent =>
                   new[t].time = IF SameState(old[t], new[t]) THEN old[t].time ELSE clock]_vars
    BY TransitionStep
  <1> QED  BY <1>1, <1>2, MapInit, PTL DEF Spec, DatedByTransition

\* What somebody else did to a condition that the controller does not own
\* survives the merge, with however many attempts.
THEOREM MergesSafe == Spec => NothingOverwritten
  <1>1. MapInv /\ [Next]_vars => MapInv'
    BY MapStep
  <1>2. MapInv /\ [Next]_vars =>
          [pc = "merging" /\ pc' # pc =>
             LET old == stored  new == stored'  read == before
             IN  \A t \in Types \ Owned : new[t] # old[t] => SameState(old[t], read[t])]_vars
    BY MergeStep
  <1> QED  BY <1>1, <1>2, MapInit, PTL DEF Spec, NothingOverwritten
=============================================================================
