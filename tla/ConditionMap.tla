---------------------------- MODULE ConditionMap ----------------------------
(***************************************************************************)
(* What the condition library promises to the controllers that keep their  *)
(* conditions on one object: a controller reads the object, changes its    *)
(* copy of the conditions, and has the difference merged into the version  *)
(* of the day, while others write too and the clock runs.  Conditions are  *)
(* functions from types; ConditionList, with the lists of the Go code,     *)
(* implements this.                                                        *)
(***************************************************************************)
EXTENDS Conditions, ConditionParameters, FiniteSets

VARIABLES
  stored,   \* the conditions in the API server
  fresh,    \* no write since the controller fetched `latest'
  before,   \* the conditions as the controller read them
  after,    \* its working copy
  wanted,   \* the sides of the difference to merge, which merging may re-date
  latest,   \* the version fetched to merge into
  clock,    \* in seconds
  pc,       \* "idle", "editing", "fetching" or "merging"
  attempts, \* fetches that met a conflict
  edits, writes

vars == <<stored, fresh, before, after, wanted, latest, clock, pc, attempts, edits, writes>>

None == [t \in Types |-> Absent]

Init ==
  /\ stored \in Initial /\ fresh = FALSE
  /\ before = None /\ after = None /\ wanted = None /\ latest = None
  /\ clock = 1
  /\ pc = "idle" /\ attempts = 0 /\ edits = 0 /\ writes = 0

Tick ==
  /\ clock < MaxTime
  /\ clock' = clock + 1
  /\ UNCHANGED <<stored, fresh, before, after, wanted, latest, pc, attempts, edits, writes>>

\* Another writer of the object sets or deletes a condition, with this very
\* library and the lock of the API server.
WriteOfOther ==
  /\ writes < MaxForeign
  /\ \E t \in Types \ {"Ready"} :
       \/ \E c \in States : stored' = Set(stored, t, c, clock)
       \/ stored' = Delete(stored, t)
  /\ stored' # stored
  /\ fresh' = FALSE
  /\ writes' = writes + 1
  /\ UNCHANGED <<before, after, wanted, latest, clock, pc, attempts, edits>>

-----------------------------------------------------------------------------
(* The controller's copy.                                                  *)

Read ==
  /\ pc = "idle"
  /\ before' = stored /\ after' = stored
  /\ pc' = "editing"
  /\ UNCHANGED <<stored, fresh, wanted, latest, clock, attempts, edits, writes>>

\* A condition that mirrors the Ready of another object, or tells that it has
\* none; Absent: no condition is generated.
Mirror(ready, fallback) == IF ready = Absent THEN fallback ELSE ready

\* The summary of the Ready conditions of other objects, with their progress.
Aggregate(readies) ==
  LET all == Summary(readies, [i \in DOMAIN readies |-> i])
  IN  IF all.status \in {"Absent", "True"} THEN all
      ELSE [all EXCEPT !.reason =
              Counted[@][Cardinality({i \in DOMAIN readies : readies[i].status = "True"})]]

SetIfAny(conds, t, c) == IF c = Absent THEN conds ELSE Set(conds, t, c, clock)

Edit ==
  /\ pc = "editing" /\ edits < MaxEdits
  /\ \/ \E t \in Types, c \in States : after' = Set(after, t, c, clock)
     \/ \E t \in Types : after' = Delete(after, t)
     \/ \E order \in Orders : after' = SetSummary(after, order, clock)
     \/ \E t \in Types \ {"Ready"}, readies \in ReadyLists, fallback \in States \cup {Absent} :
          after' = SetIfAny(after, t, Mirror(readies[1], fallback))
     \/ \E t \in Types \ {"Ready"}, readies \in ReadyLists :
          after' = SetIfAny(after, t, Aggregate(readies))
  /\ edits' = edits + 1
  /\ UNCHANGED <<stored, fresh, before, wanted, latest, clock, pc, attempts, writes>>

-----------------------------------------------------------------------------
(* The merge.                                                              *)

\* The reconciliation is over, and its copies with it.
Done ==
  /\ pc' = "idle" /\ attempts' = 0 /\ fresh' = FALSE
  /\ before' = None /\ after' = None /\ wanted' = None /\ latest' = None

Diff ==
  /\ pc = "editing"
  /\ \/ NewPatch(before, after) = {} /\ Done
     \/ /\ NewPatch(before, after) # {}
        /\ pc' = "fetching" /\ wanted' = after
        /\ UNCHANGED <<fresh, before, after, latest, attempts>>
  /\ UNCHANGED <<stored, clock, edits, writes>>

Fetch ==
  /\ pc = "fetching"
  /\ pc' = "merging"
  /\ latest' = stored /\ fresh' = TRUE
  /\ UNCHANGED <<stored, before, after, wanted, clock, attempts, edits, writes>>

ToSet == {t \in NewPatch(before, after) : after[t] # Absent}

Merged ==
  [t \in Types |-> IF t \in ToSet THEN Set(latest, t, wanted[t], clock)[t]
                   ELSE Apply(before, after, latest, clock)[t]]

\* What is set takes the time it was set with, also for the next attempt; a
\* condition of others that is as wanted already is not set.
Redated ==
  [t \in Types |-> IF t \in ToSet /\ (t \in Owned \/ latest[t] = before[t])
                   THEN Merged[t] ELSE wanted[t]]

Refused ==
  /\ pc = "merging"
  /\ Conflicts(before, after, latest, Owned) # {}
  /\ Done
  /\ UNCHANGED <<stored, clock, edits, writes>>

Accepted ==
  /\ pc = "merging"
  /\ Conflicts(before, after, latest, Owned) = {} /\ fresh
  /\ stored' = Merged
  /\ Done
  /\ UNCHANGED <<clock, edits, writes>>

Outdated ==
  /\ pc = "merging"
  /\ Conflicts(before, after, latest, Owned) = {} /\ ~fresh
  /\ \/ /\ attempts + 1 < MaxAttempts
        /\ pc' = "fetching" /\ attempts' = attempts + 1 /\ wanted' = Redated
        /\ latest' = None
        /\ UNCHANGED <<fresh, before, after>>
     \/ attempts + 1 >= MaxAttempts /\ Done
  /\ UNCHANGED <<stored, clock, edits, writes>>

Next ==
  \/ Tick \/ WriteOfOther
  \/ Read \/ Edit \/ Diff \/ Fetch \/ Refused \/ Accepted \/ Outdated

Spec == Init /\ [][Next]_vars

-----------------------------------------------------------------------------
(* Properties.                                                             *)

\* As long as a condition is on the object, its transition time moves exactly
\* when its state does, and then to the present: a change undone before it is
\* merged, a summary computed again or an attempt repeated leave no trace.
DatedByTransition ==
  [][LET old == stored  new == stored'
     IN  \A t \in Types :
           old[t] # Absent /\ new[t] # Absent =>
             new[t].time = IF SameState(old[t], new[t]) THEN old[t].time ELSE clock]_vars

\* The merge never undoes what somebody else did to a condition that the
\* controller does not own since the controller read it, with however many
\* attempts and although one list is sent.
NothingOverwritten ==
  [][pc = "merging" /\ pc' # pc =>
       LET old == stored  new == stored'  read == before
       IN  \A t \in Types \ Owned : new[t] # old[t] => SameState(old[t], read[t])]_vars
=============================================================================
