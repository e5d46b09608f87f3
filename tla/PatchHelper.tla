---------------------------- MODULE PatchHelper ----------------------------
(***************************************************************************)
(* util/patch: how the changes a reconciliation made to its copy of an     *)
(* AddonConfig reach the stored object.  `before' is the object as the     *)
(* reconciliation read it, `after' as it left it, and `stored' what the    *)
(* API server has by the time a patch arrives.                             *)
(*                                                                         *)
(* A patch is a JSON merge patch: it sets the fields in which `after'      *)
(* differs from `before', whatever `stored' has in them.  Only the patch   *)
(* of the conditions carries a resourceVersion.                            *)
(***************************************************************************)
EXTENDS AddonConfigTypes

Merge(before, after, stored) == IF after = before THEN stored ELSE after

\* For an object, whose keys are added and removed one by one.
MergeKeys(before, after, stored) == (stored \ (before \ after)) \cup (after \ before)

\* calculateChanges, for the parts a reconciliation can change.
SpecChanged(before, after) == before.spec # after.spec
StatusChanged(before, after) ==
  before.status # after.status \/ before.conditions # after.conditions

ConditionsChanged(before, after) == NewPatch(before.conditions, after.conditions) # {}

PatchedSpec(before, after, stored) ==
  Written(stored,
    [stored EXCEPT
       !.spec = [ref    |-> Merge(before.spec.ref, after.spec.ref, stored.spec.ref),
                 target |-> Merge(before.spec.target, after.spec.target, stored.spec.target),
                 values |-> Merge(before.spec.values, after.spec.values, stored.spec.values)]])

\* The status without the conditions, which unsafeUnstructuredCopy removes.
PatchedStatus(before, after, stored) ==
  LET b == before.status  a == after.status  s == stored.status
  IN  Written(stored,
        [stored EXCEPT
           !.status = [observedGeneration |->
                         Merge(b.observedGeneration, a.observedGeneration, s.observedGeneration),
                       observedSchemaUID |->
                         Merge(b.observedSchemaUID, a.observedSchemaUID, s.observedSchemaUID),
                       fieldErrors |-> MergeKeys(b.fieldErrors, a.fieldErrors, s.fieldErrors),
                       outputRef   |-> MergeKeys(b.outputRef, a.outputRef, s.outputRef)]])

-----------------------------------------------------------------------------
(* The conditions: merged into the version the client last saw, `latest',  *)
(* and sent with its resourceVersion, so that the server takes the list    *)
(* only if it still stores that version.                                   *)

Unmergeable(before, after, latest, owned) ==
  Conflicts(before.conditions, after.conditions, latest.conditions, owned) # {}

\* Faulty variant: the patch carries no resourceVersion.
OutdatedNever(latest, stored) == FALSE

Outdated(latest, stored) == latest.resourceVersion # stored.resourceVersion

PatchedConditions(before, after, latest, stored, now) ==
  Written(stored,
    [stored EXCEPT
       !.conditions = Apply(before.conditions, after.conditions, latest.conditions, now)])
=============================================================================
