--------------------------- MODULE ObservedObject ---------------------------
(***************************************************************************)
(* What a client may rely on who compares status.observedGeneration of an  *)
(* AddonConfig with its generation: a specification without caches, queue, *)
(* reconciliation or patches.  AddonConfigController implements it.        *)
(***************************************************************************)
EXTENDS Naturals

VARIABLES
  exists,      \* there is an AddonConfig
  uid,         \* which incarnation it is, or was last
  generation,  \* the version of its spec, 0 when there is none
  observed,    \* the version its status is about, 0 when about none
  behind       \* the controller still works on an earlier incarnation

vars == <<exists, uid, generation, observed, behind>>

Init ==
  /\ exists = TRUE /\ uid = 1 /\ generation = 1 /\ observed = 0
  /\ behind = FALSE

Create ==
  /\ ~exists
  /\ exists' /\ uid' = uid + 1 /\ generation' = 1 /\ observed' = 0
  /\ behind'

Delete ==
  /\ exists
  /\ ~exists' /\ generation' = 0 /\ observed' = 0
  /\ ~behind'
  /\ UNCHANGED uid

\* By a user, or by the controller that makes defaults explicit.
ChangeSpec ==
  /\ exists
  /\ generation' = generation + 1
  /\ UNCHANGED <<exists, uid, observed, behind>>

\* The status is never ahead of the spec; that of an AddonConfig whose name
\* was never used before does not go back either.
Report ==
  /\ exists /\ ~behind
  /\ observed' \in 1..generation
  /\ uid = 1 => observed' > observed
  /\ UNCHANGED <<exists, uid, generation, behind>>

\* The patch of the status is not locked: one that was computed for an
\* earlier incarnation reaches the present one.  It says nothing of it.
ReportOfPredecessor ==
  /\ exists /\ behind
  /\ observed' \in Nat
  /\ behind' \in BOOLEAN
  /\ UNCHANGED <<exists, uid, generation>>

CatchUp ==
  /\ behind
  /\ ~behind'
  /\ UNCHANGED <<exists, uid, generation, observed>>

Next ==
  \/ Create \/ Delete \/ ChangeSpec
  \/ Report \/ ReportOfPredecessor \/ CatchUp

Spec == Init /\ [][Next]_vars

\* What the status is for.
UpToDate == exists => observed = generation
=============================================================================
