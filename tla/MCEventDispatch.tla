--------------------------- MODULE MCEventDispatch ---------------------------
(***************************************************************************)
(* Small instances of EventDispatch for TLC.                               *)
(***************************************************************************)
EXTENDS EventDispatch

\* Each AddonConfig is for a cluster of its own, or all are for the same.
MCApart == [c \in Configs |-> c]
MCTogether == [c \in Configs |-> "cluster"]
=============================================================================
