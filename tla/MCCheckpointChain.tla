------------------------- MODULE MCCheckpointChain -------------------------
(***************************************************************************)
(* Instances of CheckpointChain for TLC.                                   *)
(***************************************************************************)
EXTENDS CheckpointChain
=============================================================================
