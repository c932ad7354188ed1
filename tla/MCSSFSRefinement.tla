-------------------------- MODULE MCSSFSRefinement --------------------------
(***************************************************************************)
(* An instance of SSFSRefinement for TLC.                                   *)
(***************************************************************************)
EXTENDS SSFSRefinement, TLC

NameSymmetry == Permutations(Names)

=============================================================================
