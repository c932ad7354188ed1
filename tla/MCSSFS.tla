------------------------------- MODULE MCSSFS -------------------------------
(***************************************************************************)
(* Instances of SSFS for TLC.                                               *)
(***************************************************************************)
EXTENDS SSFSClaims, FsInfo, TLC

\* Names are interchangeable: the slots fix the order of the files.
NameSymmetry == Permutations(Names)

=============================================================================
