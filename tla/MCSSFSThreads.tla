---------------------------- MODULE MCSSFSThreads ----------------------------
(***************************************************************************)
(* Instances of SSFSThreads for TLC.                                        *)
(***************************************************************************)
EXTENDS SSFSThreadsProperties, TLC

NameSymmetry == Permutations(Names)

\* For safety: the threads are alike.
Symmetry == Permutations(Names) \cup Permutations(Threads)

=============================================================================
