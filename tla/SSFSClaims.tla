----------------------------- MODULE SSFSClaims -----------------------------
(***************************************************************************)
(* What the comments and the tests of lab4_fs say of the filesystem and     *)
(* SSFS.tla, read from the code, does not do.  Each is checked by a run     *)
(* that finds it violated.                                                  *)
(***************************************************************************)
EXTENDS SSFSProperties

\* One mount of a formatted disk by a process that never dies.
MountedSpec == Init /\ [][Request \/ WriteStep]_vars

\* fs_support.h:16-17: "block 0 will be occupied by this very structure anyway...
\* so it will never be part of a file".  do_write's late -ENOSPC leaves the
\* directory naming a first block that the map on the disk still has in the
\* free list, which leads to block 0.
BlockZeroInNoFile ==
    Idle => \A i \in HasBlocks(dir) : BLKMAP_BID \notin FileChain(dir, map, i)

=============================================================================
