------------------------------ MODULE BlockMap ------------------------------
(***************************************************************************)
(* The block map of the Simple & Stupid Filesystem (lab4_fs): one block of  *)
(* 16-bit ids in which "a content M at index N says block N is followed by  *)
(* block M".  Entry 0 heads the list of free blocks, which returns to 0;    *)
(* a file's blocks form a list that ends in EOF_BLOCK.                      *)
(*                                                                          *)
(* This module holds the operators on maps and has no variables.  Entry 1   *)
(* (the directory's block) and the entries past FS_NBLOCKS are left out:    *)
(* format_myfs.c never writes them and no operation reads them.             *)
(***************************************************************************)
EXTENDS Naturals

CONSTANTS FS_NBLOCKS,   \* number of blocks of the disk (10 in fs_support.h)
          EOF_BLOCK     \* "invalid or end of file block" (0xFFFF)

ASSUME BlockMapAssumption ==
    /\ FS_NBLOCKS \in Nat
    /\ FS_NBLOCKS > 2
    /\ EOF_BLOCK \in Nat
    /\ EOF_BLOCK >= FS_NBLOCKS

BLKMAP_BID  == 0
ROOTDIR_BID == 1

\* The blocks that can hold file data, and the indices of the map in use.
DataBlocks == 2 .. (FS_NBLOCKS - 1)
MapIds     == {BLKMAP_BID} \cup DataBlocks
BlockMaps  == [MapIds -> MapIds \cup {EOF_BLOCK}]

-----------------------------------------------------------------------------
(* Operations on a map.                                                     *)

\* Mutant of FormatMap: the last entry is not corrected after the loop.
FormatMapNoEnd == [b \in MapIds |-> IF b = BLKMAP_BID THEN 2 ELSE b + 1]

\* What format_myfs.c writes: every data block is free, in increasing order.
FormatMap == [b \in MapIds |-> CASE b = BLKMAP_BID     -> 2
                                 [] b = FS_NBLOCKS - 1 -> BLKMAP_BID
                                 [] OTHER              -> b + 1]

\* The block allocateBlock() would return, when entry 0 does not point to self.
FreeHead(m) == m[BLKMAP_BID]
HasFree(m)  == FreeHead(m) # BLKMAP_BID

\* Mutant of AllocateBlock: the block keeps its link into the free list.
AllocateBlockKeepsLink(m) == [m EXCEPT ![BLKMAP_BID] = m[FreeHead(m)]]

\* allocateBlock() when it succeeds: the head leaves the free list and points
\* nowhere.
AllocateBlock(m) ==
    [m EXCEPT ![BLKMAP_BID]  = m[FreeHead(m)],
              ![FreeHead(m)] = EOF_BLOCK]

\* freeBlock(): b becomes the head of the free list.
FreeBlock(m, b) ==
    [m EXCEPT ![b]          = FreeHead(m),
              ![BLKMAP_BID] = b]

-----------------------------------------------------------------------------
(* What a map means.                                                        *)

\* S is closed under following links.
Closed(m, S) == \A x \in S : m[x] \in MapIds => m[x] \in S

\* The blocks reached from b by following links, b included: the elements of
\* every closed set that holds b.
Chain(m, b) ==
    {x \in MapIds : \A S \in SUBSET MapIds : b \in S /\ Closed(m, S) => x \in S}

\* The chain of the map's own block is the free list, with 0 itself.
FreeList(m) == Chain(m, BLKMAP_BID) \ {BLKMAP_BID}

\* No two blocks are followed by the same block.
LinksInjective(m) ==
    \A x, y \in MapIds : m[x] = m[y] /\ m[x] # EOF_BLOCK => x = y

\* The free list never runs into an end-of-file mark, and every block on it
\* leads back to block 0: a walk over it terminates (info_myfs.c) and every
\* block on it will be handed out once (allocateBlock).
FreeListReturns(m) ==
    \A x \in Chain(m, BLKMAP_BID) :
        m[x] # EOF_BLOCK /\ BLKMAP_BID \in Chain(m, x)

\* A well-formed map.
Sound(m) == LinksInjective(m) /\ FreeListReturns(m)

\* Every block reached from b leads to an end-of-file mark.
ChainEnds(m, b) ==
    \A x \in Chain(m, b) : \E y \in Chain(m, x) : m[y] = EOF_BLOCK

-----------------------------------------------------------------------------
(* Following links.                                                         *)

\* Where "crtfb = blkmap.blockmap[crtfb]" has come to from b after k rounds.
Walk(m, b) ==
    LET at[k \in 0 .. FS_NBLOCKS] ==
           IF k = 0 THEN b ELSE IF at[k - 1] \in MapIds THEN m[at[k - 1]] ELSE EOF_BLOCK
    IN  at

\* The data blocks met from b on, in order, up to an end mark or block 0.
BlockSeq(m, b) ==
    LET walk == Walk(m, b)
        n    == CHOOSE k \in 0 .. FS_NBLOCKS :
                   walk[k] \notin DataBlocks /\ \A j \in 0 .. (k - 1) : walk[j] \in DataBlocks
    IN  [k \in 1 .. n |-> walk[k - 1]]

=============================================================================
