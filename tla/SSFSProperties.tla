--------------------------- MODULE SSFSProperties ---------------------------
(***************************************************************************)
(* What the filesystem of module SSFS guarantees, and under which history.  *)
(***************************************************************************)
EXTENDS SSFS

\* The files that have blocks, and the blocks of the file in slot i of d,
\* according to map m.
HasBlocks(d)       == {i \in Live(d) : d[i].first # EOF_BLOCK}
FileChain(d, m, i) == Chain(m, d[i].first)

\* The files of d own their blocks in m: no file's chain reaches block 0 (and
\* with it the free list), every chain comes to an end, and no two share a
\* block.
Owned(d, m) ==
    \A i \in HasBlocks(d) :
        /\ BLKMAP_BID \notin FileChain(d, m, i)
        /\ ChainEnds(m, d[i].first)
        /\ \A j \in HasBlocks(d) \ {i} : FileChain(d, m, i) \cap FileChain(d, m, j) = {}

\* The blocks that are neither free nor in a file.
Leaked(d, m) ==
    DataBlocks \ (FreeList(m) \cup UNION {FileChain(d, m, i) : i \in HasBlocks(d)})

-----------------------------------------------------------------------------
(* Invariants.                                                              *)

\* As long as block 0 holds a map, its free list, and that of the map do_write is
\* working on, leads back to block 0 and never splits or joins another list,
\* whatever failed or crashed before and also after allocations were lost: the
\* allocator hands out each free block at most once, and the count of free blocks
\* in info_myfs terminates.  A do_write that puts file data over the map, and dies
\* before it saves the map again, is what ends that.
FreeListSound ==
    /\ ~overwritten => Sound(map)
    /\ Writing => Sound(bmap)

\* A directory entry in use has a size exactly when it has a first block, and
\* that block is a data block, at every point where the process can die: so a
\* do_write that loads a map never starts from EOF_BLOCK, an index past its end.
EntriesConsistent ==
    \A i \in Live(dir) :
        /\ dir[i].first \in DataBlocks \cup {EOF_BLOCK}
        /\ dir[i].first = EOF_BLOCK <=> dir[i].size = 0

\* Names are unique and the entries in use precede the empty ones, which is
\* what the two directory scans rely on.
DirWellFormed ==
    /\ \A i, j \in Live(dir) : dir[i].name = dir[j].name => i = j
    /\ \A i \in Live(dir), j \in Slots : j < i => j \in Live(dir)

\* While no allocation was lost, the disk left by a request that returned or
\* died gives every file blocks of its own, apart from the free list.
FilesOwnBlocks == ~lost /\ Idle => Owned(dir, map)

\* While no allocation was lost, do_write works inside the file it was asked
\* to write, and the block it is about to write is a data block of that file:
\* neither the map, the directory nor another file's block is overwritten.
WriteStaysInFile ==
    ~lost /\ Writing =>
        /\ Owned(dir, bmap)
        /\ op.crtblk \in DataBlocks
        /\ op.crtblk \in FileChain(dir, bmap, op.di)
        /\ ~overwritten

\* A do_write that loaded a map, even after allocations were lost, only ever
\* writes blocks that the map can name: block 0 or a data block, never the
\* directory or a block outside the disk.  One that took file data for the map
\* may write anywhere: that takes a lost allocation.
WriteTargetOnDisk ==
    /\ Writing => op.crtblk \in MapIds
    /\ pc = "wild" => lost

-----------------------------------------------------------------------------
(* Action properties.                                                       *)

\* While no allocation was lost, blocks become unreachable only when a request
\* makes a file empty (do_truncate's "block leak"): failed and crashed writes
\* leak nothing.
LeakOnlyByTruncate ==
    [][ ~lost /\ pc # "format" /\ ~lost' /\ pc' # "format"
        /\ ~(Leaked(dir', map') \subseteq Leaked(dir, map))
        => \E i \in HasBlocks(dir) : dir'[i].first = EOF_BLOCK ]_vars

=============================================================================
