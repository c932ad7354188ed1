-------------------------------- MODULE SSFS --------------------------------
(***************************************************************************)
(* The Simple & Stupid Filesystem of lab4_fs (ssfs.c, fs_support.c,         *)
(* format_myfs.c), serving one request at a time (FUSE's -s).               *)
(*                                                                          *)
(* The disk has a block map (block 0), a directory (block 1) and data       *)
(* blocks.  Every block write is atomic, and a request that writes several  *)
(* blocks is cut between them, so that the process can die there.  Each     *)
(* request reloads the directory before it uses it, so the directory cache  *)
(* (bdir) always equals the directory on the disk and is not a variable     *)
(* here; the cached map (bmap) runs ahead of the one on the disk during     *)
(* do_write and is.                                                         *)
(*                                                                          *)
(* The model ends (wild) where do_write takes file data for the map.        *)
(***************************************************************************)
EXTENDS FsLayout

VARIABLES
    map,         \* the block map last written to block 0 on the disk
    overwritten, \* since then file data has been written over it: map is only
                 \* history, and block 0 holds no map
    dir,         \* block 1 on the disk: the directory
    data,        \* the data blocks on the disk
    bmap,        \* the block map cached in memory, while do_write uses it
    pc,          \* what the process is doing
    op,          \* the locals of the do_write in progress
    lost         \* history: a file's first block was allocated in a map that
                 \* was dropped before it reached the disk

vars == <<map, overwritten, dir, data, bmap, pc, op, lost>>

-----------------------------------------------------------------------------
TypeOK ==
    /\ map \in BlockMaps
    /\ overwritten \in BOOLEAN
    /\ dir \in Directories
    /\ data \in [DataBlocks -> Blocks]
    /\ bmap \in BlockMaps
    /\ pc \in {"idle", "nav", "save", "format", "wild"}
    /\ op \in Ops
    /\ lost \in BOOLEAN

\* do_write is between its first block write and its return.
Writing == pc \in {"nav", "save"}

-----------------------------------------------------------------------------
(* Requests other than do_write.                                            *)

Idle == pc = "idle"

\* do_create.  The kernel sends it only when its own lookup (do_getattr) has
\* not found the name.  A full directory changes nothing (-ENFILE).
Create(n) ==
    /\ Idle
    /\ FindDirEntry(dir, n) = {}
    /\ \E i \in FirstEmptyDirEntry(dir) :
          dir' = [dir EXCEPT ![i] = [name |-> n, size |-> 0, first |-> EOF_BLOCK]]
    /\ UNCHANGED <<map, overwritten, data, bmap, pc, op, lost>>

\* Mutants of Truncate: it forgets the first block, or the size.
TruncateKeepsFirst(n, offset) ==
    /\ Idle
    /\ \E i \in FindDirEntry(dir, n) : dir' = [dir EXCEPT ![i].size = 0]
    /\ UNCHANGED <<map, overwritten, data, bmap, pc, op, lost>>
TruncateKeepsSize(n, offset) ==
    /\ Idle
    /\ \E i \in FindDirEntry(dir, n) : dir' = [dir EXCEPT ![i].first = EOF_BLOCK]
    /\ UNCHANGED <<map, overwritten, data, bmap, pc, op, lost>>

\* do_truncate: whatever the length asked for (offset), the file becomes empty,
\* and its blocks are cut loose.
Truncate(n, offset) ==
    /\ Idle
    /\ \E i \in FindDirEntry(dir, n) :
          dir' = [dir EXCEPT ![i].size = 0, ![i].first = EOF_BLOCK]
    /\ UNCHANGED <<map, overwritten, data, bmap, pc, op, lost>>

-----------------------------------------------------------------------------
(* do_write, one action per block write or iteration of its loop.           *)

\* From the lookup to save_directory: find the file, load the map, allocate a
\* first block if the file has none, and record its new size.  Here block 0 holds
\* a map; WriteOnLostMap is the other case.
WriteBegin(n, offset, size, payload) ==
    /\ Idle /\ ~overwritten
    /\ \E i \in FindDirEntry(dir, n) :
          LET end   == offset + size
              fresh == NeedsFirst(dir[i], end)
              first == IF fresh THEN FreeHead(map) ELSE dir[i].first
              boffs == ByteOffs(offset)
          IN  /\ fresh => HasFree(map)
              /\ bmap' = IF fresh THEN AllocateBlock(map) ELSE map
              /\ dir'  = IF Grows(dir[i], end)
                         THEN [dir EXCEPT ![i].size = end, ![i].first = first]
                         ELSE dir
              /\ op'   = [di |-> i, blkoffs |-> BlkOffs(offset),
                          byteoffs |-> boffs, crtsize |-> CrtSize(size, boffs),
                          payload |-> payload, crtblk |-> first, fresh |-> fresh]
    /\ pc' = "nav"
    /\ UNCHANGED <<map, overwritten, data, lost>>

\* -ENOSPC before anything was changed: the file needs a first block and there
\* is none.
WriteNoSpace(n, offset, size) ==
    /\ Idle /\ ~overwritten
    /\ \E i \in FindDirEntry(dir, n) : NeedsFirst(dir[i], offset + size)
    /\ ~HasFree(map)
    /\ UNCHANGED vars

\* load_blockmap does not look at what it reads.  Where block 0 holds file data,
\* each id that do_write goes on to allocate, follow and write can be any number,
\* block 1, a block past the disk and EOF_BLOCK among them, and so can the map
\* that it saves.  Nothing is said of what comes next: the model ends.
WriteOnLostMap(n) ==
    /\ Idle /\ overwritten
    /\ FindDirEntry(dir, n) # {}
    /\ pc' = "wild"
    /\ UNCHANGED <<map, overwritten, dir, data, bmap, op, lost>>

Navigating == pc = "nav" /\ op.blkoffs > 0

\* One iteration: the current block has a successor.
NavFollow ==
    /\ Navigating
    /\ bmap[op.crtblk] # EOF_BLOCK
    /\ op' = [op EXCEPT !.crtblk = bmap[op.crtblk], !.blkoffs = @ - 1]
    /\ UNCHANGED <<map, overwritten, dir, data, bmap, pc, lost>>

\* Mutant of NavExtend: the new block is not linked to the file.
NavExtendUnlinked ==
    /\ Navigating
    /\ bmap[op.crtblk] = EOF_BLOCK
    /\ HasFree(bmap)
    /\ bmap' = AllocateBlock(bmap)
    /\ op' = [op EXCEPT !.crtblk = FreeHead(bmap), !.blkoffs = @ - 1]
    /\ UNCHANGED <<map, overwritten, dir, data, pc, lost>>

\* One iteration: past the end of the file, a new block is linked in.
NavExtend ==
    /\ Navigating
    /\ bmap[op.crtblk] = EOF_BLOCK
    /\ HasFree(bmap)
    /\ LET nblk == FreeHead(bmap)
       IN  /\ bmap' = [AllocateBlock(bmap) EXCEPT ![op.crtblk] = nblk]
           /\ op' = [op EXCEPT !.crtblk = nblk, !.blkoffs = @ - 1]
    /\ UNCHANGED <<map, overwritten, dir, data, pc, lost>>

\* One iteration: no free block, do_write returns -ENOSPC.  The directory was
\* saved; the map is not.
NavFull ==
    /\ Navigating
    /\ bmap[op.crtblk] = EOF_BLOCK
    /\ ~HasFree(bmap)
    /\ pc' = "idle" /\ op' = NoOp /\ bmap' = ZeroMap
    /\ lost' = (lost \/ op.fresh)
    /\ UNCHANGED <<map, overwritten, dir, data>>

\* Read, modify and write the block that the loop stopped at.  In block 0, bytes
\* behind the entries in use leave the map as it was.
WriteData ==
    /\ pc = "nav" /\ op.blkoffs = 0
    /\ \/ /\ op.crtblk \in DataBlocks
          /\ data' = [data EXCEPT ![op.crtblk] = Merged(op, data[op.crtblk])]
          /\ UNCHANGED overwritten
       \/ /\ op.crtblk = BLKMAP_BID
          /\ overwritten' \in {overwritten, TRUE}
          /\ UNCHANGED data
    /\ pc' = "save"
    /\ UNCHANGED <<map, dir, bmap, op, lost>>

\* Mutant of SaveMap: the map stays in memory.
SaveMapForgotten ==
    /\ pc = "save"
    /\ pc' = "idle" /\ op' = NoOp /\ bmap' = ZeroMap
    /\ UNCHANGED <<map, overwritten, dir, data, lost>>

\* save_blockmap, and do_write reports that it wrote everything.
SaveMap ==
    /\ pc = "save"
    /\ map' = bmap /\ overwritten' = FALSE
    /\ pc' = "idle" /\ op' = NoOp /\ bmap' = ZeroMap
    /\ UNCHANGED <<dir, data, lost>>

-----------------------------------------------------------------------------
(* Formatting and crashes.                                                  *)

\* format_myfs on the unmounted disk: first the map, then the directory.
FormatMapBlock ==
    /\ Idle
    /\ map' = FormatMap /\ overwritten' = FALSE
    /\ pc' = "format"
    /\ UNCHANGED <<dir, data, bmap, op, lost>>

FormatDirBlock ==
    /\ pc = "format"
    /\ dir' = EmptyDir
    /\ lost' = FALSE
    /\ pc' = "idle"
    /\ UNCHANGED <<map, overwritten, data, bmap, op>>

\* The process dies between two block writes; a new one mounts the disk.
Crash ==
    /\ Writing \/ pc = "format"
    /\ bmap' = ZeroMap
    /\ pc' = "idle" /\ op' = NoOp
    /\ lost' = \/ lost
               \/ Writing /\ op.fresh
               \/ pc = "format" /\ \E i \in Live(dir) : dir[i].first # EOF_BLOCK
    /\ UNCHANGED <<map, overwritten, dir, data>>

-----------------------------------------------------------------------------

\* A freshly formatted disk.
Init ==
    /\ map = FormatMap
    /\ overwritten = FALSE
    /\ dir = EmptyDir
    /\ data = JunkData
    /\ bmap = ZeroMap
    /\ pc = "idle"
    /\ op = NoOp
    /\ lost = FALSE

Request ==
    \E n \in Names :
       \/ Create(n)
       \/ \E offset \in Offsets : Truncate(n, offset)
       \/ \E offset \in Offsets, size \in WriteSizes :
             \/ \E payload \in Payloads : WriteBegin(n, offset, size, payload)
             \/ WriteNoSpace(n, offset, size)
       \/ WriteOnLostMap(n)

\* The steps by which do_write goes on to return.
WriteStep == NavFollow \/ NavExtend \/ NavFull \/ WriteData \/ SaveMap

Format == FormatMapBlock \/ FormatDirBlock

\* The model has ended.
Ended == pc = "wild" /\ UNCHANGED vars

Next == Request \/ WriteStep \/ Format \/ Crash \/ Ended

Spec == Init /\ [][Next]_vars

=============================================================================
