----------------------------- MODULE SSFSThreads -----------------------------
(***************************************************************************)
(* The handlers of ssfs.c on the worker threads that fuse_main starts       *)
(* unless it is given -s, one step per system call.                         *)
(*                                                                          *)
(* readBlock and writeBlock seek and then transfer, on one descriptor whose *)
(* offset every thread moves; bdir and bmap are one cache each for all.     *)
(* Between two system calls a handler runs undisturbed here, which is a     *)
(* coarse view of what the build may do.                                    *)
(*                                                                          *)
(* The model ends (wild) where what comes next is no longer a matter of     *)
(* blocks: a transfer at another block than the one asked for, a map read   *)
(* from a block of file data, or EOF_BLOCK used as an index.                *)
(***************************************************************************)
EXTENDS FsLayout

CONSTANTS Threads, \* FUSE's worker threads
          Kinds    \* the kinds of request that callers make

ASSUME KindsAssumption ==
    Kinds \subseteq {"getattr", "readdir", "read", "create", "truncate", "write"}

VARIABLES
    map, overwritten, dir, data, \* the disk, as in SSFS
    bdir,  \* the directory cached in memory
    bmap,  \* the block map cached in memory
    fpos,  \* the file offset of disk_fd, in blocks
    th,    \* per thread: its request, where its handler is, its locals
    wild,  \* why the model has ended, or "no"
    lost   \* history, as in SSFS

vars == <<map, overwritten, dir, data, bdir, bmap, fpos, th, wild, lost>>

disk == <<map, overwritten, dir, data>>

-----------------------------------------------------------------------------
(* Threads.                                                                 *)

\* The handlers: do_getattr, do_readdir, do_read, do_create, do_truncate and
\* do_write.  offset and size matter to the last alone.
Requests ==
    [kind : Kinds \ {"readdir", "write"}, name : Names,
     offset : {0}, size : {0}, payload : {Junk}]
    \cup [kind : Kinds \cap {"readdir"}, name : {NoName},
          offset : {0}, size : {0}, payload : {Junk}]
    \cup [kind : Kinds \cap {"write"}, name : Names,
          offset : Offsets, size : WriteSizes, payload : Payloads]
NoRequest == [kind |-> "none", name |-> NoName, offset |-> 0, size |-> 0, payload |-> Junk]

\* The phases of a handler that transfer a block, and the others.
IOPhases  == {"readroot", "loaddir", "loadmap", "savedir", "readfile",
              "readdata", "writedata", "savemap"}
RunPhases == {"idle", "look", "grow", "start", "nav"}

JunkBlock == [k \in 0 .. (BLOCK_SIZE - 1) |-> Junk]
IdleThread == [req |-> NoRequest, phase |-> "idle", seeked |-> FALSE,
               op |-> NoOp, bcache |-> JunkBlock]

TypeOK ==
    /\ map \in BlockMaps /\ bmap \in BlockMaps
    /\ overwritten \in BOOLEAN
    /\ dir \in Directories /\ bdir \in Directories
    /\ data \in [DataBlocks -> Blocks]
    /\ fpos \in 0 .. FS_NBLOCKS \cup {EOF_BLOCK}
    /\ th \in [Threads -> [req : Requests \cup {NoRequest}, phase : IOPhases \cup RunPhases,
                           seeked : BOOLEAN, op : Ops, bcache : Blocks]]
    /\ wild \in {"no", "offset", "map", "index"}
    /\ lost \in BOOLEAN

Busy(t)   == th[t].phase # "idle"
At(t, p)  == th[t].phase = p
Op(t)     == th[t].op

\* do_write is past the block write with which SSFS begins it.
Begun(t) == th[t].phase \in {"start", "nav", "readdata", "writedata", "savemap"}

Goto(t, p) == th' = [th EXCEPT ![t].phase = p, ![t].seeked = FALSE]
Return(t)  == th' = [th EXCEPT ![t] = IdleThread]
Stray(why, t) == wild' = why /\ UNCHANGED <<disk, bdir, bmap, fpos, th, lost>>

-----------------------------------------------------------------------------
(* Requests.                                                                *)

\* What the kernel lets through (the locks of its inodes): one write or
\* truncation of a name at a time, one creation at a time and only of a name
\* that its lookup did not find.
Changes(r) == r.kind \in {"truncate", "write"}
Admits(r) ==
    /\ Changes(r) => \A t \in Threads : ~(Changes(th[t].req) /\ th[t].req.name = r.name)
    /\ r.kind = "create" => /\ \A t \in Threads : th[t].req.kind # "create"
                            /\ FindDirEntry(dir, r.name) = {}

\* A thread takes a request from the kernel.
Take(t, r) ==
    /\ ~Busy(t) /\ Admits(r)
    /\ th' = [th EXCEPT ![t] = [IdleThread EXCEPT
                 !.req = r, !.phase = IF r.kind = "readdir" THEN "readroot" ELSE "loaddir"]]
    /\ UNCHANGED <<disk, bdir, bmap, fpos, wild, lost>>

-----------------------------------------------------------------------------
(* Block transfers.                                                         *)

\* The block that the thread's next transfer is to read or write.
Target(t) == CASE th[t].phase \in {"readroot", "loaddir", "savedir"} -> ROOTDIR_BID
               [] th[t].phase \in {"loadmap", "savemap"}             -> BLKMAP_BID
               [] OTHER                                              -> Op(t).crtblk

\* The lseek of readBlock and writeBlock.
Seek(t) ==
    /\ th[t].phase \in IOPhases /\ ~th[t].seeked
    /\ fpos' = Target(t)
    /\ th' = [th EXCEPT ![t].seeked = TRUE]
    /\ UNCHANGED <<disk, bdir, bmap, wild, lost>>

\* The read or write that follows, at the block asked for.  A transfer past the
\* end of the disk does not move the offset.
Transfer(t, p) ==
    /\ At(t, p) /\ th[t].seeked
    /\ fpos = Target(t)
    /\ fpos' = IF fpos = EOF_BLOCK THEN fpos ELSE fpos + 1

\* It follows another thread's seek or transfer instead.
Misdirected(t) ==
    /\ th[t].phase \in IOPhases /\ th[t].seeked
    /\ fpos # Target(t)
    /\ Stray("offset", t)

\* do_readdir
ReadRoot(t) ==
    /\ Transfer(t, "readroot") /\ Return(t)
    /\ UNCHANGED <<disk, bdir, bmap, wild, lost>>

\* load_directory
LoadDir(t) ==
    /\ Transfer(t, "loaddir") /\ Goto(t, "look")
    /\ bdir' = dir
    /\ UNCHANGED <<disk, bmap, wild, lost>>

\* save_directory
SaveDir(t) ==
    /\ Transfer(t, "savedir")
    /\ dir' = bdir
    /\ IF th[t].req.kind = "write" THEN Goto(t, "start") ELSE Return(t)
    /\ UNCHANGED <<map, overwritten, data, bdir, bmap, wild, lost>>

\* load_blockmap
LoadMap(t) ==
    /\ Transfer(t, "loadmap") /\ Goto(t, "grow")
    /\ ~overwritten
    /\ bmap' = map
    /\ UNCHANGED <<disk, bdir, wild, lost>>
LoadNoMap(t) ==
    /\ At(t, "loadmap") /\ th[t].seeked /\ fpos = Target(t)
    /\ overwritten
    /\ Stray("map", t)

\* Mutant of SaveMap: the map stays in memory.
SaveMapForgotten(t) ==
    /\ Transfer(t, "savemap") /\ Return(t)
    /\ UNCHANGED <<disk, bdir, bmap, wild, lost>>

\* save_blockmap
SaveMap(t) ==
    /\ Transfer(t, "savemap") /\ Return(t)
    /\ map' = bmap /\ overwritten' = FALSE
    /\ UNCHANGED <<dir, data, bdir, bmap, wild, lost>>

\* do_read reads the file's first block, if it has one.
ReadFile(t) ==
    /\ Transfer(t, "readfile") /\ Return(t)
    /\ UNCHANGED <<disk, bdir, bmap, wild, lost>>

\* do_write reads the block that it will change, ...
ReadData(t) ==
    /\ Transfer(t, "readdata")
    /\ th' = [th EXCEPT ![t].phase = "writedata", ![t].seeked = FALSE,
                        ![t].bcache = IF Op(t).crtblk \in DataBlocks
                                      THEN data[Op(t).crtblk] ELSE JunkBlock]
    /\ UNCHANGED <<disk, bdir, bmap, wild, lost>>

\* ... copies the request's bytes into it, and writes it back.
WriteData(t) ==
    /\ Transfer(t, "writedata") /\ Goto(t, "savemap")
    /\ \/ /\ Op(t).crtblk \in DataBlocks
          /\ data' = [data EXCEPT ![Op(t).crtblk] = Merged(Op(t), th[t].bcache)]
          /\ UNCHANGED overwritten
       \/ /\ Op(t).crtblk = BLKMAP_BID
          /\ overwritten' \in {overwritten, TRUE}
          /\ UNCHANGED data
    /\ UNCHANGED <<map, dir, bdir, bmap, wild, lost>>

-----------------------------------------------------------------------------
(* What the handlers do in memory.                                          *)

\* The entry that the request names, in the cached directory.
Found(t) == FindDirEntry(bdir, th[t].req.name)

\* do_getattr answers; the others fail with -ENOENT, do_create with -ENFILE.
Answer(t) ==
    /\ At(t, "look") /\ Return(t)
    /\ \/ th[t].req.kind = "getattr"
       \/ th[t].req.kind = "create" /\ FirstEmptyDirEntry(bdir) = {}
       \/ th[t].req.kind # "create" /\ Found(t) = {}
    /\ UNCHANGED <<disk, bdir, bmap, fpos, wild, lost>>

\* do_read takes the file's first block from its entry.
LookRead(t) ==
    /\ At(t, "look") /\ th[t].req.kind = "read"
    /\ \E i \in Found(t) :
          th' = [th EXCEPT ![t].phase = "readfile", ![t].op.crtblk = bdir[i].first]
    /\ UNCHANGED <<disk, bdir, bmap, fpos, wild, lost>>

\* do_create fills an entry in, ...
LookCreate(t) ==
    /\ At(t, "look") /\ th[t].req.kind = "create" /\ Goto(t, "savedir")
    /\ \E i \in FirstEmptyDirEntry(bdir) :
          bdir' = [bdir EXCEPT ![i] = [name |-> th[t].req.name, size |-> 0, first |-> EOF_BLOCK]]
    /\ UNCHANGED <<disk, bmap, fpos, wild, lost>>

\* ... and do_truncate empties one.
LookTruncate(t) ==
    /\ At(t, "look") /\ th[t].req.kind = "truncate" /\ Goto(t, "savedir")
    /\ \E i \in Found(t) :
          bdir' = [bdir EXCEPT ![i].size = 0, ![i].first = EOF_BLOCK]
    /\ UNCHANGED <<disk, bmap, fpos, wild, lost>>

\* do_write knows its entry, and the bytes that it will change.
LookWrite(t) ==
    /\ At(t, "look") /\ th[t].req.kind = "write"
    /\ \E i \in Found(t) :
          LET r == th[t].req
          IN  th' = [th EXCEPT
                 ![t].phase = "loadmap",
                 ![t].op = [NoOp EXCEPT
                     !.di = i, !.blkoffs = BlkOffs(r.offset), !.byteoffs = ByteOffs(r.offset),
                     !.crtsize = CrtSize(r.size, ByteOffs(r.offset)), !.payload = r.payload]]
    /\ UNCHANGED <<disk, bdir, bmap, fpos, wild, lost>>

\* The end of what the request writes, and the entry of its file.
End(t)   == th[t].req.offset + th[t].req.size
Entry(t) == bdir[Op(t).di]

\* The file is long enough.
Fits(t) ==
    /\ At(t, "grow") /\ Goto(t, "start")
    /\ ~Grows(Entry(t), End(t))
    /\ UNCHANGED <<disk, bdir, bmap, fpos, wild, lost>>

\* It has a block and gets longer.
Grow(t) ==
    /\ At(t, "grow") /\ Goto(t, "savedir")
    /\ Grows(Entry(t), End(t)) /\ Entry(t).first # EOF_BLOCK
    /\ bdir' = [bdir EXCEPT ![Op(t).di].size = End(t)]
    /\ UNCHANGED <<disk, bmap, fpos, wild, lost>>

\* Mutant of GrowFirst: the new block is not entered in the directory.
GrowFirstForgotten(t) ==
    /\ At(t, "grow") /\ NeedsFirst(Entry(t), End(t))
    /\ FreeHead(bmap) \in DataBlocks
    /\ bdir' = [bdir EXCEPT ![Op(t).di].size = End(t)]
    /\ bmap' = AllocateBlock(bmap)
    /\ th' = [th EXCEPT ![t].phase = "savedir", ![t].op.fresh = TRUE]
    /\ UNCHANGED <<disk, fpos, wild, lost>>

\* It gets its first block.
GrowFirst(t) ==
    /\ At(t, "grow") /\ NeedsFirst(Entry(t), End(t))
    /\ FreeHead(bmap) \in DataBlocks
    /\ bdir' = [bdir EXCEPT ![Op(t).di].size = End(t), ![Op(t).di].first = FreeHead(bmap)]
    /\ bmap' = AllocateBlock(bmap)
    /\ th' = [th EXCEPT ![t].phase = "savedir", ![t].op.fresh = TRUE]
    /\ UNCHANGED <<disk, fpos, wild, lost>>

\* -ENOSPC
GrowFull(t) ==
    /\ At(t, "grow") /\ NeedsFirst(Entry(t), End(t)) /\ Return(t)
    /\ ~HasFree(bmap)
    /\ UNCHANGED <<disk, bdir, bmap, fpos, wild, lost>>

\* The first block is read from the cached directory.
Start(t) ==
    /\ At(t, "start")
    /\ th' = [th EXCEPT ![t].phase = "nav", ![t].op.crtblk = Entry(t).first]
    /\ UNCHANGED <<disk, bdir, bmap, fpos, wild, lost>>

\* The loop of do_write is not at its end, at a block of the map.
Navigating(t) == At(t, "nav") /\ Op(t).blkoffs > 0 /\ Op(t).crtblk # EOF_BLOCK

MoveTo(t, b) ==
    th' = [th EXCEPT ![t].op.crtblk = b, ![t].op.blkoffs = @ - 1]

\* Mutant of NavFollow: the counter is not decremented.
NavFollowForever(t) ==
    /\ Navigating(t)
    /\ bmap[Op(t).crtblk] # EOF_BLOCK
    /\ th' = [th EXCEPT ![t].op.crtblk = bmap[Op(t).crtblk]]
    /\ UNCHANGED <<disk, bdir, bmap, fpos, wild, lost>>

NavFollow(t) ==
    /\ Navigating(t)
    /\ bmap[Op(t).crtblk] # EOF_BLOCK
    /\ MoveTo(t, bmap[Op(t).crtblk])
    /\ UNCHANGED <<disk, bdir, bmap, fpos, wild, lost>>

NavExtend(t) ==
    /\ Navigating(t)
    /\ bmap[Op(t).crtblk] = EOF_BLOCK
    /\ FreeHead(bmap) \in DataBlocks
    /\ bmap' = [AllocateBlock(bmap) EXCEPT ![Op(t).crtblk] = FreeHead(bmap)]
    /\ MoveTo(t, FreeHead(bmap))
    /\ UNCHANGED <<disk, bdir, fpos, wild, lost>>

NavFull(t) ==
    /\ Navigating(t)
    /\ bmap[Op(t).crtblk] = EOF_BLOCK
    /\ ~HasFree(bmap)
    /\ Return(t)
    /\ lost' = (lost \/ Op(t).fresh)
    /\ UNCHANGED <<disk, bdir, bmap, fpos, wild>>

NavDone(t) ==
    /\ At(t, "nav") /\ Op(t).blkoffs = 0 /\ Op(t).crtblk # EOF_BLOCK
    /\ Goto(t, "readdata")
    /\ UNCHANGED <<disk, bdir, bmap, fpos, wild, lost>>

\* EOF_BLOCK is taken for a block: as the one to follow or to write, or as the
\* head of the free list, which allocateBlock follows too.
IndexesEof(t) ==
    /\ \/ At(t, "nav") /\ Op(t).crtblk = EOF_BLOCK
       \/ /\ FreeHead(bmap) = EOF_BLOCK
          /\ \/ At(t, "grow") /\ NeedsFirst(Entry(t), End(t))
             \/ Navigating(t) /\ bmap[Op(t).crtblk] = EOF_BLOCK
    /\ Stray("index", t)

-----------------------------------------------------------------------------

\* The process dies; a new one mounts the disk.
Crash ==
    /\ \E t \in Threads : Busy(t)
    /\ bdir' = EmptyDir /\ bmap' = ZeroMap /\ fpos' = 0
    /\ th' = [t \in Threads |-> IdleThread]
    /\ lost' = (lost \/ \E t \in Threads : Begun(t) /\ Op(t).fresh)
    /\ UNCHANGED <<disk, wild>>

Init ==
    /\ map = FormatMap /\ overwritten = FALSE
    /\ dir = EmptyDir /\ data = JunkData
    /\ bdir = EmptyDir /\ bmap = ZeroMap
    /\ fpos = 0
    /\ th = [t \in Threads |-> IdleThread]
    /\ wild = "no"
    /\ lost = FALSE

InMemory(t) ==
    \/ Answer(t) \/ LookRead(t) \/ LookCreate(t) \/ LookTruncate(t) \/ LookWrite(t)
    \/ Fits(t) \/ Grow(t) \/ GrowFirst(t) \/ GrowFull(t)
    \/ Start(t) \/ NavFollow(t) \/ NavExtend(t) \/ NavFull(t) \/ NavDone(t)
    \/ IndexesEof(t)

OnDisk(t) ==
    \/ Seek(t) \/ Misdirected(t)
    \/ ReadRoot(t) \/ LoadDir(t) \/ SaveDir(t) \/ LoadMap(t) \/ LoadNoMap(t) \/ SaveMap(t)
    \/ ReadFile(t) \/ ReadData(t) \/ WriteData(t)

\* The handler that t runs goes on.
Handler(t) == wild = "no" /\ (InMemory(t) \/ OnDisk(t))

\* The model has ended.
Ended == wild # "no" /\ UNCHANGED vars

Next ==
    \/ \E t \in Threads : Handler(t)
    \/ wild = "no" /\ \E t \in Threads, r \in Requests : Take(t, r)
    \/ wild = "no" /\ Crash
    \/ Ended

Spec == Init /\ [][Next]_vars

\* Every thread that runs a handler is scheduled: no step of it waits.
FairSpec == Spec /\ \A t \in Threads : WF_vars(Handler(t))

=============================================================================
