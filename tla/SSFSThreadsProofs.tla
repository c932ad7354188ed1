--------------------------- MODULE SSFSThreadsProofs ---------------------------
(***************************************************************************)
(* Proofs about the worker threads of ssfs.c: types for any number of them, *)
(* and that one alone (-s) implements SSFS.                                 *)
(***************************************************************************)
EXTENDS SSFSThreadsProperties, BlockMapProofs

USE DEF Directories

-----------------------------------------------------------------------------
(* Types, for any number of threads.                                        *)

\* Bookkeeping facts about ids.
LEMMA Ids ==
    /\ BLKMAP_BID \in MapIds /\ BLKMAP_BID \notin DataBlocks
    /\ DataBlocks \subseteq MapIds
    /\ EOF_BLOCK \notin MapIds
    /\ MapIds \subseteq DataBlocks \cup {BLKMAP_BID}
BY BlockMapAssumption DEF MapIds, DataBlocks, BLKMAP_BID

\* The constant states.
LEMMA ConstantTypes ==
    /\ ZeroMap \in BlockMaps
    /\ EmptyDir \in Directories
    /\ NoOp \in Ops
    /\ JunkBlock \in Blocks
    /\ JunkData \in [DataBlocks -> Blocks]
    /\ NoRequest.kind = "none" /\ NoRequest.offset \in Nat /\ NoRequest.size \in Nat
<1>1. EmptyEntry \in Entries
  BY Ids DEF EmptyEntry, Entries
<1>2. 0 \in Slots
  BY FsAssumption DEF Slots
<1>3. NoOp \in Ops
  BY <1>2, Ids DEF NoOp, Ops, Bytes
<1>4. ZeroMap \in BlockMaps
  BY Ids DEF ZeroMap, BlockMaps
<1>5. JunkBlock \in Blocks /\ JunkData \in [DataBlocks -> Blocks]
  BY DEF JunkBlock, JunkData, Blocks, Bytes
<1>6. EmptyDir \in Directories
  BY <1>1 DEF EmptyDir
<1>7. QED
  BY <1>3, <1>4, <1>5, <1>6 DEF NoRequest

\* What a thread is.
Phases == IOPhases \cup RunPhases
ThreadStates ==
    [req : Requests \cup {NoRequest}, phase : Phases, seeked : BOOLEAN, op : Ops, bcache : Blocks]

LEMMA IdleType == IdleThread \in ThreadStates
BY ConstantTypes DEF IdleThread, ThreadStates, Phases, RunPhases

\* The numbers of a request.
LEMMA RequestNumbers ==
    ASSUME NEW r \in Requests \cup {NoRequest}
    PROVE  /\ r.offset \in Nat /\ r.size \in Nat /\ r.offset + r.size \in Nat
           /\ r.payload \in Bytes
           /\ BlkOffs(r.offset) \in Nat
           /\ ByteOffs(r.offset) \in Nat
           /\ CrtSize(r.size, ByteOffs(r.offset)) \in Nat
<1>1. r.offset \in Nat /\ r.size \in Nat /\ r.payload \in Bytes
  <2>1. CASE r = NoRequest
    BY <2>1 DEF NoRequest, Bytes
  <2> DEFINE Plain  == [kind : Kinds \ {"readdir", "write"}, name : Names,
                        offset : {0}, size : {0}, payload : {Junk}]
             Listings == [kind : Kinds \cap {"readdir"}, name : {NoName},
                          offset : {0}, size : {0}, payload : {Junk}]
             Writes == [kind : Kinds \cap {"write"}, name : Names,
                        offset : Offsets, size : WriteSizes, payload : Payloads]
  <2>2. CASE r \in Plain
    BY <2>2 DEF Bytes
  <2>3. CASE r \in Listings
    BY <2>3 DEF Bytes
  <2>4. CASE r \in Writes
    BY <2>4, FsAssumption DEF Bytes
  <2>5. r = NoRequest \/ r \in Plain \/ r \in Listings \/ r \in Writes
    BY Zenon DEF Requests
  <2>6. QED
    BY <2>1, <2>2, <2>3, <2>4, <2>5
<1>2. BLOCK_SIZE \in Nat /\ BLOCK_SIZE > 0
  BY FsAssumption
<1>3. r.offset \div BLOCK_SIZE \in Int
  BY <1>1, <1>2
<1>4. BlkOffs(r.offset) \in Nat
  BY <1>3 DEF BlkOffs, USHRT_RANGE
<1>5. ByteOffs(r.offset) \in 0 .. (BLOCK_SIZE - 1)
  BY <1>1, <1>2 DEF ByteOffs
<1>6. CrtSize(r.size, ByteOffs(r.offset)) \in Nat
  BY <1>1, <1>2, <1>5 DEF CrtSize
<1>7. QED
  BY <1>1, <1>4, <1>5, <1>6

\* An allocation leaves a map, as long as the head of the free list is a block.
LEMMA AllocateType ==
    ASSUME NEW m \in BlockMaps, FreeHead(m) \in DataBlocks
    PROVE  AllocateBlock(m) \in BlockMaps
BY Ids DEF AllocateBlock, BlockMaps

\* So does a new size and first block in an entry leave a directory.
LEMMA UpdateType ==
    ASSUME NEW d \in Directories, NEW i \in Slots, NEW size \in Nat,
           NEW first \in MapIds \cup {EOF_BLOCK}
    PROVE  [d EXCEPT ![i].size = size, ![i].first = first] \in Directories
BY DEF Entries

\* Steps of one thread keep its type, and those of the others.
LEMMA OneThreadType ==
    ASSUME TypeOK, NEW t \in Threads, NEW s \in ThreadStates, th' = [th EXCEPT ![t] = s]
    PROVE  th' \in [Threads -> ThreadStates]
BY DEF TypeOK, ThreadStates, Phases

LEMMA TypeInMemory ==
    ASSUME TypeOK, NEW t \in Threads, InMemory(t)
    PROVE  TypeOK'
<1> DEFINE s == th[t]
<1>1. /\ s \in ThreadStates /\ th \in [Threads -> ThreadStates]
      /\ map \in BlockMaps /\ bmap \in BlockMaps
      /\ dir \in Directories /\ bdir \in Directories
      /\ fpos \in 0 .. FS_NBLOCKS \cup {EOF_BLOCK}
      /\ wild \in {"no", "offset", "map", "index"} /\ lost \in BOOLEAN
  BY DEF TypeOK, ThreadStates, Phases
<1>2. /\ s.op \in Ops /\ s.req \in Requests \cup {NoRequest} /\ s.bcache \in Blocks
      /\ s.seeked \in BOOLEAN /\ s.phase \in Phases
  BY <1>1 DEF ThreadStates
<1>3. s.op.di \in Slots /\ s.op.crtblk \in MapIds \cup {EOF_BLOCK} /\ s.op.blkoffs \in Nat
  BY <1>2 DEF Ops
<1>4. End(t) \in Nat
  BY <1>2, RequestNumbers DEF End
<1>5. Entry(t) \in Entries /\ Entry(t).first \in MapIds \cup {EOF_BLOCK}
  BY <1>1, <1>3 DEF Entry, Op, Entries
<1>6. UNCHANGED <<map, overwritten, dir, data>>
  BY DEF InMemory, Answer, LookRead, LookCreate, LookTruncate, LookWrite, Fits, Grow, GrowFirst,
         GrowFull, Start, NavFollow, NavExtend, NavFull, NavDone, IndexesEof, Stray, disk
<1> SUFFICES /\ th' \in [Threads -> ThreadStates] /\ bmap' \in BlockMaps /\ bdir' \in Directories
             /\ fpos' \in 0 .. FS_NBLOCKS \cup {EOF_BLOCK}
             /\ wild' \in {"no", "offset", "map", "index"} /\ lost' \in BOOLEAN
  BY <1>6 DEF TypeOK, ThreadStates, Phases
<1>7. CASE Answer(t) \/ GrowFull(t)
  BY <1>1, <1>7, IdleType DEF Answer, GrowFull, Return
<1>8. CASE LookRead(t)
  <2>1. PICK i \in Found(t) : th' = [th EXCEPT ![t].phase = "readfile", ![t].op.crtblk = bdir[i].first]
    BY <1>8 DEF LookRead
  <2>2. bdir[i].first \in MapIds \cup {EOF_BLOCK}
    BY <1>1, <2>1 DEF Found, FindDirEntry, Entries
  <2>3. [s EXCEPT !.phase = "readfile", !.op.crtblk = bdir[i].first] \in ThreadStates
    BY <1>1, <1>2, <2>2 DEF ThreadStates, Ops, Phases, IOPhases
  <2>4. QED
    BY <1>1, <1>8, <2>1, <2>3 DEF LookRead
<1>9. ASSUME NEW p \in Phases, Goto(t, p) PROVE th' \in [Threads -> ThreadStates]
  BY <1>1, <1>9 DEF Goto, ThreadStates
<1>10. CASE LookCreate(t)
  <2>1. bdir' \in Directories
    BY <1>1, <1>2, <1>10 DEF LookCreate, FirstEmptyDirEntry, Entries, Requests, NoRequest
  <2>2. QED
    BY <1>1, <1>9, <1>10, <2>1 DEF LookCreate, Phases, IOPhases
<1>11. CASE LookTruncate(t)
  <2>1. bdir' \in Directories
    <3>1. PICK i \in Found(t) : bdir' = [bdir EXCEPT ![i].size = 0, ![i].first = EOF_BLOCK]
      BY <1>11 DEF LookTruncate
    <3>2. i \in Slots
      BY DEF Found, FindDirEntry
    <3>3. QED
      BY <1>1, <3>1, <3>2, UpdateType
  <2>2. QED
    BY <1>1, <1>9, <1>11, <2>1 DEF LookTruncate, Phases, IOPhases
<1>12. CASE LookWrite(t)
  <2>1. PICK i \in Found(t) :
          th' = [th EXCEPT
                 ![t].phase = "loadmap",
                 ![t].op = [NoOp EXCEPT
                     !.di = i, !.blkoffs = BlkOffs(s.req.offset), !.byteoffs = ByteOffs(s.req.offset),
                     !.crtsize = CrtSize(s.req.size, ByteOffs(s.req.offset)), !.payload = s.req.payload]]
    BY <1>12 DEF LookWrite
  <2>2. i \in Slots
    BY <2>1 DEF Found, FindDirEntry
  <2> DEFINE o == [NoOp EXCEPT
                     !.di = i, !.blkoffs = BlkOffs(s.req.offset), !.byteoffs = ByteOffs(s.req.offset),
                     !.crtsize = CrtSize(s.req.size, ByteOffs(s.req.offset)), !.payload = s.req.payload]
  <2>3. o \in Ops
    BY <1>2, <2>2, ConstantTypes, RequestNumbers DEF Ops
  <2> HIDE DEF o
  <2>4. [s EXCEPT !.phase = "loadmap", !.op = o] \in ThreadStates
    BY <1>1, <2>3 DEF ThreadStates, Phases, IOPhases
  <2>5. th' = [th EXCEPT ![t] = [s EXCEPT !.phase = "loadmap", !.op = o]]
    BY <1>1, <2>1 DEF o
  <2>6. QED
    BY <1>1, <1>12, <2>4, <2>5, OneThreadType DEF LookWrite
<1>13. CASE Fits(t)
  BY <1>1, <1>9, <1>13 DEF Fits, Phases, RunPhases
<1>14. CASE Grow(t)
  <2>1. bdir' \in Directories
    BY <1>1, <1>3, <1>4, <1>14 DEF Grow, Op, Entries
  <2>2. QED
    BY <1>1, <1>9, <1>14, <2>1 DEF Grow, Phases, IOPhases
<1>15. CASE GrowFirst(t)
  <2>1. bdir' \in Directories
    BY <1>1, <1>3, <1>4, <1>15, Ids, UpdateType DEF GrowFirst, Op
  <2>2. bmap' \in BlockMaps
    BY <1>1, <1>15, AllocateType DEF GrowFirst
  <2>3. th' \in [Threads -> ThreadStates]
    BY <1>1, <1>2, <1>15 DEF GrowFirst, ThreadStates, Ops, Phases, IOPhases
  <2>4. QED
    BY <1>1, <1>15, <2>1, <2>2, <2>3 DEF GrowFirst
<1>16. CASE Start(t)
  BY <1>1, <1>2, <1>5, <1>16 DEF Start, ThreadStates, Ops, Phases, RunPhases
<1>17. ASSUME NEW b \in MapIds \cup {EOF_BLOCK}, Navigating(t), MoveTo(t, b)
       PROVE  th' \in [Threads -> ThreadStates]
  <2> DEFINE k == s.op.blkoffs - 1
  <2>1. k \in Nat
    BY <1>3, <1>17 DEF Navigating, Op
  <2>2. th' = [th EXCEPT ![t].op.crtblk = b, ![t].op.blkoffs = k]
    BY <1>1, <1>2, <1>17 DEF MoveTo, Op, ThreadStates, Ops
  <2> HIDE DEF k
  <2>3. [s.op EXCEPT !.crtblk = b, !.blkoffs = k] \in Ops
    BY <1>2, <2>1 DEF Ops
  <2>4. QED
    BY <1>1, <1>2, <2>2, <2>3 DEF ThreadStates
<1>18. CASE NavFollow(t)
  <2>1. bmap[s.op.crtblk] \in MapIds \cup {EOF_BLOCK}
    BY <1>1, <1>3, <1>18 DEF NavFollow, Navigating, Op, BlockMaps
  <2>2. QED
    BY <1>1, <1>17, <1>18, <2>1 DEF NavFollow, Op
<1>19. CASE NavExtend(t)
  <2>1. FreeHead(bmap) \in MapIds
    BY <1>19, Ids DEF NavExtend
  <2>2. bmap' \in BlockMaps
    BY <1>1, <1>19, <2>1, AllocateType DEF NavExtend, BlockMaps
  <2>3. QED
    BY <1>1, <1>17, <1>19, <2>1, <2>2 DEF NavExtend
<1>20. CASE NavFull(t)
  BY <1>1, <1>2, <1>20, IdleType DEF NavFull, Return, Op, Ops
<1>21. CASE NavDone(t)
  BY <1>1, <1>9, <1>21 DEF NavDone, Phases, IOPhases
<1>22. CASE IndexesEof(t)
  BY <1>1, <1>22 DEF IndexesEof, Stray
<1>23. QED
  BY <1>7, <1>8, <1>10, <1>11, <1>12, <1>13, <1>14, <1>15, <1>16, <1>18, <1>19, <1>20, <1>21, <1>22
     DEF InMemory

\* The block that is merged has the type of one.
LEMMA MergedType ==
    ASSUME NEW o \in Ops, NEW block \in Blocks
    PROVE  Merged(o, block) \in Blocks
BY DEF Merged, Blocks, Ops

LEMMA TypeOnDisk ==
    ASSUME TypeOK, NEW t \in Threads, OnDisk(t)
    PROVE  TypeOK'
<1> DEFINE s == th[t]
<1>1. /\ s \in ThreadStates /\ th \in [Threads -> ThreadStates]
      /\ map \in BlockMaps /\ bmap \in BlockMaps /\ overwritten \in BOOLEAN
      /\ dir \in Directories /\ bdir \in Directories /\ data \in [DataBlocks -> Blocks]
      /\ fpos \in 0 .. FS_NBLOCKS \cup {EOF_BLOCK}
      /\ wild \in {"no", "offset", "map", "index"} /\ lost \in BOOLEAN
  BY DEF TypeOK, ThreadStates, Phases
<1>2. s.op \in Ops /\ s.bcache \in Blocks /\ s.op.crtblk \in MapIds \cup {EOF_BLOCK}
  BY <1>1 DEF ThreadStates, Ops
<1>3. Target(t) \in 0 .. (FS_NBLOCKS - 1) \cup {EOF_BLOCK}
  BY <1>2, BlockMapAssumption DEF Target, Op, MapIds, DataBlocks, BLKMAP_BID, ROOTDIR_BID
<1> SUFFICES /\ th' \in [Threads -> ThreadStates]
             /\ map' \in BlockMaps /\ bmap' \in BlockMaps /\ overwritten' \in BOOLEAN
             /\ dir' \in Directories /\ bdir' \in Directories /\ data' \in [DataBlocks -> Blocks]
             /\ fpos' \in 0 .. FS_NBLOCKS \cup {EOF_BLOCK}
             /\ wild' \in {"no", "offset", "map", "index"} /\ lost' \in BOOLEAN
  BY DEF TypeOK, ThreadStates, Phases
<1>4. ASSUME NEW p, Transfer(t, p) PROVE fpos' \in 0 .. FS_NBLOCKS \cup {EOF_BLOCK}
  BY <1>3, <1>4, BlockMapAssumption DEF Transfer
<1>5. ASSUME NEW p \in Phases, Goto(t, p) PROVE th' \in [Threads -> ThreadStates]
  BY <1>1, <1>5 DEF Goto, ThreadStates
<1>6. ASSUME Return(t) PROVE th' \in [Threads -> ThreadStates]
  BY <1>1, <1>6, IdleType DEF Return
<1>7. CASE Seek(t)
  <2>1. fpos' \in 0 .. FS_NBLOCKS \cup {EOF_BLOCK}
    BY <1>3, <1>7, BlockMapAssumption DEF Seek
  <2>2. th' \in [Threads -> ThreadStates]
    BY <1>1, <1>7 DEF Seek, ThreadStates
  <2>3. QED
    BY <1>1, <1>7, <2>1, <2>2 DEF Seek, disk
<1>8. CASE Misdirected(t) \/ LoadNoMap(t)
  BY <1>1, <1>8 DEF Misdirected, LoadNoMap, Stray, disk
<1>9. CASE ReadRoot(t) \/ ReadFile(t)
  BY <1>1, <1>4, <1>6, <1>9 DEF ReadRoot, ReadFile, disk
<1>10. CASE LoadDir(t)
  BY <1>1, <1>4, <1>5, <1>10 DEF LoadDir, disk, Phases, RunPhases
<1>11. CASE SaveDir(t)
  BY <1>1, <1>4, <1>5, <1>6, <1>11 DEF SaveDir, Phases, RunPhases
<1>12. CASE LoadMap(t)
  BY <1>1, <1>4, <1>5, <1>12 DEF LoadMap, disk, Phases, RunPhases
<1>13. CASE SaveMap(t)
  BY <1>1, <1>4, <1>6, <1>13 DEF SaveMap
<1>14. CASE ReadData(t)
  <2>1. (IF Op(t).crtblk \in DataBlocks THEN data[Op(t).crtblk] ELSE JunkBlock) \in Blocks
    BY <1>1, ConstantTypes
  <2>2. th' \in [Threads -> ThreadStates]
    BY <1>1, <1>14, <2>1 DEF ReadData, ThreadStates, Phases, IOPhases
  <2>3. QED
    BY <1>1, <1>4, <1>14, <2>2 DEF ReadData, disk
<1>15. CASE WriteData(t)
  <2>1. Merged(Op(t), th[t].bcache) \in Blocks
    BY <1>2, MergedType DEF Op
  <2>2. data' \in [DataBlocks -> Blocks] /\ overwritten' \in BOOLEAN
    BY <1>1, <1>15, <2>1 DEF WriteData
  <2>3. QED
    BY <1>1, <1>4, <1>5, <1>15, <2>2 DEF WriteData, Phases, IOPhases
<1>16. QED
  BY <1>7, <1>8, <1>9, <1>10, <1>11, <1>12, <1>13, <1>14, <1>15 DEF OnDisk

\* Every cache, offset and thread keeps its type, whatever threads do to one
\* another: in particular the maps only ever hold ids of blocks.
THEOREM ThreadsTypeCorrect == Spec => []TypeOK
<1>1. Init => TypeOK
  <2> SUFFICES ASSUME Init PROVE TypeOK
    OBVIOUS
  <2>1. th \in [Threads -> ThreadStates]
    BY IdleType DEF Init
  <2>2. map \in BlockMaps /\ bmap \in BlockMaps /\ dir \in Directories /\ bdir \in Directories
        /\ data \in [DataBlocks -> Blocks]
    BY ConstantTypes, FormatMapType DEF Init
  <2>3. fpos \in 0 .. FS_NBLOCKS
    BY BlockMapAssumption DEF Init
  <2>4. QED
    BY <2>1, <2>2, <2>3 DEF Init, TypeOK, ThreadStates, Phases
<1>2. ASSUME TypeOK, [Next]_vars PROVE TypeOK'
  <2> USE <1>2
  <2>1. ASSUME NEW t \in Threads, Handler(t) PROVE TypeOK'
    BY <2>1, TypeInMemory, TypeOnDisk DEF Handler
  <2>2. ASSUME NEW t \in Threads, NEW r \in Requests, Take(t, r) PROVE TypeOK'
    <3> DEFINE p == IF r.kind = "readdir" THEN "readroot" ELSE "loaddir"
    <3>1. [IdleThread EXCEPT !.req = r, !.phase = p] \in ThreadStates
      BY IdleType DEF ThreadStates, Phases, IOPhases
    <3>2. th' \in [Threads -> ThreadStates]
      BY <2>2, <3>1, OneThreadType DEF Take
    <3>3. QED
      BY <2>2, <3>2 DEF Take, TypeOK, ThreadStates, Phases, disk
  <2>3. CASE Crash
    BY <2>3, ConstantTypes, IdleType, BlockMapAssumption
       DEF Crash, TypeOK, ThreadStates, Phases, disk, Op, Ops
  <2>4. CASE UNCHANGED vars
    BY <2>4 DEF TypeOK, vars
  <2>5. QED
    BY <2>1, <2>2, <2>3, <2>4 DEF Next, Ended
<1>3. QED
  BY <1>1, <1>2, PTL DEF Spec

-----------------------------------------------------------------------------
(* One thread: the invariant of the simulation.  Where a handler is says    *)
(* what its caches and locals are worth: everything SSFS does in one step,  *)
(* up to a block write, is in memory just before that write.                *)

\* No other thread moves the offset between a seek and its transfer.
SeekHolds(t) == th[t].seeked => th[t].phase \in IOPhases /\ fpos = Target(t)

\* A thread without a request has nothing left of its last one.
IdleIsClean(t) == ~Busy(t) => th[t] = IdleThread

\* The cached directory is the one on the disk, except before it is loaded and
\* between a change and its save.
DirIsCached(t) == th[t].phase \in {"look", "loadmap", "grow"} \/ Begun(t) => bdir = dir

\* A name that the kernel did not find is still not there.
NameIsNew(t) == th[t].req.kind = "create" => FindDirEntry(dir, th[t].req.name) = {}

\* The locals that do_write computes from its request.
Locals(t, fresh) ==
    [di |-> Op(t).di, blkoffs |-> BlkOffs(th[t].req.offset), byteoffs |-> ByteOffs(th[t].req.offset),
     crtsize |-> CrtSize(th[t].req.size, ByteOffs(th[t].req.offset)), payload |-> th[t].req.payload,
     crtblk |-> BLKMAP_BID, fresh |-> fresh]

\* do_write has found its file, and then loaded the map.
WriteIsReady(t) ==
    /\ th[t].phase \in {"loadmap", "grow"} =>
          /\ th[t].req.kind = "write"
          /\ Op(t).di \in FindDirEntry(dir, th[t].req.name)
          /\ Op(t) = Locals(t, FALSE)
    /\ At(t, "grow") => bmap = map /\ ~overwritten

\* What a change of the directory is, before it is saved: that of do_create, ...
CreatePending(t) ==
    /\ th[t].req.kind = "create"
    /\ \E i \in FirstEmptyDirEntry(dir) :
          bdir = [dir EXCEPT ![i] = [name |-> th[t].req.name, size |-> 0, first |-> EOF_BLOCK]]

\* ... of do_truncate, ...
TruncatePending(t) ==
    /\ th[t].req.kind = "truncate"
    /\ \E i \in FindDirEntry(dir, th[t].req.name) :
          bdir = [dir EXCEPT ![i].size = 0, ![i].first = EOF_BLOCK]

\* ... and of do_write, with the first block that it allocated.
GrowPending(t) ==
    /\ th[t].req.kind = "write" /\ ~overwritten
    /\ Op(t).di \in FindDirEntry(dir, th[t].req.name)
    /\ LET de    == dir[Op(t).di]
           fresh == NeedsFirst(de, End(t))
       IN  /\ Grows(de, End(t))
           /\ fresh => HasFree(map)
           /\ bmap = IF fresh THEN AllocateBlock(map) ELSE map
           /\ bdir = [dir EXCEPT ![Op(t).di].size = End(t),
                                 ![Op(t).di].first = IF fresh THEN FreeHead(map) ELSE de.first]
           /\ Op(t) = Locals(t, fresh)
SaveIsPending(t) ==
    At(t, "savedir") => CreatePending(t) \/ TruncatePending(t) \/ GrowPending(t)

\* The block that do_write reads and changes is the one its loop stopped at.
BlockIsRead(t) ==
    /\ th[t].phase \in {"readdata", "writedata"} => Op(t).blkoffs = 0
    /\ At(t, "writedata") =>
          th[t].bcache = IF Op(t).crtblk \in DataBlocks THEN data[Op(t).crtblk] ELSE JunkBlock

InStep(t) ==
    /\ SeekHolds(t) /\ IdleIsClean(t) /\ DirIsCached(t) /\ NameIsNew(t)
    /\ WriteIsReady(t) /\ SaveIsPending(t) /\ BlockIsRead(t)

\* What moving on and returning do to the thread.
LEMMA GotoEffect ==
    ASSUME TypeOK, NEW t \in Threads, NEW p, Goto(t, p)
    PROVE  /\ th'[t].phase = p /\ ~th'[t].seeked
           /\ th'[t].req = th[t].req /\ th'[t].op = th[t].op /\ th'[t].bcache = th[t].bcache
BY DEF TypeOK, Goto

LEMMA ReturnEffect ==
    ASSUME TypeOK, NEW t \in Threads, Return(t)
    PROVE  th'[t] = IdleThread
BY DEF TypeOK, Return

\* A thread that returns, or that died, keeps no promises.
LEMMA InStepIdle ==
    ASSUME NEW t \in Threads, th'[t] = IdleThread
    PROVE  InStep(t)' /\ ~Begun(t)'
BY DEF InStep, SeekHolds, IdleIsClean, DirIsCached, NameIsNew, WriteIsReady, SaveIsPending,
       BlockIsRead, IdleThread, NoRequest, Busy, At, Begun, IOPhases

\* Locals are the same when their fields are.
LEMMA SameOp ==
    ASSUME NEW a \in Ops, NEW b \in Ops,
           a.di = b.di, a.blkoffs = b.blkoffs, a.byteoffs = b.byteoffs, a.crtsize = b.crtsize,
           a.payload = b.payload, a.crtblk = b.crtblk, a.fresh = b.fresh
    PROVE  a = b
BY DEF Ops

\* The locals of a write whose file gets its first block.
LEMMA LocalsFresh ==
    ASSUME NEW o \in Ops, NEW t, o = Locals(t, FALSE)
    PROVE  [o EXCEPT !.fresh = TRUE] = Locals(t, TRUE)
<1> DEFINE o2 == [o EXCEPT !.fresh = TRUE]
           l2 == Locals(t, TRUE)
<1>1. /\ o.di = l2.di /\ o.blkoffs = l2.blkoffs /\ o.byteoffs = l2.byteoffs
      /\ o.crtsize = l2.crtsize /\ o.payload = l2.payload /\ o.crtblk = l2.crtblk
      /\ l2.fresh = TRUE
  BY DEF Locals
<1>2. o2 \in Ops /\ l2 \in Ops
  <2>1. o2 \in Ops
    BY DEF Ops
  <2>2. l2 = [di |-> o.di, blkoffs |-> o.blkoffs, byteoffs |-> o.byteoffs,
              crtsize |-> o.crtsize, payload |-> o.payload, crtblk |-> o.crtblk, fresh |-> TRUE]
    BY <1>1 DEF Locals
  <2> HIDE DEF l2
  <2>3. QED
    BY <2>1, <2>2 DEF Ops
<1>3. /\ o2.di = o.di /\ o2.blkoffs = o.blkoffs /\ o2.byteoffs = o.byteoffs
      /\ o2.crtsize = o.crtsize /\ o2.payload = o.payload /\ o2.crtblk = o.crtblk
      /\ o2.fresh = TRUE
  BY DEF Ops
<1> HIDE DEF o2, l2
<1>4. o2 = l2
  BY <1>1, <1>2, <1>3, SameOp
<1>5. QED
  BY <1>4 DEF o2, l2

\* The invariant survives what the handler does in memory, ...
LEMMA InStepInMemory ==
    ASSUME TypeOK, NEW t, Threads = {t}, InStep(t), InMemory(t)
    PROVE  InStep(t)'
<1> USE DEF InStep, SeekHolds, IdleIsClean, DirIsCached, NameIsNew, WriteIsReady, SaveIsPending,
            BlockIsRead, Busy, At, Begun, IOPhases
<1>1. t \in Threads
  OBVIOUS
<1>2. CASE Answer(t) \/ GrowFull(t) \/ NavFull(t)
  BY <1>1, <1>2, ReturnEffect, InStepIdle DEF Answer, GrowFull, NavFull
<1>3. CASE LookRead(t)
  <2>1. th'[t].phase = "readfile" /\ th'[t].seeked = th[t].seeked /\ th'[t].req = th[t].req
    BY <1>1, <1>3 DEF LookRead, TypeOK
  <2>2. QED
    BY <1>3, <2>1 DEF LookRead, disk
<1>4. CASE LookCreate(t)
  <2>1. /\ th'[t].phase = "savedir" /\ ~th'[t].seeked /\ th'[t].req = th[t].req
        /\ th'[t].op = th[t].op
    BY <1>1, <1>4, GotoEffect DEF LookCreate
  <2>2. CreatePending(t)'
    BY <1>4, <2>1 DEF LookCreate, CreatePending, disk
  <2>3. QED
    BY <1>4, <2>1, <2>2 DEF LookCreate, disk
<1>5. CASE LookTruncate(t)
  <2>1. /\ th'[t].phase = "savedir" /\ ~th'[t].seeked /\ th'[t].req = th[t].req
        /\ th'[t].op = th[t].op
    BY <1>1, <1>5, GotoEffect DEF LookTruncate
  <2>2. TruncatePending(t)'
    BY <1>5, <2>1 DEF LookTruncate, TruncatePending, Found, disk
  <2>3. QED
    BY <1>5, <2>1, <2>2 DEF LookTruncate, disk
<1>6. CASE LookWrite(t)
  <2>1. PICK i \in FindDirEntry(dir, th[t].req.name) :
          th' = [th EXCEPT
                 ![t].phase = "loadmap",
                 ![t].op = [NoOp EXCEPT
                     !.di = i, !.blkoffs = BlkOffs(th[t].req.offset),
                     !.byteoffs = ByteOffs(th[t].req.offset),
                     !.crtsize = CrtSize(th[t].req.size, ByteOffs(th[t].req.offset)),
                     !.payload = th[t].req.payload]]
    BY <1>6 DEF LookWrite, Found
  <2>2. /\ th'[t].phase = "loadmap" /\ th'[t].seeked = th[t].seeked /\ th'[t].req = th[t].req
        /\ th'[t].op = [NoOp EXCEPT
                     !.di = i, !.blkoffs = BlkOffs(th[t].req.offset),
                     !.byteoffs = ByteOffs(th[t].req.offset),
                     !.crtsize = CrtSize(th[t].req.size, ByteOffs(th[t].req.offset)),
                     !.payload = th[t].req.payload]
    BY <1>1, <2>1 DEF TypeOK
  <2>3. th'[t].op = [di |-> i, blkoffs |-> BlkOffs(th[t].req.offset),
                     byteoffs |-> ByteOffs(th[t].req.offset),
                     crtsize |-> CrtSize(th[t].req.size, ByteOffs(th[t].req.offset)),
                     payload |-> th[t].req.payload, crtblk |-> BLKMAP_BID, fresh |-> FALSE]
    BY <2>2 DEF NoOp
  <2>4. th'[t].op.di = i
    BY <2>3
  <2>5. Op(t)' = Locals(t, FALSE)' /\ Op(t)'.di = i
    BY <2>2, <2>3, <2>4 DEF Op, Locals
  <2>6. QED
    BY <1>6, <2>1, <2>2, <2>5 DEF LookWrite, disk
<1>7. CASE Fits(t)
  <2>1. /\ th'[t].phase = "start" /\ ~th'[t].seeked /\ th'[t].req = th[t].req
        /\ th'[t].op = th[t].op
    BY <1>1, <1>7, GotoEffect DEF Fits
  <2>2. QED
    BY <1>7, <2>1 DEF Fits, disk
<1>8. CASE Grow(t)
  <2>1. /\ th'[t].phase = "savedir" /\ ~th'[t].seeked /\ th'[t].req = th[t].req
        /\ th'[t].op = th[t].op
    BY <1>1, <1>8, GotoEffect DEF Grow
  <2>2. GrowPending(t)'
    <3>1. /\ th'[t].req = th[t].req /\ Op(t)' = Op(t) /\ End(t)' = End(t)
          /\ Locals(t, FALSE)' = Locals(t, FALSE)
      BY <2>1 DEF Op, End, Locals
    <3>2. /\ Op(t).di \in FindDirEntry(dir, th[t].req.name) /\ th[t].req.kind = "write"
          /\ Op(t).di \in Slots /\ bdir = dir /\ bmap = map /\ ~overwritten
          /\ Op(t) = Locals(t, FALSE)
          /\ Grows(dir[Op(t).di], End(t)) /\ dir[Op(t).di].first # EOF_BLOCK
      BY <1>8 DEF Grow, Entry, FindDirEntry
    <3>3. bdir' = [dir EXCEPT ![Op(t).di].size = End(t),
                              ![Op(t).di].first = dir[Op(t).di].first]
      BY <1>8, <3>2 DEF Grow, TypeOK, Entries
    <3>4. NeedsFirst(dir[Op(t).di], End(t)) = FALSE
      BY <3>2 DEF NeedsFirst
    <3>5. UNCHANGED <<dir, map, bmap, overwritten>>
      BY <1>8 DEF Grow, disk
    <3>6. QED
      BY <3>1, <3>2, <3>3, <3>4, <3>5 DEF GrowPending
  <2>3. QED
    BY <1>8, <2>1, <2>2 DEF Grow, disk
<1>9. CASE GrowFirst(t)
  <2>1. /\ th'[t].phase = "savedir" /\ th'[t].seeked = th[t].seeked /\ th'[t].req = th[t].req
        /\ Op(t)' = [Op(t) EXCEPT !.fresh = TRUE]
    BY <1>1, <1>9 DEF GrowFirst, TypeOK, Op
  <2>2. GrowPending(t)'
    <3>1. /\ Op(t).di \in FindDirEntry(dir, th[t].req.name) /\ th[t].req.kind = "write"
          /\ Op(t).di \in Slots /\ bdir = dir /\ bmap = map /\ ~overwritten
          /\ Op(t) = Locals(t, FALSE) /\ NeedsFirst(dir[Op(t).di], End(t))
      BY <1>9 DEF GrowFirst, Entry, FindDirEntry
    <3>2. Op(t)' = Locals(t, TRUE)' /\ Op(t)'.di = Op(t).di /\ End(t)' = End(t)
      <4>1. Op(t) \in Ops
        BY <1>1 DEF TypeOK, Op
      <4>2. Op(t)' = Locals(t, TRUE)
        BY <2>1, <3>1, <4>1, LocalsFresh
      <4>3. th'[t].op.di = th[t].op.di
        BY <4>2 DEF Locals, Op
      <4>4. QED
        BY <2>1, <4>2, <4>3 DEF Locals, Op, End
    <3>3. HasFree(map)
      BY <1>9, <3>1, Ids DEF GrowFirst, HasFree
    <3>4. UNCHANGED <<dir, map, overwritten>>
      BY <1>9 DEF GrowFirst, disk
    <3>5. bdir' = [dir EXCEPT ![Op(t).di].size = End(t), ![Op(t).di].first = FreeHead(map)]
          /\ bmap' = AllocateBlock(map)
      BY <1>9, <3>1 DEF GrowFirst
    <3>6. NeedsFirst(dir[Op(t).di], End(t)) = TRUE /\ Grows(dir[Op(t).di], End(t))
      BY <3>1 DEF NeedsFirst
    <3>7. QED
      BY <2>1, <3>1, <3>2, <3>3, <3>4, <3>5, <3>6 DEF GrowPending
  <2>3. QED
    BY <1>9, <2>1, <2>2 DEF GrowFirst, disk
<1>10. CASE Start(t)
  <2>1. th'[t].phase = "nav" /\ th'[t].seeked = th[t].seeked /\ th'[t].req = th[t].req
    BY <1>1, <1>10 DEF Start, TypeOK
  <2>2. QED
    BY <1>10, <2>1 DEF Start, disk
<1>11. CASE NavFollow(t) \/ NavExtend(t)
  <2>1. th'[t].phase = "nav" /\ th'[t].seeked = th[t].seeked /\ th'[t].req = th[t].req
    BY <1>1, <1>11 DEF NavFollow, NavExtend, Navigating, MoveTo, TypeOK
  <2>2. QED
    BY <1>11, <2>1 DEF NavFollow, NavExtend, Navigating, disk
<1>12. CASE NavDone(t)
  <2>1. /\ th'[t].phase = "readdata" /\ ~th'[t].seeked /\ th'[t].req = th[t].req
        /\ th'[t].op = th[t].op
    BY <1>1, <1>12, GotoEffect DEF NavDone
  <2>2. QED
    BY <1>12, <2>1 DEF NavDone, disk, Op
<1>13. CASE IndexesEof(t)
  BY <1>13 DEF IndexesEof, Stray, disk, Target, Op, CreatePending, TruncatePending, GrowPending,
               Locals, End
<1>14. QED
  BY <1>2, <1>3, <1>4, <1>5, <1>6, <1>7, <1>8, <1>9, <1>10, <1>11, <1>12, <1>13 DEF InMemory

\* ... its transfers, ...
LEMMA InStepOnDisk ==
    ASSUME TypeOK, NEW t, Threads = {t}, InStep(t), OnDisk(t)
    PROVE  InStep(t)'
<1> USE DEF InStep, SeekHolds, IdleIsClean, DirIsCached, NameIsNew, WriteIsReady, SaveIsPending,
            BlockIsRead, Busy, At, Begun, IOPhases
<1>1. t \in Threads
  OBVIOUS
<1>2. CASE Seek(t)
  <2>1. /\ th'[t].phase = th[t].phase /\ th'[t].seeked /\ th'[t].req = th[t].req
        /\ th'[t].op = th[t].op /\ th'[t].bcache = th[t].bcache
    BY <1>1, <1>2 DEF Seek, TypeOK
  <2>2. fpos' = Target(t)'
    BY <1>2, <2>1 DEF Seek, Target, Op
  <2>3. Op(t)' = Op(t) /\ End(t)' = End(t) /\ \A fresh : Locals(t, fresh)' = Locals(t, fresh)
    BY <2>1 DEF Op, End, Locals
  <2>4. UNCHANGED <<map, overwritten, dir, data, bdir, bmap>>
    BY <1>2 DEF Seek, disk
  <2>5. At(t, "savedir") => (CreatePending(t) \/ TruncatePending(t) \/ GrowPending(t))'
    BY <2>1, <2>3, <2>4 DEF CreatePending, TruncatePending, GrowPending
  <2>6. QED
    BY <1>2, <2>1, <2>2, <2>3, <2>4, <2>5 DEF Seek
<1>3. CASE Misdirected(t) \/ LoadNoMap(t)
  BY <1>3 DEF Misdirected, LoadNoMap, Stray, disk, Target, Op, CreatePending, TruncatePending,
              GrowPending, Locals, End
<1>4. CASE ReadRoot(t) \/ ReadFile(t) \/ SaveMap(t)
  BY <1>1, <1>4, ReturnEffect, InStepIdle DEF ReadRoot, ReadFile, SaveMap
<1>5. CASE LoadDir(t)
  <2>1. /\ th'[t].phase = "look" /\ ~th'[t].seeked /\ th'[t].req = th[t].req
        /\ th'[t].op = th[t].op
    BY <1>1, <1>5, GotoEffect DEF LoadDir
  <2>2. QED
    BY <1>5, <2>1 DEF LoadDir, Transfer, disk
<1>6. CASE SaveDir(t)
  <2>1. CASE th[t].req.kind = "write"
    <3>1. /\ th'[t].phase = "start" /\ ~th'[t].seeked /\ th'[t].req = th[t].req
          /\ th'[t].op = th[t].op
      BY <1>1, <1>6, <2>1, GotoEffect DEF SaveDir
    <3>2. QED
      BY <1>6, <2>1, <3>1 DEF SaveDir
  <2>2. CASE th[t].req.kind # "write"
    BY <1>1, <1>6, <2>2, ReturnEffect, InStepIdle DEF SaveDir
  <2>3. QED
    BY <2>1, <2>2
<1>7. CASE LoadMap(t)
  <2>1. /\ th'[t].phase = "grow" /\ ~th'[t].seeked /\ th'[t].req = th[t].req
        /\ th'[t].op = th[t].op
    BY <1>1, <1>7, GotoEffect DEF LoadMap
  <2>2. Op(t)' = Op(t) /\ Locals(t, FALSE)' = Locals(t, FALSE)
    BY <2>1 DEF Op, Locals
  <2>3. QED
    BY <1>7, <2>1, <2>2 DEF LoadMap, Transfer, disk
<1>8. CASE ReadData(t)
  <2>1. /\ th'[t].phase = "writedata" /\ ~th'[t].seeked /\ th'[t].req = th[t].req
        /\ th'[t].op = th[t].op
        /\ th'[t].bcache = IF Op(t).crtblk \in DataBlocks THEN data[Op(t).crtblk] ELSE JunkBlock
    BY <1>1, <1>8 DEF ReadData, TypeOK
  <2>2. QED
    BY <1>8, <2>1 DEF ReadData, Transfer, Op, disk
<1>9. CASE WriteData(t)
  <2>1. /\ th'[t].phase = "savemap" /\ ~th'[t].seeked /\ th'[t].req = th[t].req
        /\ th'[t].op = th[t].op
    BY <1>1, <1>9, GotoEffect DEF WriteData
  <2>2. QED
    BY <1>9, <2>1 DEF WriteData, Transfer, disk
<1>10. QED
  BY <1>2, <1>3, <1>4, <1>5, <1>6, <1>7, <1>8, <1>9 DEF OnDisk

\* ... and every other step.
LEMMA InStepNext ==
    ASSUME TypeOK, NEW t, Threads = {t}, InStep(t), [Next]_vars
    PROVE  InStep(t)'
<1>1. CASE Handler(t)
  BY <1>1, InStepInMemory, InStepOnDisk DEF Handler
<1>2. ASSUME NEW r \in Requests, Take(t, r) PROVE InStep(t)'
  <2>1. /\ th'[t].phase \in {"readroot", "loaddir"} /\ ~th'[t].seeked /\ th'[t].req = r
    BY <1>2 DEF Take, TypeOK, IdleThread
  <2>2. r.kind = "create" => FindDirEntry(dir', r.name) = {}
    BY <1>2 DEF Take, Admits, disk
  <2>3. QED
    BY <2>1, <2>2 DEF InStep, SeekHolds, IdleIsClean, DirIsCached, NameIsNew, WriteIsReady,
                      SaveIsPending, BlockIsRead, Busy, At, Begun
<1>3. CASE Crash
  <2>1. th'[t] = IdleThread
    BY <1>3 DEF Crash
  <2>2. QED
    BY <2>1, InStepIdle
<1>4. CASE UNCHANGED vars
  BY <1>4 DEF vars, InStep, SeekHolds, IdleIsClean, DirIsCached, NameIsNew, WriteIsReady,
              SaveIsPending, BlockIsRead, Busy, At, Begun, Target, Op, CreatePending,
              TruncatePending, GrowPending, Locals, End
<1>5. QED
  BY <1>1, <1>2, <1>3, <1>4 DEF Next, Ended

-----------------------------------------------------------------------------
(* One thread: each of its steps is one of SSFS, or changes nothing there.  *)

\* The operators of the two modules are the same.
LEMMA SameConstants ==
    /\ Serial!Slots = Slots /\ Serial!BLKMAP_BID = BLKMAP_BID /\ Serial!DataBlocks = DataBlocks
    /\ Serial!FormatMap = FormatMap /\ Serial!ZeroMap = ZeroMap /\ Serial!EmptyDir = EmptyDir
    /\ Serial!JunkData = JunkData /\ Serial!NoOp = NoOp
BY DEF Serial!Slots, Serial!BLKMAP_BID, Serial!DataBlocks, Serial!MapIds, Serial!FormatMap,
       Serial!ZeroMap, Serial!EmptyEntry, Serial!EmptyDir, Serial!JunkData, Serial!NoOp,
       Slots, BLKMAP_BID, DataBlocks, MapIds, FormatMap, ZeroMap, EmptyEntry, EmptyDir, JunkData, NoOp

LEMMA SameOperators ==
    /\ \A d, n : Serial!FindDirEntry(d, n) = FindDirEntry(d, n)
    /\ \A d : Serial!FirstEmptyDirEntry(d) = FirstEmptyDirEntry(d)
    /\ \A m : Serial!FreeHead(m) = FreeHead(m) /\ (Serial!HasFree(m) <=> HasFree(m))
    /\ \A m : Serial!AllocateBlock(m) = AllocateBlock(m)
    /\ \A de, end : Serial!Grows(de, end) <=> Grows(de, end)
    /\ \A de, end : Serial!NeedsFirst(de, end) = NeedsFirst(de, end)
    /\ \A o : Serial!BlkOffs(o) = BlkOffs(o) /\ Serial!ByteOffs(o) = ByteOffs(o)
    /\ \A z, b : Serial!CrtSize(z, b) = CrtSize(z, b)
    /\ \A o, b : Serial!Merged(o, b) = Merged(o, b)
<1> USE DEF Serial!Slots, Slots, Serial!BLKMAP_BID, BLKMAP_BID
<1>1. \A d, n : Serial!FindDirEntry(d, n) = FindDirEntry(d, n)
  BY DEF Serial!FindDirEntry, FindDirEntry
<1>2. \A d : Serial!FirstEmptyDirEntry(d) = FirstEmptyDirEntry(d)
  BY DEF Serial!FirstEmptyDirEntry, FirstEmptyDirEntry
<1>3. \A m : Serial!FreeHead(m) = FreeHead(m) /\ (Serial!HasFree(m) <=> HasFree(m))
  BY DEF Serial!FreeHead, FreeHead, Serial!HasFree, HasFree
<1>4. \A m : Serial!AllocateBlock(m) = AllocateBlock(m)
  BY DEF Serial!FreeHead, FreeHead, Serial!AllocateBlock, AllocateBlock
<1>5. \A de, end : Serial!Grows(de, end) <=> Grows(de, end)
  BY DEF Serial!Grows, Grows
<1>6. \A de, end : Serial!NeedsFirst(de, end) = NeedsFirst(de, end)
  BY DEF Serial!Grows, Grows, Serial!NeedsFirst, NeedsFirst
<1>7. \A o : Serial!BlkOffs(o) = BlkOffs(o) /\ Serial!ByteOffs(o) = ByteOffs(o)
  BY DEF Serial!BlkOffs, BlkOffs, Serial!USHRT_RANGE, USHRT_RANGE, Serial!ByteOffs, ByteOffs
<1>8. \A z, b : Serial!CrtSize(z, b) = CrtSize(z, b)
  BY DEF Serial!CrtSize, CrtSize
<1>9. \A o, b : Serial!Merged(o, b) = Merged(o, b)
  BY DEF Serial!Merged, Merged
<1>10. QED
  BY <1>1, <1>2, <1>3, <1>4, <1>5, <1>6, <1>7, <1>8, <1>9

\* What SSFS sees of the only thread.
LEMMA SerialState ==
    ASSUME NEW t, Threads = {t}, wild # "map"
    PROVE  /\ ~Begun(t) => SerialBmap = ZeroMap /\ SerialPc = "idle" /\ SerialOp = NoOp
           /\ Begun(t) => /\ SerialBmap = bmap
                          /\ SerialPc = IF At(t, "savemap") THEN "save" ELSE "nav"
                          /\ SerialOp = IF At(t, "start")
                                        THEN [Op(t) EXCEPT !.crtblk = Entry(t).first] ELSE Op(t)
<1>1. ~Begun(t) => Writers = {}
  BY DEF Writers
<1>2. Begun(t) => Writers = {t} /\ Writer = t
  BY DEF Writers, Writer
<1>3. QED
  BY <1>1, <1>2 DEF SerialBmap, SerialPc, SerialOp

LEMMA SerialStateNext ==
    ASSUME NEW t, Threads = {t}, wild' # "map"
    PROVE  /\ ~Begun(t)' => SerialBmap' = ZeroMap /\ SerialPc' = "idle" /\ SerialOp' = NoOp
           /\ Begun(t)' => /\ SerialBmap' = bmap'
                           /\ SerialPc' = IF At(t, "savemap")' THEN "save" ELSE "nav"
                           /\ SerialOp' = IF At(t, "start")'
                                          THEN [Op(t)' EXCEPT !.crtblk = Entry(t)'.first] ELSE Op(t)'
<1>1. ~Begun(t)' => Writers' = {}
  BY DEF Writers
<1>2. Begun(t)' => Writers' = {t} /\ Writer' = t
  BY DEF Writers, Writer
<1>3. ZeroMap' = ZeroMap /\ NoOp' = NoOp
  BY DEF ZeroMap, NoOp
<1>4. QED
  BY <1>1, <1>2, <1>3 DEF SerialBmap, SerialPc, SerialOp, At, Op, Entry

\* A step outside do_write's block writes that leaves the disk alone.
LEMMA OutsideWrites ==
    ASSUME NEW t, Threads = {t}, ~Begun(t), ~Begun(t)', wild # "map", wild' # "map",
           UNCHANGED <<map, overwritten, dir, data, lost>>
    PROVE  UNCHANGED Serial!vars
BY SerialState, SerialStateNext DEF Serial!vars

\* A step between them that leaves the disk, the cached map and the locals alone.
LEMMA BetweenWrites ==
    ASSUME NEW t, Threads = {t}, Begun(t), Begun(t)', ~At(t, "savemap"), ~At(t, "savemap")',
           wild # "map", wild' # "map",
           UNCHANGED <<map, overwritten, dir, data, bmap, lost, SerialOp>>
    PROVE  UNCHANGED Serial!vars
BY SerialState, SerialStateNext DEF Serial!vars

\* Requests of a kind.
LEMMA RequestFields ==
    ASSUME NEW r \in Requests \cup {NoRequest}
    PROVE  /\ r.kind \in {"create", "truncate", "write"} => r.name \in Names
           /\ r.kind = "write" => r.offset \in Offsets /\ r.size \in WriteSizes
                                  /\ r.payload \in Payloads
<1> DEFINE Plain  == [kind : Kinds \ {"readdir", "write"}, name : Names,
                      offset : {0}, size : {0}, payload : {Junk}]
           Listings == [kind : Kinds \cap {"readdir"}, name : {NoName},
                        offset : {0}, size : {0}, payload : {Junk}]
           Writes == [kind : Kinds \cap {"write"}, name : Names,
                      offset : Offsets, size : WriteSizes, payload : Payloads]
<1>1. CASE r = NoRequest
  BY <1>1 DEF NoRequest
<1>2. CASE r \in Plain
  BY <1>2
<1>3. CASE r \in Listings
  BY <1>3
<1>4. CASE r \in Writes
  BY <1>4
<1>5. r = NoRequest \/ r \in Plain \/ r \in Listings \/ r \in Writes
  BY Zenon DEF Requests
<1>6. QED
  BY <1>1, <1>2, <1>3, <1>4, <1>5

\* The locals of a write at its first block.
LEMMA WithBlock ==
    ASSUME NEW o \in Ops, NEW b \in MapIds \cup {EOF_BLOCK}
    PROVE  [o EXCEPT !.crtblk = b] =
              [di |-> o.di, blkoffs |-> o.blkoffs, byteoffs |-> o.byteoffs,
               crtsize |-> o.crtsize, payload |-> o.payload, crtblk |-> b, fresh |-> o.fresh]
<1> DEFINE o2 == [o EXCEPT !.crtblk = b]
           r  == [di |-> o.di, blkoffs |-> o.blkoffs, byteoffs |-> o.byteoffs,
                  crtsize |-> o.crtsize, payload |-> o.payload, crtblk |-> b, fresh |-> o.fresh]
<1>1. o2 \in Ops /\ r \in Ops
  BY DEF Ops
<1>2. /\ o2.di = o.di /\ o2.blkoffs = o.blkoffs /\ o2.byteoffs = o.byteoffs
      /\ o2.crtsize = o.crtsize /\ o2.payload = o.payload /\ o2.crtblk = b /\ o2.fresh = o.fresh
  BY DEF Ops
<1>3. /\ r.di = o.di /\ r.blkoffs = o.blkoffs /\ r.byteoffs = o.byteoffs
      /\ r.crtsize = o.crtsize /\ r.payload = o.payload /\ r.crtblk = b /\ r.fresh = o.fresh
  OBVIOUS
<1> HIDE DEF o2, r
<1>4. o2 = r
  BY <1>1, <1>2, <1>3, SameOp
<1>5. QED
  BY <1>4 DEF o2, r

\* do_write goes on to its loop: all it did so far is one step of SSFS.
LEMMA BeginsWrite ==
    ASSUME TypeOK, NEW t, Threads = {t}, ~overwritten, UNCHANGED <<map, overwritten, data, bmap, lost>>,
           th[t].req.kind = "write", Op(t).di \in FindDirEntry(dir, th[t].req.name),
           Op(t) = Locals(t, NeedsFirst(dir[Op(t).di], End(t))),
           NeedsFirst(dir[Op(t).di], End(t)) => HasFree(map),
           bmap = (IF NeedsFirst(dir[Op(t).di], End(t)) THEN AllocateBlock(map) ELSE map),
           dir' = (IF Grows(dir[Op(t).di], End(t))
                   THEN [dir EXCEPT ![Op(t).di].size = End(t),
                                    ![Op(t).di].first = IF NeedsFirst(dir[Op(t).di], End(t))
                                                        THEN FreeHead(map) ELSE dir[Op(t).di].first]
                   ELSE dir),
           bdir' = dir', ~Begun(t), th'[t].phase = "start", th'[t].op = th[t].op,
           wild # "map", wild' # "map"
    PROVE  Serial!Next
<1> DEFINE r     == th[t].req
           i     == Op(t).di
           end   == r.offset + r.size
           fresh == NeedsFirst(dir[i], end)
           first == IF fresh THEN FreeHead(map) ELSE dir[i].first
<1>1. /\ r \in Requests \cup {NoRequest} /\ Op(t) \in Ops /\ dir \in Directories /\ map \in BlockMaps
      /\ End(t) = end /\ i \in Slots
  BY DEF TypeOK, End, Op, FindDirEntry
<1>2. first \in MapIds \cup {EOF_BLOCK}
  BY <1>1, Ids DEF BlockMaps, Entries, FreeHead
<1>3. dir'[i].first = first
  <2>1. CASE Grows(dir[i], end)
    <3>1. dir' = [dir EXCEPT ![i].size = end, ![i].first = first]
      BY <1>1, <2>1
    <3> HIDE DEF first
    <3>2. QED
      BY <1>1, <3>1 DEF Entries
  <2>2. CASE ~Grows(dir[i], end)
    <3>1. dir' = dir /\ ~fresh
      BY <1>1, <2>2 DEF NeedsFirst
    <3>2. QED
      BY <3>1
  <2>3. QED
    BY <2>1, <2>2
<1>4. Begun(t)' /\ At(t, "start")' /\ ~At(t, "savemap")' /\ Op(t)' = Op(t) /\ Entry(t)'.first = first
  BY <1>3 DEF Begun, At, Op, Entry
<1>5. /\ SerialBmap = ZeroMap /\ SerialPc = "idle" /\ SerialOp = NoOp
      /\ SerialBmap' = bmap' /\ SerialPc' = "nav" /\ SerialOp' = [Op(t) EXCEPT !.crtblk = first]
  <2> HIDE DEF first
  <2>1. QED
    BY <1>4, SerialState, SerialStateNext
<1>6. SerialOp' = [di |-> i, blkoffs |-> BlkOffs(r.offset), byteoffs |-> ByteOffs(r.offset),
                   crtsize |-> CrtSize(r.size, ByteOffs(r.offset)), payload |-> r.payload,
                   crtblk |-> first, fresh |-> fresh]
  <2>1. Op(t) = Locals(t, fresh)
    BY <1>1
  <2> HIDE DEF first, fresh
  <2>2. /\ Op(t).blkoffs = BlkOffs(r.offset) /\ Op(t).byteoffs = ByteOffs(r.offset)
        /\ Op(t).crtsize = CrtSize(r.size, ByteOffs(r.offset)) /\ Op(t).payload = r.payload
        /\ Op(t).fresh = fresh
    BY <2>1 DEF Locals
  <2>3. QED
    BY <1>1, <1>2, <1>5, <2>2, WithBlock
<1>7. Serial!WriteBegin(r.name, r.offset, r.size, r.payload)
  <2>1. Serial!Idle /\ ~overwritten
    BY <1>5 DEF Serial!Idle
  <2>2. SerialBmap' = IF fresh THEN AllocateBlock(map) ELSE map
    BY <1>1, <1>5
  <2>3. i \in FindDirEntry(dir, r.name) /\ (fresh => HasFree(map))
    BY <1>1
  <2>4. dir' = IF Grows(dir[i], end)
               THEN [dir EXCEPT ![i].size = end, ![i].first = first] ELSE dir
    BY <1>1
  <2> HIDE DEF r, i, first
  <2>5. QED
    BY <1>5, <1>6, <2>1, <2>2, <2>3, <2>4, SameOperators DEF Serial!WriteBegin, first
<1>8. r.name \in Names /\ r.offset \in Offsets /\ r.size \in WriteSizes /\ r.payload \in Payloads
  BY <1>1, RequestFields
<1>9. QED
  BY <1>7, <1>8 DEF Serial!Next, Serial!Request

\* Nothing that SSFS sees changes.
LEMMA UnchangedThreads ==
    ASSUME UNCHANGED <<map, overwritten, dir, data, bmap, bdir, th, lost>>,
           wild' = "map" <=> wild = "map"
    PROVE  UNCHANGED Serial!vars
<1>1. Writers' = Writers
  BY DEF Writers, Begun
<1>2. Writer' = Writer
  BY <1>1 DEF Writer
<1>3. UNCHANGED <<SerialBmap, SerialPc, SerialOp>>
  BY <1>1, <1>2 DEF SerialBmap, SerialPc, SerialOp, At, Op, Entry
<1>4. QED
  BY <1>3 DEF Serial!vars

\* What the handler does in memory: iterations of do_write's loop, or nothing.
LEMMA SerialInMemory ==
    ASSUME TypeOK, NEW t, Threads = {t}, InStep(t), InMemory(t), wild = "no"
    PROVE  Serial!Next \/ UNCHANGED Serial!vars
<1>0. wild # "map" /\ wild' # "map"
  BY DEF InMemory, Answer, LookRead, LookCreate, LookTruncate, LookWrite, Fits, Grow, GrowFirst,
         GrowFull, Start, NavFollow, NavExtend, NavFull, NavDone, IndexesEof, Stray
<1>1. t \in Threads
  OBVIOUS
<1>2. CASE Answer(t) \/ GrowFull(t)
  <2>1. ~Begun(t) /\ ~Begun(t)' /\ UNCHANGED <<map, overwritten, dir, data, lost>>
    BY <1>1, <1>2, ReturnEffect, InStepIdle DEF Answer, GrowFull, Begun, At, disk
  <2>2. QED
    BY <2>1, OutsideWrites, <1>0
<1>3. CASE LookRead(t) \/ LookCreate(t) \/ LookTruncate(t) \/ LookWrite(t) \/ Grow(t) \/ GrowFirst(t)
  <2>1. th'[t].phase \in {"readfile", "savedir", "loadmap"}
    <3>1. CASE LookCreate(t) \/ LookTruncate(t) \/ Grow(t)
      BY <1>1, <3>1, GotoEffect DEF LookCreate, LookTruncate, Grow
    <3>2. CASE LookRead(t)
      BY <1>1, <3>2 DEF LookRead, TypeOK
    <3>3. CASE LookWrite(t) \/ GrowFirst(t)
      BY <1>1, <3>3 DEF LookWrite, GrowFirst, TypeOK
    <3>4. QED
      BY <1>3, <3>1, <3>2, <3>3
  <2>2. ~Begun(t) /\ ~Begun(t)' /\ UNCHANGED <<map, overwritten, dir, data, lost>>
    BY <1>3, <2>1 DEF LookRead, LookCreate, LookTruncate, LookWrite, Grow, GrowFirst, Begun, At, disk
  <2>3. QED
    BY <2>2, OutsideWrites, <1>0
<1>4. CASE Fits(t)
  <2>1. /\ ~Begun(t) /\ ~overwritten /\ bmap = map /\ bdir = dir /\ th[t].req.kind = "write"
        /\ Op(t).di \in FindDirEntry(dir, th[t].req.name) /\ Op(t) = Locals(t, FALSE)
    BY <1>4 DEF Fits, InStep, WriteIsReady, DirIsCached, At, Begun
  <2>2. ~Grows(dir[Op(t).di], End(t)) /\ NeedsFirst(dir[Op(t).di], End(t)) = FALSE
    BY <1>4, <2>1 DEF Fits, Entry, NeedsFirst
  <2>3. th'[t].phase = "start" /\ th'[t].op = th[t].op
    BY <1>1, <1>4, GotoEffect DEF Fits
  <2>4. UNCHANGED <<map, overwritten, dir, data, bmap, bdir, lost>>
    BY <1>4 DEF Fits, disk
  <2>5. QED
    BY <2>1, <2>2, <2>3, <2>4, BeginsWrite, <1>0
<1>5. CASE Start(t)
  <2>1. th'[t].phase = "nav" /\ th'[t].op = [Op(t) EXCEPT !.crtblk = Entry(t).first]
    BY <1>1, <1>5 DEF Start, TypeOK, Op
  <2>2. /\ Begun(t) /\ Begun(t)' /\ At(t, "start") /\ ~At(t, "start")'
        /\ ~At(t, "savemap") /\ ~At(t, "savemap")'
    BY <1>5, <2>1 DEF Start, Begun, At
  <2>3. SerialOp' = SerialOp
    BY <2>1, <2>2, SerialState, SerialStateNext, <1>0 DEF Op
  <2>4. UNCHANGED <<map, overwritten, dir, data, bmap, lost>>
    BY <1>5 DEF Start, disk
  <2>5. QED
    BY <2>2, <2>3, <2>4, BetweenWrites, <1>0
<1>6. CASE NavDone(t)
  <2>1. th'[t].phase = "readdata" /\ th'[t].op = th[t].op
    BY <1>1, <1>6, GotoEffect DEF NavDone
  <2>2. /\ Begun(t) /\ Begun(t)' /\ ~At(t, "start") /\ ~At(t, "start")'
        /\ ~At(t, "savemap") /\ ~At(t, "savemap")'
    BY <1>6, <2>1 DEF NavDone, Begun, At
  <2>3. SerialOp' = SerialOp
    BY <2>1, <2>2, SerialState, SerialStateNext, <1>0 DEF Op
  <2>4. UNCHANGED <<map, overwritten, dir, data, bmap, lost>>
    BY <1>6 DEF NavDone, disk
  <2>5. QED
    BY <2>2, <2>3, <2>4, BetweenWrites, <1>0
<1>7. ASSUME Navigating(t)
      PROVE  /\ Begun(t) /\ SerialBmap = bmap /\ SerialPc = "nav" /\ SerialOp = Op(t)
             /\ Serial!Navigating
  <2>1. Begun(t) /\ ~At(t, "savemap") /\ ~At(t, "start")
    BY <1>7 DEF Navigating, Begun, At
  <2>2. QED
    BY <1>7, <2>1, SerialState, <1>0 DEF Navigating, Serial!Navigating
<1>8. ASSUME Navigating(t), NEW b, MoveTo(t, b)
      PROVE  /\ SerialBmap' = bmap' /\ SerialPc' = "nav"
             /\ SerialOp' = [Op(t) EXCEPT !.crtblk = b, !.blkoffs = @ - 1]
  <2>1. th'[t].phase = "nav" /\ th'[t].op = [Op(t) EXCEPT !.crtblk = b, !.blkoffs = @ - 1]
    BY <1>1, <1>8 DEF MoveTo, Navigating, At, TypeOK, Op
  <2>2. Begun(t)' /\ ~At(t, "savemap")' /\ ~At(t, "start")'
    BY <2>1 DEF Begun, At
  <2>3. QED
    BY <2>1, <2>2, SerialStateNext, <1>0 DEF Op
<1>9. CASE NavFollow(t)
  <2>1. Serial!NavFollow
    BY <1>7, <1>8, <1>9 DEF NavFollow, disk, Serial!NavFollow
  <2>2. QED
    BY <2>1 DEF Serial!Next, Serial!WriteStep
<1>10. CASE NavExtend(t)
  <2>1. HasFree(bmap)
    BY <1>10, Ids DEF NavExtend, HasFree
  <2>2. Serial!NavExtend
    BY <1>7, <1>8, <1>10, <2>1, SameOperators DEF NavExtend, disk, Serial!NavExtend
  <2>3. QED
    BY <2>2 DEF Serial!Next, Serial!WriteStep
<1>11. CASE NavFull(t)
  <2>1. ~Begun(t)'
    BY <1>1, <1>11, ReturnEffect, InStepIdle DEF NavFull
  <2>2. SerialBmap' = ZeroMap /\ SerialPc' = "idle" /\ SerialOp' = NoOp
    BY <2>1, SerialStateNext, <1>0
  <2>3. Serial!NavFull
    BY <1>7, <1>11, <2>2, SameConstants, SameOperators DEF NavFull, disk, Serial!NavFull
  <2>4. QED
    BY <2>3 DEF Serial!Next, Serial!WriteStep
<1>12. CASE IndexesEof(t)
  <2>1. UNCHANGED <<map, overwritten, dir, data, bmap, bdir, th, lost>>
    BY <1>12 DEF IndexesEof, Stray, disk
  <2>2. QED
    BY <2>1, <1>0, UnchangedThreads
<1>13. QED
  BY <1>2, <1>3, <1>4, <1>5, <1>6, <1>9, <1>10, <1>11, <1>12 DEF InMemory

\* It takes the file data in block 0 for the map: there SSFS ends.
LEMMA SerialLostMap ==
    ASSUME TypeOK, NEW t, Threads = {t}, InStep(t), LoadNoMap(t), wild = "no"
    PROVE  Serial!Next
<1>1. /\ th[t].req.kind = "write" /\ FindDirEntry(dir, th[t].req.name) # {}
      /\ overwritten /\ ~Begun(t)
  BY DEF LoadNoMap, InStep, WriteIsReady, At, Begun
<1>2. /\ UNCHANGED <<map, overwritten, dir, data, bmap, bdir, th, lost>> /\ wild' = "map"
  BY DEF LoadNoMap, Stray, disk
<1>3. SerialPc = "idle" /\ SerialPc' = "wild"
  BY <1>1, <1>2, SerialState DEF SerialPc
<1>4. UNCHANGED <<SerialBmap, SerialOp>>
  <2>1. Writers' = Writers
    BY <1>2 DEF Writers, Begun
  <2>2. Writer' = Writer
    BY <2>1 DEF Writer
  <2>3. QED
    BY <1>2, <2>1, <2>2 DEF SerialBmap, SerialOp, At, Op, Entry
<1>5. th[t].req.name \in Names
  BY <1>1, RequestFields DEF TypeOK
<1>6. Serial!WriteOnLostMap(th[t].req.name)
  BY <1>1, <1>2, <1>3, <1>4, SameOperators DEF Serial!WriteOnLostMap, Serial!Idle
<1>7. QED
  BY <1>5, <1>6 DEF Serial!Next, Serial!Request

\* Its transfers: block writes, or nothing.
LEMMA SerialOnDisk ==
    ASSUME TypeOK, NEW t, Threads = {t}, Offsets # {}, InStep(t), OnDisk(t), ~LoadNoMap(t), wild = "no"
    PROVE  Serial!Next \/ UNCHANGED Serial!vars
<1>1. t \in Threads /\ th[t].req \in Requests \cup {NoRequest}
  BY DEF TypeOK
<1>0. wild # "map" /\ wild' # "map"
  <2>1. CASE Misdirected(t)
    BY <2>1 DEF Misdirected, Stray
  <2>2. CASE ~Misdirected(t)
    BY <2>2 DEF OnDisk, Seek, ReadRoot, LoadDir, SaveDir, LoadMap, SaveMap, ReadFile,
                ReadData, WriteData
  <2>3. QED
    BY <2>1, <2>2
<1>2. CASE Seek(t)
  <2>1. th'[t].phase = th[t].phase /\ th'[t].op = th[t].op
    BY <1>1, <1>2 DEF Seek, TypeOK
  <2>2. UNCHANGED <<map, overwritten, dir, data, bdir, bmap, lost>>
    BY <1>2 DEF Seek, disk
  <2>3. (Begun(t)' <=> Begun(t)) /\ (At(t, "savemap")' <=> At(t, "savemap"))
        /\ (At(t, "start")' <=> At(t, "start")) /\ Op(t)' = Op(t) /\ Entry(t)' = Entry(t)
    BY <2>1, <2>2 DEF Begun, At, Op, Entry
  <2>4. ZeroMap = ZeroMap' /\ NoOp = NoOp'
    BY DEF ZeroMap, NoOp
  <2>5. UNCHANGED <<SerialBmap, SerialPc, SerialOp>>
    BY <2>2, <2>3, SerialState, SerialStateNext, <1>0
  <2>6. QED
    BY <2>2, <2>5 DEF Serial!vars
<1>3. CASE Misdirected(t)
  <2>1. UNCHANGED <<map, overwritten, dir, data, bmap, bdir, th, lost>> /\ wild' = "offset"
    BY <1>3 DEF Misdirected, Stray, disk
  <2>2. QED
    BY <2>1, UnchangedThreads
<1>4. CASE ReadRoot(t) \/ ReadFile(t)
  <2>1. ~Begun(t) /\ ~Begun(t)' /\ UNCHANGED <<map, overwritten, dir, data, lost>>
    BY <1>1, <1>4, ReturnEffect, InStepIdle DEF ReadRoot, ReadFile, Transfer, Begun, At, disk
  <2>2. QED
    BY <2>1, OutsideWrites, <1>0
<1>5. CASE LoadDir(t) \/ LoadMap(t)
  <2>1. th'[t].phase \in {"look", "grow"}
    BY <1>1, <1>5, GotoEffect DEF LoadDir, LoadMap
  <2>2. ~Begun(t) /\ ~Begun(t)' /\ UNCHANGED <<map, overwritten, dir, data, lost>>
    BY <1>5, <2>1 DEF LoadDir, LoadMap, Transfer, Begun, At, disk
  <2>3. QED
    BY <2>2, OutsideWrites, <1>0
<1>6. CASE SaveDir(t)
  <2>1. /\ At(t, "savedir") /\ ~Begun(t) /\ dir' = bdir
        /\ UNCHANGED <<map, overwritten, data, bdir, bmap, lost>>
        /\ CreatePending(t) \/ TruncatePending(t) \/ GrowPending(t)
    BY <1>6 DEF SaveDir, Transfer, At, Begun, InStep, SaveIsPending
  <2>2. ASSUME th[t].req.kind # "write"
        PROVE  /\ SerialPc = "idle" /\ UNCHANGED <<SerialBmap, SerialPc, SerialOp>>
    <3>1. ~Begun(t)'
      BY <1>1, <1>6, <2>2, ReturnEffect, InStepIdle DEF SaveDir
    <3>2. QED
      BY <2>1, <3>1, SerialState, SerialStateNext, <1>0
  <2>3. CASE CreatePending(t)
    <3>1. th[t].req.name \in Names /\ FindDirEntry(dir, th[t].req.name) = {}
      BY <1>1, <2>3, RequestFields DEF CreatePending, InStep, NameIsNew
    <3>2. Serial!Create(th[t].req.name)
      BY <2>1, <2>2, <2>3, <3>1, SameOperators DEF CreatePending, Serial!Create, Serial!Idle
    <3>3. QED
      BY <3>1, <3>2 DEF Serial!Next, Serial!Request
  <2>4. CASE TruncatePending(t)
    <3>1. th[t].req.name \in Names
      BY <1>1, <2>4, RequestFields DEF TruncatePending
    <3>2. PICK offset \in Offsets : TRUE
      OBVIOUS
    <3>3. Serial!Truncate(th[t].req.name, offset)
      BY <2>1, <2>2, <2>4, SameOperators DEF TruncatePending, Serial!Truncate, Serial!Idle
    <3>4. QED
      BY <3>1, <3>3 DEF Serial!Next, Serial!Request
  <2>5. CASE GrowPending(t)
    <3>1. th'[t].phase = "start" /\ th'[t].op = th[t].op
      BY <1>1, <1>6, <2>5, GotoEffect DEF SaveDir, GrowPending
    <3>2. QED
      BY <2>1, <2>5, <3>1, BeginsWrite, <1>0 DEF GrowPending
  <2>6. QED
    BY <2>1, <2>3, <2>4, <2>5
<1>7. CASE ReadData(t)
  <2>1. th'[t].phase = "writedata" /\ th'[t].op = th[t].op
    BY <1>1, <1>7 DEF ReadData, TypeOK
  <2>2. /\ Begun(t) /\ Begun(t)' /\ ~At(t, "start") /\ ~At(t, "start")'
        /\ ~At(t, "savemap") /\ ~At(t, "savemap")'
    BY <1>7, <2>1 DEF ReadData, Transfer, Begun, At
  <2>3. SerialOp' = SerialOp
    BY <2>1, <2>2, SerialState, SerialStateNext, <1>0 DEF Op
  <2>4. UNCHANGED <<map, overwritten, dir, data, bmap, lost>>
    BY <1>7 DEF ReadData, disk
  <2>5. QED
    BY <2>2, <2>3, <2>4, BetweenWrites, <1>0
<1>8. CASE WriteData(t)
  <2>1. th'[t].phase = "savemap" /\ th'[t].op = th[t].op
    BY <1>1, <1>8, GotoEffect DEF WriteData
  <2>2. Begun(t) /\ Begun(t)' /\ ~At(t, "start") /\ ~At(t, "start")'
        /\ ~At(t, "savemap") /\ At(t, "savemap")'
    BY <1>8, <2>1 DEF WriteData, Transfer, Begun, At
  <2>3. /\ SerialPc = "nav" /\ SerialPc' = "save" /\ SerialBmap = bmap /\ SerialBmap' = bmap'
        /\ SerialOp = Op(t) /\ SerialOp' = Op(t)
    BY <2>1, <2>2, SerialState, SerialStateNext, <1>0 DEF Op
  <2>4. /\ Op(t).blkoffs = 0
        /\ Op(t).crtblk \in DataBlocks => th[t].bcache = data[Op(t).crtblk]
    BY <1>8 DEF WriteData, Transfer, At, InStep, BlockIsRead
  <2>5. Serial!WriteData
    BY <1>8, <2>3, <2>4, SameConstants, SameOperators DEF WriteData, Serial!WriteData
  <2>6. QED
    BY <2>5 DEF Serial!Next, Serial!WriteStep
<1>9. CASE SaveMap(t)
  <2>1. Begun(t) /\ At(t, "savemap") /\ ~At(t, "start") /\ ~Begun(t)'
    BY <1>1, <1>9, ReturnEffect, InStepIdle DEF SaveMap, Transfer, Begun, At
  <2>2. /\ SerialPc = "save" /\ SerialPc' = "idle" /\ SerialBmap = bmap /\ SerialBmap' = ZeroMap
        /\ SerialOp' = NoOp
    BY <2>1, SerialState, SerialStateNext, <1>0
  <2>3. Serial!SaveMap
    BY <1>9, <2>2, SameConstants DEF SaveMap, Serial!SaveMap
  <2>4. QED
    BY <2>3 DEF Serial!Next, Serial!WriteStep
<1>10. QED
  BY <1>2, <1>3, <1>4, <1>5, <1>6, <1>7, <1>8, <1>9 DEF OnDisk

\* Every step.
LEMMA SerialNext ==
    ASSUME TypeOK, NEW t, Threads = {t}, Offsets # {}, InStep(t), [Next]_vars
    PROVE  [Serial!Next]_(Serial!vars)
<1>1. CASE Handler(t)
  BY <1>1, SerialInMemory, SerialLostMap, SerialOnDisk DEF Handler
<1>2. ASSUME wild = "no", NEW r \in Requests, Take(t, r) PROVE UNCHANGED Serial!vars
  <2>0. wild # "map" /\ wild' # "map"
    BY <1>2 DEF Take
  <2>1. th'[t].phase \in {"readroot", "loaddir"}
    BY <1>2 DEF Take, TypeOK, IdleThread
  <2>2. ~Begun(t) /\ ~Begun(t)' /\ UNCHANGED <<map, overwritten, dir, data, lost>>
    BY <1>2, <2>1 DEF Take, Busy, Begun, disk
  <2>3. QED
    BY <2>0, <2>2, OutsideWrites
<1>3. CASE wild = "no" /\ Crash
  <2>0. wild # "map" /\ wild' # "map"
    BY <1>3 DEF Crash
  <2>1. th'[t] = IdleThread /\ UNCHANGED <<map, overwritten, dir, data>>
        /\ lost' = (lost \/ (Begun(t) /\ Op(t).fresh))
    BY <1>3 DEF Crash, disk
  <2>2. ~Begun(t)'
    BY <2>1, InStepIdle
  <2>3. CASE Begun(t)
    <3>1. SerialPc \in {"nav", "save"} /\ SerialOp.fresh = Op(t).fresh
      <4>1. [Op(t) EXCEPT !.crtblk = Entry(t).first].fresh = Op(t).fresh
        BY DEF TypeOK, Op, Ops
      <4>2. QED
        BY <2>0, <2>3, <4>1, SerialState
    <3>2. SerialBmap' = ZeroMap /\ SerialPc' = "idle" /\ SerialOp' = NoOp
      BY <2>0, <2>2, SerialStateNext
    <3>3. Serial!Crash
      BY <2>1, <2>3, <3>1, <3>2, SameConstants DEF Serial!Crash, Serial!Writing
    <3>4. QED
      BY <3>3 DEF Serial!Next
  <2>4. CASE ~Begun(t)
    <3>1. lost' = lost
      BY <2>1, <2>4 DEF TypeOK
    <3>2. QED
      BY <2>0, <2>1, <2>2, <2>4, <3>1, OutsideWrites
  <2>5. QED
    BY <2>3, <2>4
<1>4. CASE UNCHANGED vars
  <2>1. UNCHANGED <<map, overwritten, dir, data, bmap, bdir, th, lost>> /\ wild' = wild
    BY <1>4 DEF vars
  <2>2. QED
    BY <2>1, UnchangedThreads
<1>5. QED
  BY <1>1, <1>2, <1>3, <1>4 DEF Next, Ended

\* A freshly formatted disk and an idle thread.
LEMMA SerialInit ==
    ASSUME NEW t, Threads = {t}, Init
    PROVE  InStep(t) /\ Serial!Init
<1>1. th[t] = IdleThread
  BY DEF Init
<1>2. InStep(t) /\ ~Begun(t)
  BY <1>1 DEF InStep, SeekHolds, IdleIsClean, DirIsCached, NameIsNew, WriteIsReady, SaveIsPending,
              BlockIsRead, IdleThread, NoRequest, Busy, At, Begun, IOPhases
<1>3. QED
  BY <1>2, SerialState, SameConstants DEF Init, Serial!Init

\* On one thread, the promises of each phase hold, ...
THEOREM OneThreadInStep ==
    ASSUME NEW t, Threads = {t}
    PROVE  Spec => []InStep(t)
<1>1. Init => InStep(t)
  BY SerialInit
<1>2. TypeOK /\ InStep(t) /\ [Next]_vars => InStep(t)'
  BY InStepNext
<1>3. QED
  BY <1>1, <1>2, ThreadsTypeCorrect, PTL DEF Spec

\* ... and what the disk goes through is what SSFS describes: the handlers of
\* ssfs.c are atomic up to their block writes, and neither the caches nor the
\* file offset that a request leaves behind ever shows in a later one.
THEOREM OneThreadIsSerial ==
    ASSUME NEW t, Threads = {t}, Offsets # {}
    PROVE  Spec => ImplementsSSFS
<1>1. Init => Serial!Init
  BY SerialInit
<1>2. TypeOK /\ InStep(t) /\ [Next]_vars => [Serial!Next]_(Serial!vars)
  BY SerialNext
<1>3. QED
  BY <1>1, <1>2, ThreadsTypeCorrect, OneThreadInStep, PTL DEF Spec, ImplementsSSFS, Serial!Spec

-----------------------------------------------------------------------------
(* One thread: what SSFS proves of every behaviour holds of the threads'.   *)

\* SSFS with its theorems, and the same mapping.
Proved == INSTANCE SSFSProofs WITH bmap <- SerialBmap, pc <- SerialPc, op <- SerialOp

\* It is the specification that the property names.
LEMMA SameSpec == Serial!Spec => Proved!Spec
<1>1. Serial!Init => Proved!Init
  BY DEF Serial!Init, Serial!Slots, Serial!BLKMAP_BID, Serial!DataBlocks, Serial!MapIds,
         Serial!FormatMap, Serial!ZeroMap, Serial!EmptyEntry, Serial!EmptyDir, Serial!JunkData,
         Serial!NoOp, Proved!Init, Proved!Slots, Proved!BLKMAP_BID, Proved!DataBlocks,
         Proved!MapIds, Proved!FormatMap, Proved!ZeroMap, Proved!EmptyEntry, Proved!EmptyDir,
         Proved!JunkData, Proved!NoOp
<1>2. Serial!FormatMapBlock => Proved!FormatMapBlock
  BY DEF Serial!FormatMapBlock, Serial!Idle, Serial!FormatMap, Serial!MapIds, Serial!BLKMAP_BID,
         Serial!DataBlocks, Proved!FormatMapBlock, Proved!Idle, Proved!FormatMap, Proved!MapIds,
         Proved!BLKMAP_BID, Proved!DataBlocks
<1>3. Serial!FormatDirBlock => Proved!FormatDirBlock
  BY DEF Serial!FormatDirBlock, Serial!EmptyDir, Serial!EmptyEntry, Serial!Slots,
         Serial!BLKMAP_BID, Proved!FormatDirBlock, Proved!EmptyDir, Proved!EmptyEntry,
         Proved!Slots, Proved!BLKMAP_BID
<1>4. Serial!Crash => Proved!Crash
  BY DEF Serial!Crash, Serial!Writing, Serial!ZeroMap, Serial!MapIds,
         Serial!BLKMAP_BID, Serial!DataBlocks, Serial!NoOp, Serial!Live, Serial!Slots,
         Proved!Crash, Proved!Writing, Proved!ZeroMap, Proved!MapIds,
         Proved!BLKMAP_BID, Proved!DataBlocks, Proved!NoOp, Proved!Live, Proved!Slots
<1>5. Serial!NavFollow => Proved!NavFollow
  BY DEF Serial!NavFollow, Serial!Navigating, Proved!NavFollow, Proved!Navigating
<1>6. Serial!NavExtend => Proved!NavExtend
  BY DEF Serial!NavExtend, Serial!Navigating, Serial!HasFree, Serial!FreeHead,
         Serial!AllocateBlock, Serial!BLKMAP_BID, Proved!NavExtend, Proved!Navigating,
         Proved!HasFree, Proved!FreeHead, Proved!AllocateBlock, Proved!BLKMAP_BID
<1>7. Serial!NavFull => Proved!NavFull
  BY DEF Serial!NavFull, Serial!Navigating, Serial!HasFree, Serial!FreeHead, Serial!BLKMAP_BID,
         Serial!ZeroMap, Serial!MapIds, Serial!DataBlocks, Serial!NoOp, Proved!NavFull,
         Proved!Navigating, Proved!HasFree, Proved!FreeHead, Proved!BLKMAP_BID, Proved!ZeroMap,
         Proved!MapIds, Proved!DataBlocks, Proved!NoOp
<1>8. Serial!WriteData => Proved!WriteData
  BY DEF Serial!WriteData, Serial!DataBlocks, Serial!BLKMAP_BID, Serial!Merged,
         Proved!WriteData, Proved!DataBlocks, Proved!BLKMAP_BID, Proved!Merged
<1>9. Serial!SaveMap => Proved!SaveMap
  BY DEF Serial!SaveMap, Serial!ZeroMap, Serial!MapIds, Serial!BLKMAP_BID, Serial!DataBlocks,
         Serial!NoOp, Proved!SaveMap, Proved!ZeroMap, Proved!MapIds, Proved!BLKMAP_BID,
         Proved!DataBlocks, Proved!NoOp
<1>10. ASSUME NEW n, Serial!Create(n) PROVE Proved!Create(n)
  BY <1>10 DEF Serial!Create, Serial!Idle, Serial!FindDirEntry, Serial!FirstEmptyDirEntry,
         Serial!Slots, Proved!Create, Proved!Idle, Proved!FindDirEntry,
         Proved!FirstEmptyDirEntry, Proved!Slots
<1>11. ASSUME NEW n, NEW offset, Serial!Truncate(n, offset) PROVE Proved!Truncate(n, offset)
  BY <1>11 DEF Serial!Truncate, Serial!Idle, Serial!FindDirEntry, Serial!Slots, Proved!Truncate,
         Proved!Idle, Proved!FindDirEntry, Proved!Slots
<1>12. ASSUME NEW n, NEW offset, NEW size, NEW payload, Serial!WriteBegin(n, offset, size, payload)
       PROVE  Proved!WriteBegin(n, offset, size, payload)
  <2>1. Proved!FindDirEntry(dir, n) = Serial!FindDirEntry(dir, n)
    BY DEF Serial!FindDirEntry, Proved!FindDirEntry, Serial!Slots, Proved!Slots
  <2>2. /\ \A m : Proved!FreeHead(m) = Serial!FreeHead(m)
        /\ \A m : Proved!HasFree(m) <=> Serial!HasFree(m)
        /\ \A m : Proved!AllocateBlock(m) = Serial!AllocateBlock(m)
    BY DEF Serial!FreeHead, Serial!HasFree, Serial!AllocateBlock, Serial!BLKMAP_BID,
           Proved!FreeHead, Proved!HasFree, Proved!AllocateBlock, Proved!BLKMAP_BID
  <2>3. /\ \A de, end : Proved!Grows(de, end) <=> Serial!Grows(de, end)
        /\ \A de, end : Proved!NeedsFirst(de, end) = Serial!NeedsFirst(de, end)
    BY DEF Serial!Grows, Serial!NeedsFirst, Proved!Grows, Proved!NeedsFirst
  <2>4. /\ \A z, k : Proved!CrtSize(z, k) = Serial!CrtSize(z, k)
        /\ \A k : Proved!BlkOffs(k) = Serial!BlkOffs(k) /\ Proved!ByteOffs(k) = Serial!ByteOffs(k)
    BY DEF Serial!CrtSize, Serial!BlkOffs, Serial!ByteOffs, Serial!USHRT_RANGE,
           Proved!CrtSize, Proved!BlkOffs, Proved!ByteOffs, Proved!USHRT_RANGE
  <2>5. QED
    BY <1>12, <2>1, <2>2, <2>3, <2>4
       DEF Serial!WriteBegin, Serial!Idle,
           Proved!WriteBegin, Proved!Idle
<1>13. ASSUME NEW n, NEW offset, NEW size, Serial!WriteNoSpace(n, offset, size) PROVE Proved!WriteNoSpace(n, offset, size)
  BY <1>13 DEF Serial!WriteNoSpace, Serial!Idle, Serial!FindDirEntry,
         Serial!Slots, Serial!NeedsFirst, Serial!Grows, Serial!HasFree, Serial!FreeHead,
         Serial!BLKMAP_BID, Serial!vars, Proved!WriteNoSpace, Proved!Idle,
         Proved!FindDirEntry, Proved!Slots, Proved!NeedsFirst, Proved!Grows, Proved!HasFree,
         Proved!FreeHead, Proved!BLKMAP_BID, Proved!vars
<1>18. ASSUME NEW n, Serial!WriteOnLostMap(n) PROVE Proved!WriteOnLostMap(n)
  BY <1>18 DEF Serial!WriteOnLostMap, Serial!Idle, Serial!FindDirEntry, Serial!Slots,
         Proved!WriteOnLostMap, Proved!Idle, Proved!FindDirEntry, Proved!Slots
<1>19. Serial!Ended => Proved!Ended
  BY DEF Serial!Ended, Serial!vars, Proved!Ended, Proved!vars
<1>14. Serial!Next => Proved!Next
  BY <1>2, <1>3, <1>4, <1>5, <1>6, <1>7, <1>8, <1>9, <1>10, <1>11, <1>12, <1>13, <1>18, <1>19
     DEF Serial!Next,
         Serial!Request, Serial!WriteStep, Serial!Format, Proved!Next, Proved!Request,
         Proved!WriteStep, Proved!Format
<1>15. Serial!vars = Proved!vars /\ (UNCHANGED Serial!vars <=> UNCHANGED Proved!vars)
  BY DEF Serial!vars, Proved!vars
<1>16. [Serial!Next]_(Serial!vars) => [Proved!Next]_(Proved!vars)
  BY <1>14, <1>15
<1>17. QED
  BY <1>1, <1>16, PTL DEF Serial!Spec, Proved!Spec

\* What SSFS's invariant says of the maps and of do_write's current block.
LEMMA SerialDisk ==
    ASSUME TypeOK, NEW t, Threads = {t}, Proved!DiskInv, wild # "map"
    PROVE  /\ Sound(map)
           /\ Begun(t) => Sound(bmap)
           /\ At(t, "nav") => Op(t).crtblk \in MapIds
<1>1. /\ Proved!Sound(map)
      /\ Proved!Writing => Proved!Sound(SerialBmap)
      /\ Proved!Writing => SerialOp.crtblk \in Proved!MapIds
  BY DEF Proved!DiskInv, Proved!MapsSound, Proved!TargetInMap
<1>2. Proved!MapIds = MapIds
  BY DEF Proved!MapIds, Proved!DataBlocks, Proved!BLKMAP_BID, MapIds, DataBlocks, BLKMAP_BID
<1>3. \A m, b : Proved!Chain(m, b) = Chain(m, b)
  BY <1>2 DEF Proved!Chain, Proved!Closed, Chain, Closed
<1>4. \A m : Proved!Sound(m) => Sound(m)
  BY <1>2, <1>3 DEF Proved!Sound, Proved!LinksInjective, Proved!FreeListReturns, Proved!BLKMAP_BID,
                    Sound, LinksInjective, FreeListReturns, BLKMAP_BID
<1>5. Begun(t) => Proved!Writing /\ SerialBmap = bmap
  BY SerialState DEF Proved!Writing
<1>6. At(t, "nav") => Begun(t) /\ SerialOp = Op(t)
  BY SerialState DEF At, Begun
<1>7. QED
  BY <1>1, <1>2, <1>4, <1>5, <1>6

\* On one thread no transfer misses its block and EOF_BLOCK is never followed,
\* written or allocated: the first from the handlers' promises, the second from
\* the invariant of SSFS, which the refinement hands over.
THEOREM OneThreadStrays ==
    ASSUME NEW t, Threads = {t}, Offsets # {}
    PROVE  Spec => []StraysOnlyOnLostMap
<1>1. Spec => []Proved!DiskInv
  <2>1. Spec => Serial!Spec
    BY OneThreadIsSerial DEF ImplementsSSFS
  <2>2. Proved!Spec => []Proved!DiskInv
    BY Proved!DiskInvariant, BlockMapAssumption, FsAssumption
  <2>3. QED
    BY <2>1, <2>2, SameSpec, PTL
<1>2. Init => StraysOnlyOnLostMap
  BY DEF Init, StraysOnlyOnLostMap
<1>3. ASSUME TypeOK, InStep(t), Proved!DiskInv, StraysOnlyOnLostMap, [Next]_vars
      PROVE  StraysOnlyOnLostMap'
  <2> USE <1>3 DEF StraysOnlyOnLostMap
  <2>1. ~Misdirected(t)
    BY DEF Misdirected, InStep, SeekHolds
  <2>2. wild = "no" => ~IndexesEof(t)
    <3> SUFFICES ASSUME wild = "no" PROVE ~IndexesEof(t)
      OBVIOUS
    <3>1. /\ map \in BlockMaps /\ bmap \in BlockMaps /\ EOF_BLOCK \notin MapIds
      BY Ids DEF TypeOK
    <3>2. At(t, "grow") => FreeHead(bmap) # EOF_BLOCK
      BY <3>1, SerialDisk, FreeHeadFacts DEF InStep, WriteIsReady
    <3>3. At(t, "nav") => FreeHead(bmap) # EOF_BLOCK /\ Op(t).crtblk # EOF_BLOCK
      BY <3>1, SerialDisk, FreeHeadFacts DEF At, Begun
    <3>4. QED
      BY <3>2, <3>3 DEF IndexesEof, Navigating
  <2>3. CASE wild = "no" /\ InMemory(t)
    BY <2>2, <2>3 DEF InMemory, Answer, LookRead, LookCreate, LookTruncate, LookWrite, Fits, Grow,
                      GrowFirst, GrowFull, Start, NavFollow, NavExtend, NavFull, NavDone
  <2>4. CASE OnDisk(t)
    BY <2>1, <2>4 DEF OnDisk, Seek, ReadRoot, LoadDir, SaveDir, LoadMap, LoadNoMap, SaveMap,
                      ReadFile, ReadData, WriteData, Stray
  <2>5. CASE (\E r \in Requests : Take(t, r)) \/ Crash \/ UNCHANGED vars
    BY <2>5 DEF Take, Crash, vars
  <2>6. QED
    BY <2>3, <2>4, <2>5 DEF Next, Handler, Ended
<1>4. QED
  BY <1>1, <1>2, <1>3, ThreadsTypeCorrect, OneThreadInStep, PTL DEF Spec

=============================================================================
