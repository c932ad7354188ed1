----------------------------- MODULE SSFSProofs -----------------------------
(***************************************************************************)
(* Proofs, for every number of blocks, files, offsets and crashes, of what  *)
(* SSFSProperties states.                                                   *)
(***************************************************************************)
EXTENDS FsInfo, BlockMapProofs

USE DEF Directories

-----------------------------------------------------------------------------
(* The disk, whatever was lost.  None of the four is inductive alone: the   *)
(* type of the map after an allocation needs a sound free list, the block   *)
(* do_write starts from needs a consistent directory entry, and that one    *)
(* needs the head of the free list to be a data block.                      *)

\* The map last written to the disk has a sound free list, also after file data was
\* written over it: SaveMap and FormatMapBlock write a whole map.
MapsSound == Sound(map) /\ (Writing => Sound(bmap))

TargetInMap == Writing => op.crtblk \in MapIds

DiskInv == TypeOK /\ MapsSound /\ EntriesConsistent /\ TargetInMap

\* Bookkeeping facts about ids.
LEMMA Ids ==
    /\ BLKMAP_BID \in MapIds /\ BLKMAP_BID \notin DataBlocks
    /\ DataBlocks \subseteq MapIds
    /\ EOF_BLOCK \notin MapIds
    /\ MapIds \subseteq DataBlocks \cup {BLKMAP_BID}
BY BlockMapAssumption DEF MapIds, DataBlocks, BLKMAP_BID

\* The map of a process that has loaded none has the type of a map.
LEMMA ZeroMapType == ZeroMap \in BlockMaps
BY Ids DEF ZeroMap, BlockMaps

\* The constant states.
LEMMA ConstantTypes ==
    /\ EmptyDir \in Directories
    /\ Live(EmptyDir) = {}
    /\ NoOp \in Ops
    /\ JunkData \in [DataBlocks -> Blocks]
<1>1. EmptyEntry \in Entries /\ EmptyEntry.name = NoName
  BY Ids DEF EmptyEntry, Entries
<1>2. 0 \in Slots
  BY FsAssumption DEF Slots
<1>3. NoOp \in Ops
  BY <1>2, Ids DEF NoOp, Ops, Bytes
<1>4. QED
  BY <1>1, <1>3 DEF EmptyDir, Live, JunkData, Blocks, Bytes

\* A freshly formatted disk satisfies the invariant.
LEMMA DiskInit == Init => DiskInv
<1> SUFFICES ASSUME Init PROVE DiskInv
  OBVIOUS
<1> USE DEF Init
<1>1. TypeOK
  BY ConstantTypes, FormatMapType, ZeroMapType DEF TypeOK
<1>2. ~Writing /\ Live(dir) = {}
  BY ConstantTypes DEF Writing
<1>3. QED
  BY <1>1, <1>2, FormatMapSound DEF DiskInv, MapsSound, EntriesConsistent, TargetInMap

\* The numbers do_write computes from a request.
LEMMA WriteNumbers ==
    ASSUME NEW offset \in Offsets, NEW size \in WriteSizes
    PROVE  /\ offset + size \in Nat /\ offset + size > 0
           /\ BlkOffs(offset) \in Nat
           /\ ByteOffs(offset) \in Nat
           /\ CrtSize(size, ByteOffs(offset)) \in Nat
<1>1. offset \in Nat /\ size \in Nat /\ size > 0 /\ BLOCK_SIZE \in Nat /\ BLOCK_SIZE > 0
  BY FsAssumption
<1>2. offset \div BLOCK_SIZE \in Int
  BY <1>1
<1>3. BlkOffs(offset) \in Nat
  BY <1>2 DEF BlkOffs, USHRT_RANGE
<1>4. ByteOffs(offset) \in 0 .. (BLOCK_SIZE - 1)
  BY <1>1 DEF ByteOffs
<1>5. CrtSize(size, ByteOffs(offset)) \in Nat
  BY <1>1, <1>4 DEF CrtSize
<1>6. QED
  BY <1>1, <1>3, <1>4, <1>5

\* The step from a request to the loop of do_write.
LEMMA DiskWriteBegin ==
    ASSUME DiskInv,
           NEW n \in Names, NEW offset \in Offsets, NEW size \in WriteSizes, NEW payload \in Payloads,
           WriteBegin(n, offset, size, payload)
    PROVE  DiskInv'
<1>1. PICK i \in FindDirEntry(dir, n) :
         LET end   == offset + size
             fresh == NeedsFirst(dir[i], end)
             first == IF fresh THEN FreeHead(map) ELSE dir[i].first
             boffs == ByteOffs(offset)
         IN  /\ fresh => HasFree(map)
             /\ bmap' = IF fresh THEN AllocateBlock(map) ELSE map
             /\ dir'  = IF Grows(dir[i], end)
                        THEN [dir EXCEPT ![i].size = end, ![i].first = first]
                        ELSE dir
             /\ op'   = [di |-> i, blkoffs |-> BlkOffs(offset),
                         byteoffs |-> boffs, crtsize |-> CrtSize(size, boffs),
                         payload |-> payload, crtblk |-> first, fresh |-> fresh]
  BY DEF WriteBegin
<1> DEFINE end   == offset + size
           fresh == NeedsFirst(dir[i], end)
           first == IF fresh THEN FreeHead(map) ELSE dir[i].first
<1>2. /\ pc' = "nav" /\ map' = map /\ overwritten' = overwritten
      /\ data' = data /\ lost' = lost
  BY DEF WriteBegin
<1>3. /\ map \in BlockMaps /\ Sound(map) /\ dir \in Directories
      /\ TypeOK /\ EntriesConsistent
  BY DEF DiskInv, TypeOK, MapsSound
<1>4. i \in Slots /\ i \in Live(dir)
  BY FsAssumption DEF FindDirEntry, Live
<1>5. dir[i] \in Entries /\ dir[i].size \in Nat
  BY <1>3, <1>4 DEF Entries
<1>6. first \in DataBlocks
  <2>1. CASE fresh
    BY <1>1, <1>3, <2>1, FreeHeadFacts
  <2>2. CASE ~fresh
    <3>1. dir[i].first # EOF_BLOCK
      <4>1. CASE Grows(dir[i], end)
        BY <2>2, <4>1 DEF NeedsFirst
      <4>2. CASE ~Grows(dir[i], end)
        BY <1>3, <1>4, <1>5, <4>2, WriteNumbers DEF Grows, EntriesConsistent
      <4>3. QED
        BY <4>1, <4>2
    <3>2. QED
      BY <1>3, <1>4, <2>2, <3>1 DEF EntriesConsistent
  <2>3. QED
    BY <2>1, <2>2
<1>7. first \in MapIds /\ first # EOF_BLOCK
  BY <1>6, Ids
<1>8. bmap' \in BlockMaps /\ Sound(bmap')
  BY <1>1, <1>3, AllocateLinks, AllocateSound
<1>9. op' \in Ops
  <2>1. fresh \in BOOLEAN
    BY DEF NeedsFirst, Grows
  <2>2. op' = [di |-> i, blkoffs |-> BlkOffs(offset),
               byteoffs |-> ByteOffs(offset), crtsize |-> CrtSize(size, ByteOffs(offset)),
               payload |-> payload, crtblk |-> first, fresh |-> fresh]
    BY <1>1
  <2> HIDE DEF fresh, first
  <2>3. QED
    BY <1>4, <1>7, <2>1, <2>2, WriteNumbers DEF Ops, Bytes
<1>10. dir' \in Directories
  <2>1. CASE Grows(dir[i], end)
    <3>1. dir' = [dir EXCEPT ![i].size = end, ![i].first = first]
      BY <1>1, <2>1
    <3> HIDE DEF first
    <3>2. QED
      BY <1>3, <1>4, <1>7, <3>1, WriteNumbers DEF Entries
  <2>2. CASE ~Grows(dir[i], end)
    BY <1>1, <1>3, <2>2
  <2>3. QED
    BY <2>1, <2>2
<1>11. TypeOK'
  BY <1>2, <1>3, <1>8, <1>9, <1>10 DEF TypeOK
<1>12. EntriesConsistent'
  <2>1. CASE Grows(dir[i], end)
    <3>1. dir' = [dir EXCEPT ![i].size = end, ![i].first = first]
      BY <1>1, <2>1
    <3> HIDE DEF first
    <3>2. /\ Live(dir') = Live(dir)
          /\ dir'[i].first = first /\ dir'[i].size = end
          /\ \A j \in Slots \ {i} : dir'[j] = dir[j]
      BY <1>3, <1>4, <3>1 DEF Live, Entries
    <3>3. end > 0
      BY WriteNumbers
    <3>4. QED
      BY <1>3, <1>6, <1>7, <3>2, <3>3 DEF EntriesConsistent, Live
  <2>2. CASE ~Grows(dir[i], end)
    BY <1>1, <1>3, <2>2 DEF EntriesConsistent
  <2>3. QED
    BY <2>1, <2>2
<1>13. MapsSound'
  BY <1>2, <1>3, <1>8 DEF MapsSound
<1>14. TargetInMap'
  BY <1>1, <1>7 DEF TargetInMap
<1>15. QED
  BY <1>11, <1>12, <1>13, <1>14 DEF DiskInv

\* The locals of do_write after one iteration of its loop that moves to b.
LEMMA NavOps ==
    ASSUME NEW o \in Ops, o.blkoffs > 0, NEW b \in MapIds
    PROVE  LET o2 == [o EXCEPT !.crtblk = b, !.blkoffs = @ - 1]
           IN  o2 \in Ops /\ o2.crtblk = b /\ o2.di = o.di /\ o2.fresh = o.fresh
<1>1. o.blkoffs \in Nat
  BY DEF Ops
<1> DEFINE k == o.blkoffs - 1
<1>2. k \in Nat
  BY <1>1
<1> HIDE DEF k
<1>3. LET o2 == [o EXCEPT !.crtblk = b, !.blkoffs = k]
      IN  o2 \in Ops /\ o2.crtblk = b /\ o2.di = o.di /\ o2.fresh = o.fresh
  BY <1>2 DEF Ops
<1>4. QED
  BY <1>3 DEF k

\* Every other step.
LEMMA DiskOther ==
    ASSUME DiskInv, [Next]_vars,
           \A n \in Names, offset \in Offsets, size \in WriteSizes, payload \in Payloads :
              ~WriteBegin(n, offset, size, payload)
    PROVE  DiskInv'
<1> USE DEF DiskInv
<1>1. ASSUME NEW n \in Names, Create(n) PROVE DiskInv'
  <2> USE <1>1
  <2>1. PICK i \in FirstEmptyDirEntry(dir) :
           dir' = [dir EXCEPT ![i] = [name |-> n, size |-> 0, first |-> EOF_BLOCK]]
    BY DEF Create
  <2>2. i \in Slots /\ UNCHANGED <<map, overwritten, data, bmap, pc, op, lost>>
    BY <2>1 DEF FirstEmptyDirEntry, Create
  <2>3. TypeOK'
    BY <2>1, <2>2 DEF TypeOK, Entries
  <2>4. EntriesConsistent'
    BY <2>1, <2>2, FsAssumption DEF TypeOK, EntriesConsistent, Live
  <2>5. QED
    BY <2>2, <2>3, <2>4 DEF MapsSound, TargetInMap, Writing
<1>2. ASSUME NEW n \in Names, NEW offset \in Offsets, Truncate(n, offset) PROVE DiskInv'
  <2> USE <1>2
  <2>1. PICK i \in FindDirEntry(dir, n) :
           dir' = [dir EXCEPT ![i].size = 0, ![i].first = EOF_BLOCK]
    BY DEF Truncate
  <2>2. i \in Slots /\ UNCHANGED <<map, overwritten, data, bmap, pc, op, lost>>
    BY <2>1 DEF FindDirEntry, Truncate
  <2>3. TypeOK'
    BY <2>1, <2>2 DEF TypeOK, Entries
  <2>4. EntriesConsistent'
    BY <2>1, <2>2, FsAssumption DEF TypeOK, Entries, EntriesConsistent, Live
  <2>5. QED
    BY <2>2, <2>3, <2>4 DEF MapsSound, TargetInMap, Writing
<1>3. ASSUME NEW n \in Names, NEW offset \in Offsets, NEW size \in WriteSizes,
             WriteNoSpace(n, offset, size)
      PROVE  DiskInv'
  BY <1>3 DEF WriteNoSpace, vars, TypeOK, MapsSound, EntriesConsistent,
              TargetInMap, Writing, Live
<1>4. CASE NavFollow
  <2>1. Writing /\ op.crtblk \in MapIds /\ bmap \in BlockMaps /\ op \in Ops
    BY <1>4 DEF NavFollow, Navigating, Writing, TargetInMap, TypeOK
  <2>2. bmap[op.crtblk] \in MapIds
    BY <1>4, <2>1 DEF NavFollow, BlockMaps
  <2>3. op' \in Ops /\ op'.crtblk \in MapIds
    BY <1>4, <2>1, <2>2, NavOps DEF NavFollow, Navigating
  <2>4. QED
    BY <1>4, <2>3 DEF NavFollow, Navigating, TypeOK, MapsSound, EntriesConsistent,
                      TargetInMap, Writing
<1>5. CASE NavExtend
  <2>1. /\ Writing /\ op.crtblk \in MapIds /\ bmap \in BlockMaps /\ op \in Ops
        /\ Sound(bmap) /\ HasFree(bmap) /\ bmap[op.crtblk] = EOF_BLOCK
    BY <1>5 DEF NavExtend, Navigating, Writing, TargetInMap, TypeOK, MapsSound
  <2>2. bmap' = Extended(bmap, op.crtblk)
    BY <1>5 DEF NavExtend, Extended
  <2>3. bmap' \in BlockMaps /\ Sound(bmap')
    BY <2>1, <2>2, ExtendedLinks, ExtendedSound
  <2>4. FreeHead(bmap) \in MapIds
    BY <2>1, FreeHeadFacts
  <2>5. op' \in Ops /\ op'.crtblk \in MapIds
    BY <1>5, <2>1, <2>4, NavOps DEF NavExtend, Navigating
  <2>6. QED
    BY <1>5, <2>3, <2>5 DEF NavExtend, Navigating, TypeOK, MapsSound, EntriesConsistent,
                            TargetInMap, Writing
<1>6. CASE NavFull
  BY <1>6, ConstantTypes, ZeroMapType DEF NavFull, TypeOK, MapsSound, EntriesConsistent,
                             TargetInMap, Writing
<1>7. CASE WriteData
  <2>1. op \in Ops /\ data \in [DataBlocks -> Blocks]
    BY DEF TypeOK
  <2>2. \A b \in DataBlocks : Merged(op, data[b]) \in Blocks
    BY <2>1 DEF Merged, Blocks, Ops
  <2>3. data' \in [DataBlocks -> Blocks]
    BY <1>7, <2>1, <2>2 DEF WriteData
  <2>4. overwritten' \in BOOLEAN
    BY <1>7 DEF WriteData, TypeOK
  <2>5. QED
    BY <1>7, <2>3, <2>4 DEF WriteData, TypeOK, MapsSound, EntriesConsistent,
                            TargetInMap, Writing
<1>8. CASE SaveMap
  BY <1>8, ConstantTypes, ZeroMapType DEF SaveMap, TypeOK, MapsSound, EntriesConsistent,
                             TargetInMap, Writing
<1>9. CASE FormatMapBlock
  BY <1>9, FormatMapType, FormatMapSound, ZeroMapType
     DEF FormatMapBlock, TypeOK, MapsSound, EntriesConsistent, TargetInMap, Writing
<1>10. CASE FormatDirBlock
  BY <1>10, ConstantTypes
     DEF FormatDirBlock, TypeOK, MapsSound, EntriesConsistent, TargetInMap, Writing
<1>11. CASE Crash
  BY <1>11, ConstantTypes, ZeroMapType
     DEF Crash, TypeOK, MapsSound, EntriesConsistent, TargetInMap, Writing
<1>12. CASE UNCHANGED vars
  BY <1>12 DEF vars, TypeOK, MapsSound, EntriesConsistent, TargetInMap, Writing, Live
<1>13. ASSUME NEW n \in Names, WriteOnLostMap(n) PROVE DiskInv'
  BY <1>13 DEF WriteOnLostMap, TypeOK, MapsSound, EntriesConsistent, TargetInMap, Writing, Live
<1>14. QED
  BY <1>1, <1>2, <1>3, <1>4, <1>5, <1>6, <1>7, <1>8, <1>9, <1>10, <1>11, <1>12, <1>13
     DEF Next, Request, WriteStep, Format, Ended

\* Whatever failed or crashed before, the four hold of every state.
THEOREM DiskInvariant == Spec => []DiskInv
<1>1. DiskInv /\ [Next]_vars => DiskInv'
  BY DiskWriteBegin, DiskOther
<1>2. QED
  BY DiskInit, <1>1, PTL DEF Spec

\* Every variable keeps its type: a map that the code writes only ever holds ids of
\* blocks that exist, which is what lets do_write, while block 0 holds such a map,
\* index it with what it reads from it.
THEOREM TypeCorrect == Spec => []TypeOK
BY DiskInvariant, PTL DEF DiskInv

\* The free list survives every failure and crash as long as block 0 holds a map:
\* the allocator hands out each block once, and a walk over the free list comes back
\* to block 0.
THEOREM FreeListAlwaysSound == Spec => []FreeListSound
<1>1. DiskInv => FreeListSound
  BY DEF DiskInv, MapsSound, FreeListSound
<1>2. QED
  BY <1>1, DiskInvariant, PTL

\* At every block write a directory entry has a size exactly when it has a first
\* block, a data block.
THEOREM EntriesAlwaysConsistent == Spec => []EntriesConsistent
BY DiskInvariant, PTL DEF DiskInv

-----------------------------------------------------------------------------
(* The directory's names.                                                   *)

\* A directory entry that is not found is nowhere in a well-formed directory.
LEMMA NotFound ==
    ASSUME DirWellFormed, NEW n \in Names, FindDirEntry(dir, n) = {}
    PROVE  \A j \in Live(dir) : dir[j].name # n
<1> SUFFICES ASSUME NEW j \in Live(dir), dir[j].name = n
             PROVE  FALSE
  OBVIOUS
<1>1. j \in Slots /\ j \notin FindDirEntry(dir, n)
  BY DEF Live
<1>2. PICK k \in Slots : k < j /\ dir[k].name \in {n, NoName}
  BY <1>1 DEF FindDirEntry
<1>3. k \in Live(dir)
  BY <1>2 DEF DirWellFormed
<1>4. dir[k].name = n
  BY <1>2, <1>3 DEF Live
<1>5. k = j
  BY <1>3, <1>4 DEF DirWellFormed
<1>6. QED
  BY <1>2, <1>5 DEF Slots

\* Names stay unique, and the entries in use stay ahead of the empty ones.
THEOREM DirAlwaysWellFormed == Spec => []DirWellFormed
<1>1. Init => DirWellFormed
  BY ConstantTypes DEF Init, DirWellFormed
<1>2. ASSUME TypeOK, DirWellFormed, [Next]_vars
      PROVE  DirWellFormed'
  <2> USE <1>2
  <2>1. ASSUME NEW n \in Names, Create(n) PROVE DirWellFormed'
    <3>1. PICK i \in FirstEmptyDirEntry(dir) :
             dir' = [dir EXCEPT ![i] = [name |-> n, size |-> 0, first |-> EOF_BLOCK]]
      BY <2>1 DEF Create
    <3>2. \A j \in Live(dir) : dir[j].name # n
      BY <2>1, NotFound DEF Create
    <3>3. i \in Slots /\ i \notin Live(dir) /\ \A j \in Slots : j < i => j \in Live(dir)
      BY <3>1 DEF FirstEmptyDirEntry, Live
    <3>4. /\ dir'[i].name = n
          /\ \A j \in Slots \ {i} : dir'[j] = dir[j]
          /\ Live(dir') = Live(dir) \cup {i}
      BY <3>1, <3>3, FsAssumption DEF TypeOK, Live
    <3>5. QED
      BY <3>2, <3>3, <3>4 DEF DirWellFormed, Live
  <2>2. ASSUME NEW i \in Slots, Live(dir') = Live(dir),
               \A j \in Slots : dir'[j].name = dir[j].name
        PROVE  DirWellFormed'
    BY <2>2 DEF DirWellFormed, Live
  <2>3. ASSUME NEW n \in Names, NEW offset \in Offsets, Truncate(n, offset)
        PROVE  DirWellFormed'
    <3>1. PICK i \in FindDirEntry(dir, n) :
             dir' = [dir EXCEPT ![i].size = 0, ![i].first = EOF_BLOCK]
      BY <2>3 DEF Truncate
    <3>2. i \in Slots
      BY <3>1 DEF FindDirEntry
    <3>3. \A j \in Slots : dir'[j].name = dir[j].name
      BY <3>1, <3>2 DEF TypeOK, Entries
    <3>4. QED
      BY <2>2, <3>2, <3>3 DEF Live
  <2>4. ASSUME NEW n \in Names, NEW offset \in Offsets, NEW size \in WriteSizes,
               NEW payload \in Payloads, WriteBegin(n, offset, size, payload)
        PROVE  DirWellFormed'
    <3>1. PICK i \in FindDirEntry(dir, n) :
             LET end   == offset + size
                 first == IF NeedsFirst(dir[i], end) THEN FreeHead(map) ELSE dir[i].first
             IN  dir' = IF Grows(dir[i], end)
                        THEN [dir EXCEPT ![i].size = end, ![i].first = first]
                        ELSE dir
      BY <2>4 DEF WriteBegin
    <3>2. i \in Slots
      BY <3>1 DEF FindDirEntry
    <3>3. \A j \in Slots : dir'[j].name = dir[j].name
      BY <3>1, <3>2 DEF TypeOK, Entries
    <3>4. QED
      BY <2>2, <3>2, <3>3 DEF Live
  <2>5. CASE FormatDirBlock
    BY <2>5, ConstantTypes DEF FormatDirBlock, DirWellFormed
  <2>6. CASE UNCHANGED dir
    BY <2>6 DEF DirWellFormed, Live
  <2>7. QED
    BY <2>1, <2>3, <2>4, <2>5, <2>6
       DEF Next, Request, WriteStep, Format, Ended, WriteNoSpace, WriteOnLostMap, NavFollow, NavExtend, NavFull,
           WriteData, SaveMap, FormatMapBlock, Crash, vars
<1>3. QED
  BY <1>1, <1>2, TypeCorrect, PTL DEF Spec

-----------------------------------------------------------------------------
(* Ownership.  WriteStaysInFile and FilesOwnBlocks need each other and one  *)
(* more fact: a do_write that allocated no first block can still be dropped *)
(* without harm, because the map on the disk owns the directory's files as  *)
(* well as the map in memory does.  File data over the map takes a lost     *)
(* allocation, which a format forgets only after it has written the map.    *)

OwnInv ==
    /\ pc = "format" => ~overwritten
    /\ ~lost =>
          /\ ~overwritten /\ pc # "wild"
          /\ Idle => Owned(dir, map)
          /\ Writing => /\ Owned(dir, bmap)
                        /\ ~op.fresh => Owned(dir, map)
                        /\ op.di \in HasBlocks(dir)
                        /\ op.crtblk \in FileChain(dir, bmap, op.di)
                        /\ op.crtblk \in DataBlocks

\* A directory with some of the files of another, and the same first blocks.
LEMMA OwnedFewer ==
    ASSUME NEW d1, NEW d2, NEW m, Owned(d1, m),
           HasBlocks(d2) \subseteq HasBlocks(d1),
           \A i \in HasBlocks(d2) : d2[i].first = d1[i].first
    PROVE  Owned(d2, m)
BY DEF Owned, FileChain

\* A file with blocks of its own starts at an index of the map.
LEMMA OwnedFirst ==
    ASSUME EntriesConsistent, NEW i \in HasBlocks(dir)
    PROVE  i \in Slots /\ dir[i].first \in MapIds
BY Ids DEF EntriesConsistent, HasBlocks, Live

\* An allocation leaves every file its blocks, and the new block is in none.
LEMMA AllocateOwned ==
    ASSUME EntriesConsistent, NEW m \in BlockMaps, Sound(m), HasFree(m), Owned(dir, m)
    PROVE  /\ Owned(dir, AllocateBlock(m))
           /\ \A i \in HasBlocks(dir) : FreeHead(m) \notin FileChain(dir, AllocateBlock(m), i)
<1>1. ASSUME NEW i \in HasBlocks(dir)
      PROVE  /\ FreeHead(m) \notin FileChain(dir, m, i)
             /\ FileChain(dir, AllocateBlock(m), i) = FileChain(dir, m, i)
             /\ ChainEnds(AllocateBlock(m), dir[i].first)
  BY OwnedFirst, AllocateElsewhere DEF Owned, FileChain
<1>2. QED
  BY <1>1 DEF Owned

\* Extending the list of the file in slot i leaves every file its blocks, and
\* the new block is in that file.
LEMMA ExtendOwned ==
    ASSUME EntriesConsistent, NEW m \in BlockMaps, Sound(m), HasFree(m), Owned(dir, m),
           NEW i \in HasBlocks(dir), NEW c \in FileChain(dir, m, i), m[c] = EOF_BLOCK
    PROVE  /\ Owned(dir, Extended(m, c))
           /\ FreeHead(m) \in FileChain(dir, Extended(m, c), i)
<1> DEFINE m3 == Extended(m, c)
<1>1. c \in MapIds
  BY ChainInMap DEF FileChain
<1>2. /\ FileChain(dir, m3, i) \subseteq FileChain(dir, m, i) \cup {FreeHead(m)}
      /\ FreeHead(m) \in FileChain(dir, m3, i)
      /\ ChainEnds(m3, dir[i].first)
  BY <1>1, OwnedFirst, ExtendedList DEF Owned, FileChain
<1>3. ASSUME NEW j \in HasBlocks(dir), j # i
      PROVE  /\ FreeHead(m) \notin FileChain(dir, m, j)
             /\ FileChain(dir, m3, j) = FileChain(dir, m, j)
             /\ ChainEnds(m3, dir[j].first)
  <2>1. c \notin FileChain(dir, m, j)
    BY <1>3 DEF Owned
  <2>2. QED
    BY <1>1, <1>3, <2>1, OwnedFirst, ExtendElsewhere DEF Owned, FileChain
<1>4. BLKMAP_BID # FreeHead(m)
  BY DEF HasFree
<1>5. BLKMAP_BID \notin FileChain(dir, m3, i)
  BY <1>2, <1>4 DEF Owned
<1>6. ASSUME NEW j \in HasBlocks(dir), NEW k \in HasBlocks(dir), j # k
      PROVE  FileChain(dir, m3, j) \cap FileChain(dir, m3, k) = {}
  <2>1. FileChain(dir, m, j) \cap FileChain(dir, m, k) = {}
    BY <1>6 DEF Owned
  <2>2. QED
    BY <1>2, <1>3, <1>6, <2>1
<1>7. \A j \in HasBlocks(dir) : BLKMAP_BID \notin FileChain(dir, m3, j) /\ ChainEnds(m3, dir[j].first)
  BY <1>2, <1>3, <1>5 DEF Owned
<1>8. QED
  BY <1>2, <1>6, <1>7 DEF Owned

\* The first steps of do_write.
LEMMA OwnWriteBegin ==
    ASSUME DiskInv, OwnInv,
           NEW n \in Names, NEW offset \in Offsets, NEW size \in WriteSizes, NEW payload \in Payloads,
           WriteBegin(n, offset, size, payload)
    PROVE  OwnInv'
<1> SUFFICES ASSUME ~lost
             PROVE  /\ Writing' /\ ~Idle'
                    /\ Owned(dir', bmap')
                    /\ ~op'.fresh => Owned(dir', map')
                    /\ op'.di \in HasBlocks(dir')
                    /\ op'.crtblk \in FileChain(dir', bmap', op'.di)
                    /\ op'.crtblk \in DataBlocks
                    /\ ~overwritten'
  BY DEF OwnInv, WriteBegin
<1>1. PICK i \in FindDirEntry(dir, n) :
         LET end   == offset + size
             fresh == NeedsFirst(dir[i], end)
             first == IF fresh THEN FreeHead(map) ELSE dir[i].first
             boffs == ByteOffs(offset)
         IN  /\ fresh => HasFree(map)
             /\ bmap' = IF fresh THEN AllocateBlock(map) ELSE map
             /\ dir'  = IF Grows(dir[i], end)
                        THEN [dir EXCEPT ![i].size = end, ![i].first = first]
                        ELSE dir
             /\ op'   = [di |-> i, blkoffs |-> BlkOffs(offset),
                         byteoffs |-> boffs, crtsize |-> CrtSize(size, boffs),
                         payload |-> payload, crtblk |-> first, fresh |-> fresh]
  BY DEF WriteBegin
<1> DEFINE end   == offset + size
           fresh == NeedsFirst(dir[i], end)
           first == IF fresh THEN FreeHead(map) ELSE dir[i].first
<1>2. /\ Idle /\ ~overwritten /\ pc' = "nav" /\ map' = map /\ overwritten' = overwritten
      /\ op'.di = i /\ op'.fresh = fresh /\ op'.crtblk = first
  BY <1>1 DEF WriteBegin
<1>3. /\ map \in BlockMaps /\ Sound(map) /\ Owned(dir, map)
      /\ dir \in Directories /\ EntriesConsistent
  BY <1>2 DEF DiskInv, TypeOK, MapsSound, OwnInv
<1>4. i \in Slots /\ i \in Live(dir) /\ dir[i].size \in Nat
  BY <1>3, FsAssumption DEF FindDirEntry, Live, Entries
<1>5. first \in DataBlocks
  <2>1. CASE fresh
    BY <1>1, <1>3, <2>1, FreeHeadFacts
  <2>2. CASE ~fresh
    BY <1>3, <1>4, <2>2, WriteNumbers DEF NeedsFirst, Grows, EntriesConsistent
  <2>3. QED
    BY <2>1, <2>2
<1>6. /\ HasBlocks(dir') = HasBlocks(dir) \cup {i}
      /\ dir'[i].first = first
      /\ \A j \in Slots \ {i} : dir'[j].first = dir[j].first
  <2>1. first # EOF_BLOCK
    BY <1>5, Ids
  <2>2. CASE Grows(dir[i], end)
    <3>1. dir' = [dir EXCEPT ![i].size = end, ![i].first = first]
      BY <1>1, <2>2
    <3> HIDE DEF first
    <3>2. QED
      BY <1>3, <1>4, <2>1, <3>1 DEF HasBlocks, Live, Entries
  <2>3. CASE ~Grows(dir[i], end)
    <3>1. dir' = dir /\ first = dir[i].first
      BY <1>1, <2>3 DEF NeedsFirst
    <3>2. QED
      BY <1>4, <2>1, <3>1 DEF HasBlocks
  <2>4. QED
    BY <2>2, <2>3
<1>7. HasBlocks(dir) \subseteq Slots
  BY DEF HasBlocks, Live
<1>8. CASE fresh
  <2> DEFINE m2 == AllocateBlock(map)
  <2>1. bmap' = m2 /\ first = FreeHead(map) /\ HasFree(map)
    BY <1>1, <1>8
  <2>2. i \notin HasBlocks(dir)
    BY <1>8 DEF NeedsFirst, HasBlocks
  <2>3. /\ Owned(dir, m2)
        /\ \A j \in HasBlocks(dir) : first \notin FileChain(dir, m2, j)
    BY <1>3, <2>1, AllocateOwned
  <2>4. FileChain(dir', m2, i) = {first} /\ ChainEnds(m2, dir'[i].first)
    BY <1>3, <1>6, <2>1, AllocatedAlone DEF FileChain
  <2>5. \A j \in HasBlocks(dir) : FileChain(dir', m2, j) = FileChain(dir, m2, j)
    BY <1>6, <1>7, <2>2 DEF FileChain
  <2>6. BLKMAP_BID # first
    BY <1>5, Ids
  <2>7. Owned(dir', m2)
    <3>1. ASSUME NEW j \in HasBlocks(dir')
          PROVE  BLKMAP_BID \notin FileChain(dir', m2, j) /\ ChainEnds(m2, dir'[j].first)
      BY <1>6, <1>7, <2>2, <2>3, <2>4, <2>5, <2>6 DEF Owned
    <3>2. ASSUME NEW j \in HasBlocks(dir'), NEW k \in HasBlocks(dir') \ {j}
          PROVE  FileChain(dir', m2, j) \cap FileChain(dir', m2, k) = {}
      BY <1>6, <2>3, <2>4, <2>5 DEF Owned
    <3>3. QED
      BY <3>1, <3>2 DEF Owned
  <2>8. QED
    BY <1>2, <1>5, <1>6, <1>8, <2>1, <2>4, <2>7 DEF Writing, Idle
<1>9. CASE ~fresh
  <2>1. bmap' = map /\ first = dir[i].first
    BY <1>1, <1>9
  <2>2. HasBlocks(dir') = HasBlocks(dir) /\ \A j \in Slots : dir'[j].first = dir[j].first
    BY <1>4, <1>5, <1>6, <2>1, Ids DEF HasBlocks
  <2>3. Owned(dir', map)
    BY <1>3, <1>7, <2>2, OwnedFewer
  <2>4. first \in FileChain(dir', map, i)
    BY <1>5, <1>6, Ids, ChainContains DEF FileChain
  <2>5. QED
    BY <1>2, <1>5, <1>6, <2>1, <2>3, <2>4 DEF Writing, Idle
<1>10. QED
  BY <1>8, <1>9

\* Every other step.
LEMMA OwnOther ==
    ASSUME DiskInv, OwnInv, [Next]_vars,
           \A n \in Names, offset \in Offsets, size \in WriteSizes, payload \in Payloads :
              ~WriteBegin(n, offset, size, payload)
    PROVE  OwnInv'
<1>1. ASSUME NEW n \in Names, Create(n) PROVE OwnInv'
  <2>1. PICK i \in FirstEmptyDirEntry(dir) :
           dir' = [dir EXCEPT ![i] = [name |-> n, size |-> 0, first |-> EOF_BLOCK]]
    BY <1>1 DEF Create
  <2>2. i \in Slots /\ i \notin Live(dir) /\ dir \in Directories
    BY <2>1 DEF FirstEmptyDirEntry, Live, DiskInv, TypeOK
  <2>3. HasBlocks(dir') = HasBlocks(dir) /\ \A j \in HasBlocks(dir') : dir'[j].first = dir[j].first
    BY <2>1, <2>2 DEF HasBlocks, Live
  <2>4. Owned(dir, map) => Owned(dir', map)
    BY <2>3, OwnedFewer
  <2>5. QED
    BY <1>1, <2>4 DEF Create, Idle, Writing, OwnInv
<1>2. ASSUME NEW n \in Names, NEW offset \in Offsets, Truncate(n, offset) PROVE OwnInv'
  <2>1. PICK i \in FindDirEntry(dir, n) :
           dir' = [dir EXCEPT ![i].size = 0, ![i].first = EOF_BLOCK]
    BY <1>2 DEF Truncate
  <2>2. i \in Slots /\ dir \in Directories
    BY <2>1 DEF FindDirEntry, DiskInv, TypeOK
  <2>3. HasBlocks(dir') \subseteq HasBlocks(dir) /\ \A j \in HasBlocks(dir') : dir'[j].first = dir[j].first
    BY <2>1, <2>2 DEF HasBlocks, Live, Entries
  <2>4. Owned(dir, map) => Owned(dir', map)
    BY <2>3, OwnedFewer
  <2>5. QED
    BY <1>2, <2>4 DEF Truncate, Idle, Writing, OwnInv
<1>3. ASSUME NEW n \in Names, NEW offset \in Offsets, NEW size \in WriteSizes,
             WriteNoSpace(n, offset, size)
      PROVE  OwnInv'
  BY <1>3 DEF WriteNoSpace, vars, OwnInv, Idle, Writing, Owned, HasBlocks, FileChain, Live
<1>4. CASE NavFollow
  <2> SUFFICES ASSUME ~lost
               PROVE  /\ op'.di = op.di /\ op'.fresh = op.fresh
                      /\ op'.crtblk \in FileChain(dir, bmap, op.di)
                      /\ op'.crtblk \in DataBlocks
    BY <1>4 DEF OwnInv, NavFollow, Navigating, Writing, Idle
  <2>1. /\ op \in Ops /\ bmap \in BlockMaps /\ op.crtblk \in MapIds
        /\ bmap[op.crtblk] # EOF_BLOCK /\ op.blkoffs > 0
        /\ op.di \in HasBlocks(dir) /\ op.crtblk \in FileChain(dir, bmap, op.di)
        /\ BLKMAP_BID \notin FileChain(dir, bmap, op.di)
    BY <1>4 DEF DiskInv, TypeOK, TargetInMap, OwnInv, Owned, NavFollow, Navigating, Writing
  <2>2. bmap[op.crtblk] \in MapIds
    BY <2>1 DEF BlockMaps
  <2>3. bmap[op.crtblk] \in FileChain(dir, bmap, op.di)
    BY <2>1, <2>2, ChainClosed DEF Closed, FileChain
  <2>4. bmap[op.crtblk] \in DataBlocks
    BY <2>1, <2>2, <2>3, Ids
  <2>5. QED
    BY <1>4, <2>1, <2>2, <2>3, <2>4, NavOps DEF NavFollow
<1>5. CASE NavExtend
  <2> SUFFICES ASSUME ~lost
               PROVE  /\ op'.di = op.di /\ op'.fresh = op.fresh
                      /\ Owned(dir, bmap')
                      /\ op'.crtblk \in FileChain(dir, bmap', op.di)
                      /\ op'.crtblk \in DataBlocks
    BY <1>5 DEF OwnInv, NavExtend, Navigating, Writing, Idle
  <2>1. /\ op \in Ops /\ bmap \in BlockMaps /\ Sound(bmap) /\ HasFree(bmap)
        /\ bmap[op.crtblk] = EOF_BLOCK /\ op.blkoffs > 0 /\ EntriesConsistent
        /\ Owned(dir, bmap) /\ op.di \in HasBlocks(dir)
        /\ op.crtblk \in FileChain(dir, bmap, op.di)
    BY <1>5 DEF DiskInv, TypeOK, MapsSound, OwnInv, NavExtend, Navigating, Writing
  <2>2. bmap' = Extended(bmap, op.crtblk)
    BY <1>5 DEF NavExtend, Extended
  <2>3. FreeHead(bmap) \in DataBlocks /\ FreeHead(bmap) \in MapIds
    BY <2>1, FreeHeadFacts
  <2>4. /\ Owned(dir, bmap')
        /\ FreeHead(bmap) \in FileChain(dir, bmap', op.di)
    BY <2>1, <2>2, ExtendOwned
  <2>5. QED
    BY <1>5, <2>1, <2>3, <2>4, NavOps DEF NavExtend
<1>6. CASE NavFull
  BY <1>6 DEF NavFull, Navigating, OwnInv, Idle, Writing
<1>7. CASE WriteData
  <2>1. ~lost => op.crtblk \in DataBlocks
    BY <1>7 DEF WriteData, OwnInv, Idle, Writing
  <2>2. ~lost => overwritten' = overwritten
    BY <1>7, <2>1, Ids DEF WriteData
  <2>3. /\ pc = "nav" /\ pc' = "save"
        /\ map' = map /\ dir' = dir /\ bmap' = bmap /\ op' = op
        /\ lost' = lost
    BY <1>7 DEF WriteData
  <2>4. QED
    BY <2>2, <2>3 DEF OwnInv, Idle, Writing
<1>8. CASE SaveMap
  BY <1>8 DEF SaveMap, OwnInv, Idle, Writing
<1>9. CASE FormatMapBlock
  BY <1>9 DEF FormatMapBlock, OwnInv, Idle, Writing
<1>10. CASE FormatDirBlock
  <2>1. pc' = "idle" /\ ~overwritten' /\ dir' = EmptyDir
    BY <1>10 DEF FormatDirBlock, OwnInv
  <2>2. Owned(dir', map')
    BY <2>1, ConstantTypes DEF Owned, HasBlocks
  <2>3. QED
    BY <2>1, <2>2 DEF OwnInv, Idle, Writing
<1>11. CASE Crash
  <2>1. ASSUME ~lost', Writing PROVE Owned(dir, map)
    BY <1>11, <2>1 DEF Crash, OwnInv
  <2>2. ASSUME ~lost', ~Writing PROVE HasBlocks(dir) = {}
    BY <1>11, <2>2 DEF Crash, DiskInv, TypeOK, Idle, Writing, HasBlocks
  <2>3. ~lost' => Owned(dir, map)
    BY <2>1, <2>2 DEF Owned
  <2>4. QED
    BY <1>11, <2>3 DEF Crash, OwnInv, Idle, Writing
<1>12. CASE UNCHANGED vars
  BY <1>12 DEF vars, OwnInv, Idle, Writing, Owned, HasBlocks, FileChain, Live
<1>13. ASSUME NEW n \in Names, WriteOnLostMap(n) PROVE OwnInv'
  BY <1>13 DEF WriteOnLostMap, OwnInv, Idle, Writing
<1>14. QED
  BY <1>1, <1>2, <1>3, <1>4, <1>5, <1>6, <1>7, <1>8, <1>9, <1>10, <1>11, <1>12, <1>13
     DEF Next, Request, WriteStep, Format, Ended

\* The strengthened ownership invariant.
THEOREM Ownership == Spec => []OwnInv
<1>1. Init => OwnInv
  BY ConstantTypes DEF Init, OwnInv, Owned, HasBlocks, Idle, Writing
<1>2. DiskInv /\ OwnInv /\ [Next]_vars => OwnInv'
  BY OwnWriteBegin, OwnOther
<1>3. QED
  BY <1>1, <1>2, DiskInvariant, PTL DEF Spec

\* While no allocation was lost, the disk left by a request that returned or died
\* gives every file blocks of its own.
THEOREM FilesAlwaysOwnBlocks == Spec => []FilesOwnBlocks
<1>1. OwnInv => FilesOwnBlocks
  BY DEF OwnInv, FilesOwnBlocks
<1>2. QED
  BY <1>1, Ownership, PTL

\* While no allocation was lost, do_write only reaches and only overwrites the
\* blocks of the file it was asked to write.
THEOREM WriteAlwaysStaysInFile == Spec => []WriteStaysInFile
<1>1. OwnInv => WriteStaysInFile
  BY DEF OwnInv, WriteStaysInFile
<1>2. QED
  BY <1>1, Ownership, PTL

\* A do_write that loaded a map only ever writes block 0 or a data block, never the
\* directory or a block outside the disk; and none loads anything else unless an
\* allocation was lost.
THEOREM WriteTargetAlwaysOnDisk == Spec => []WriteTargetOnDisk
<1>1. DiskInv /\ OwnInv => WriteTargetOnDisk
  BY DEF DiskInv, TargetInMap, OwnInv, WriteTargetOnDisk
<1>2. QED
  BY <1>1, DiskInvariant, Ownership, PTL

-----------------------------------------------------------------------------
(* Leaks.  What do_write will save leaks nothing that the disk does not     *)
(* leak already.                                                            *)

LeakInv == ~lost /\ Writing => Leaked(dir, bmap) \subseteq Leaked(dir, map)

\* Two maps, two directories: a block that the second pair leaks is leaked by the
\* first, if the free blocks and the blocks of the files stay in one or the other.
LEMMA LeakedFewer ==
    ASSUME NEW d1, NEW m1, NEW d2, NEW m2,
           \A x \in Chain(m1, BLKMAP_BID) :
              x \in Chain(m2, BLKMAP_BID) \/ \E i \in HasBlocks(d2) : x \in FileChain(d2, m2, i),
           \A j \in HasBlocks(d1) : \A x \in FileChain(d1, m1, j) :
              x \in Chain(m2, BLKMAP_BID) \/ \E i \in HasBlocks(d2) : x \in FileChain(d2, m2, i)
    PROVE  Leaked(d2, m2) \subseteq Leaked(d1, m1)
BY Ids DEF Leaked, FreeList

\* A step that leaves every file's first block where it was leaks nothing.
LEMMA LeakedSame ==
    ASSUME NEW d1, NEW d2, NEW m, HasBlocks(d1) \subseteq HasBlocks(d2),
           \A i \in HasBlocks(d1) : d2[i].first = d1[i].first
    PROVE  Leaked(d2, m) \subseteq Leaked(d1, m)
BY DEF Leaked, FileChain

\* The first steps of do_write leak nothing, on the disk or in memory.
LEMMA LeakWriteBegin ==
    ASSUME DiskInv, OwnInv, ~lost,
           NEW n \in Names, NEW offset \in Offsets, NEW size \in WriteSizes, NEW payload \in Payloads,
           WriteBegin(n, offset, size, payload)
    PROVE  /\ Leaked(dir', map') \subseteq Leaked(dir, map)
           /\ Leaked(dir', bmap') \subseteq Leaked(dir', map')
<1>1. PICK i \in FindDirEntry(dir, n) :
         LET end   == offset + size
             fresh == NeedsFirst(dir[i], end)
             first == IF fresh THEN FreeHead(map) ELSE dir[i].first
         IN  /\ fresh => HasFree(map)
             /\ bmap' = IF fresh THEN AllocateBlock(map) ELSE map
             /\ dir'  = IF Grows(dir[i], end)
                        THEN [dir EXCEPT ![i].size = end, ![i].first = first]
                        ELSE dir
  BY DEF WriteBegin
<1> DEFINE end   == offset + size
           fresh == NeedsFirst(dir[i], end)
           first == IF fresh THEN FreeHead(map) ELSE dir[i].first
<1>2. /\ map' = map /\ map \in BlockMaps /\ Sound(map) /\ Owned(dir, map)
      /\ dir \in Directories /\ EntriesConsistent
  BY DEF WriteBegin, DiskInv, TypeOK, MapsSound, OwnInv
<1>3. i \in Slots /\ i \in Live(dir)
  BY FsAssumption DEF FindDirEntry, Live
<1>4. CASE fresh
  <2> DEFINE m2 == AllocateBlock(map)
             h  == FreeHead(map)
  <2>1. bmap' = m2 /\ HasFree(map) /\ h \in DataBlocks /\ h # EOF_BLOCK
    BY <1>1, <1>2, <1>4, FreeHeadFacts, Ids
  <2>2. dir' = [dir EXCEPT ![i].size = end, ![i].first = h]
    BY <1>1, <1>4 DEF NeedsFirst
  <2>3. i \notin HasBlocks(dir)
    BY <1>4 DEF NeedsFirst, HasBlocks
  <2>4. HasBlocks(dir') = HasBlocks(dir) \cup {i} /\ dir'[i].first = h
    BY <1>2, <1>3, <2>1, <2>2 DEF HasBlocks, Live, Entries
  <2>5. \A j \in HasBlocks(dir) : dir'[j].first = dir[j].first
    BY <1>2, <1>3, <2>2, <2>3 DEF HasBlocks, Live, Entries
  <2>6. Leaked(dir', map) \subseteq Leaked(dir, map)
    BY <2>4, <2>5, LeakedSame
  <2>7. h \in FileChain(dir', m2, i)
    BY <1>2, <2>1, <2>4, AllocatedAlone DEF FileChain
  <2>8. \A x \in Chain(map, BLKMAP_BID) :
           x \in Chain(m2, BLKMAP_BID) \/ \E j \in HasBlocks(dir') : x \in FileChain(dir', m2, j)
    BY <1>2, <2>1, <2>4, <2>7, AllocateKeepsFree
  <2>9. FileChain(dir', map, i) \subseteq Chain(map, BLKMAP_BID)
    BY <1>2, <2>4, FreeHeadFacts, ChainTransitive DEF FileChain
  <2>10. \A j \in HasBlocks(dir) : FileChain(dir', m2, j) = FileChain(dir', map, j)
    BY <1>2, <2>1, <2>5, OwnedFirst, AllocateElsewhere DEF Owned, FileChain
  <2>11. Leaked(dir', m2) \subseteq Leaked(dir', map)
    BY <2>4, <2>8, <2>9, <2>10, LeakedFewer
  <2>12. QED
    BY <1>2, <2>1, <2>6, <2>11
<1>5. CASE ~fresh
  <2>1. HasBlocks(dir) \subseteq HasBlocks(dir') /\ \A j \in HasBlocks(dir) : dir'[j].first = dir[j].first
    <3>1. CASE Grows(dir[i], end)
      <4>1. dir' = [dir EXCEPT ![i].size = end, ![i].first = dir[i].first]
        BY <1>1, <1>5, <3>1
      <4>2. QED
        BY <1>2, <1>3, <4>1 DEF HasBlocks, Live, Entries
    <3>2. CASE ~Grows(dir[i], end)
      BY <1>1, <3>2
    <3>3. QED
      BY <3>1, <3>2
  <2>2. QED
    BY <1>1, <1>2, <1>5, <2>1, LeakedSame
<1>6. QED
  BY <1>4, <1>5

\* One more block for a file leaks nothing.
LEMMA LeakNavExtend ==
    ASSUME DiskInv, OwnInv, ~lost, NavExtend
    PROVE  Leaked(dir, bmap') \subseteq Leaked(dir, bmap)
<1>1. /\ bmap \in BlockMaps /\ Sound(bmap) /\ HasFree(bmap) /\ op.crtblk \in MapIds
      /\ bmap[op.crtblk] = EOF_BLOCK /\ EntriesConsistent
      /\ Owned(dir, bmap) /\ op.di \in HasBlocks(dir)
      /\ op.crtblk \in FileChain(dir, bmap, op.di)
  BY Ids DEF DiskInv, TypeOK, MapsSound, OwnInv, NavExtend, Navigating, Writing
<1>2. bmap' = Extended(bmap, op.crtblk)
  BY DEF NavExtend, Extended
<1>3. FreeHead(bmap) \in FileChain(dir, bmap', op.di)
  BY <1>1, <1>2, ExtendOwned
<1>4. \A x \in Chain(bmap, BLKMAP_BID) : x \in Chain(bmap', BLKMAP_BID) \/ x = FreeHead(bmap)
  BY <1>1, <1>2, AllocateKeepsFree, ExtendedFreeList
<1>5. \A j \in HasBlocks(dir) : FileChain(dir, bmap, j) \subseteq FileChain(dir, bmap', j)
  BY <1>1, <1>2, OwnedFirst, ExtendedKeeps DEF Owned, FileChain
<1>6. QED
  BY <1>1, <1>3, <1>4, <1>5, LeakedFewer

\* What do_write will save leaks nothing new.
LEMMA LeakInvariant == Spec => []LeakInv
<1>1. Init => LeakInv
  BY DEF Init, LeakInv, Writing
<1>2. ASSUME DiskInv, OwnInv, LeakInv, [Next]_vars PROVE LeakInv'
  <2> SUFFICES ASSUME ~lost', Writing'
               PROVE  Leaked(dir', bmap') \subseteq Leaked(dir', map')
    BY DEF LeakInv
  <2> USE <1>2
  <2>1. ASSUME NEW n \in Names, NEW offset \in Offsets, NEW size \in WriteSizes,
               NEW payload \in Payloads, WriteBegin(n, offset, size, payload)
        PROVE  Leaked(dir', bmap') \subseteq Leaked(dir', map')
    BY <2>1, LeakWriteBegin DEF WriteBegin
  <2>2. CASE NavExtend
    BY <2>2, LeakNavExtend DEF NavExtend, Navigating, LeakInv, Writing
  <2>3. CASE NavFollow \/ WriteData \/ UNCHANGED vars
    <3>1. UNCHANGED <<dir, map, bmap, lost>> /\ (Writing' => Writing)
      BY <2>3 DEF NavFollow, Navigating, WriteData, vars, Writing
    <3>2. QED
      BY <3>1 DEF LeakInv
  <2>4. CASE (\E n \in Names : Create(n) \/ \E offset \in Offsets : Truncate(n, offset) \/ \E size \in WriteSizes : WriteNoSpace(n, offset, size))
             \/ (\E n \in Names : WriteOnLostMap(n)) \/ NavFull \/ SaveMap \/ Format \/ Crash
    BY <2>4 DEF Create, Truncate, WriteNoSpace, WriteOnLostMap, NavFull, SaveMap, Format, FormatMapBlock,
                FormatDirBlock, Crash, Idle, Writing, vars
  <2>5. QED
    BY <2>1, <2>2, <2>3, <2>4 DEF Next, Request, WriteStep, Ended
<1>3. QED
  BY <1>1, <1>2, DiskInvariant, Ownership, PTL DEF Spec

\* While no allocation was lost, no step but a truncation loses a block: writes
\* that fail or die leak nothing.
THEOREM LeaksOnlyByTruncate == Spec => LeakOnlyByTruncate
<1> DEFINE A == ~lost /\ pc # "format" /\ ~lost' /\ pc' # "format"
                /\ ~(Leaked(dir', map') \subseteq Leaked(dir, map))
                => \E i \in HasBlocks(dir) : dir'[i].first = EOF_BLOCK
<1>1. ASSUME DiskInv, OwnInv, LeakInv, [Next]_vars PROVE [A]_vars
  <2> SUFFICES ASSUME ~lost, pc # "format", ~lost', pc' # "format",
                      \A i \in HasBlocks(dir) : dir'[i].first # EOF_BLOCK
               PROVE  Leaked(dir', map') \subseteq Leaked(dir, map)
    OBVIOUS
  <2> USE <1>1
  <2>1. ASSUME NEW n \in Names, NEW offset \in Offsets, NEW size \in WriteSizes,
               NEW payload \in Payloads, WriteBegin(n, offset, size, payload)
        PROVE  Leaked(dir', map') \subseteq Leaked(dir, map)
    BY <2>1, LeakWriteBegin
  <2>2. ASSUME NEW n \in Names, Create(n)
        PROVE  Leaked(dir', map') \subseteq Leaked(dir, map)
    <3>1. PICK i \in FirstEmptyDirEntry(dir) :
             dir' = [dir EXCEPT ![i] = [name |-> n, size |-> 0, first |-> EOF_BLOCK]]
      BY <2>2 DEF Create
    <3>2. i \in Slots /\ i \notin Live(dir) /\ dir \in Directories /\ map' = map
      BY <2>2, <3>1 DEF FirstEmptyDirEntry, Live, DiskInv, TypeOK, Create
    <3>3. HasBlocks(dir) \subseteq HasBlocks(dir') /\ \A j \in HasBlocks(dir) : dir'[j].first = dir[j].first
      BY <3>1, <3>2 DEF HasBlocks, Live
    <3>4. QED
      BY <3>2, <3>3, LeakedSame
  <2>3. ASSUME NEW n \in Names, NEW offset \in Offsets, Truncate(n, offset)
        PROVE  Leaked(dir', map') \subseteq Leaked(dir, map)
    <3>1. PICK i \in FindDirEntry(dir, n) :
             dir' = [dir EXCEPT ![i].size = 0, ![i].first = EOF_BLOCK]
      BY <2>3 DEF Truncate
    <3>2. i \in Slots /\ dir \in Directories /\ map' = map
      BY <2>3, <3>1 DEF FindDirEntry, DiskInv, TypeOK, Truncate
    <3>3. dir'[i].first = EOF_BLOCK
      BY <3>1, <3>2 DEF Entries
    <3>4. i \notin HasBlocks(dir)
      BY <3>3
    <3>5. HasBlocks(dir) \subseteq HasBlocks(dir') /\ \A j \in HasBlocks(dir) : dir'[j].first = dir[j].first
      BY <3>1, <3>2, <3>4 DEF HasBlocks, Live, Entries
    <3>6. QED
      BY <3>2, <3>5, LeakedSame
  <2>4. CASE SaveMap
    BY <2>4 DEF SaveMap, LeakInv, Writing
  <2>5. CASE UNCHANGED <<dir, map>>
    BY <2>5 DEF Leaked, HasBlocks, Live, FileChain
  <2>6. CASE Format
    BY <2>6 DEF Format, FormatMapBlock, FormatDirBlock
  <2>7. QED
    BY <2>1, <2>2, <2>3, <2>4, <2>5, <2>6
       DEF Next, Request, WriteStep, WriteNoSpace, WriteOnLostMap, Ended, NavFollow, NavExtend,
           NavFull, WriteData, Crash, vars
<1>2. QED
  BY <1>1, DiskInvariant, Ownership, LeakInvariant, PTL DEF Spec, LeakOnlyByTruncate

-----------------------------------------------------------------------------
(* What info_myfs counts.                                                   *)

\* Two sets with nothing in common.
LEMMA CardinalityApart ==
    ASSUME NEW A, NEW B, IsFiniteSet(A), IsFiniteSet(B), A \cap B = {}
    PROVE  Cardinality(A \cup B) = Cardinality(A) + Cardinality(B)
<1>1. Cardinality(A \cup B) = Cardinality(A) + Cardinality(B) - Cardinality(A \cap B)
  BY FS_Union
<1>2. Cardinality(A \cap B) = 0 /\ Cardinality(A) \in Nat /\ Cardinality(B) \in Nat
  BY FS_EmptySet, FS_CardinalityType
<1>3. QED
  BY <1>1, <1>2

\* The blocks met in the first n rounds.
Walked(m, b, n) == {Walk(m, b)[k] : k \in 0 .. (n - 1)}

\* A walk through data blocks that meets its end counts different blocks.
LEMMA RoundsCount ==
    ASSUME NEW m, NEW b, NEW end, end \notin DataBlocks, NEW n \in Stops(m, b, end),
           \A k \in 0 .. (n - 1) : Walk(m, b)[k] \in DataBlocks
    PROVE  /\ Rounds(m, b, end) = n /\ n \in Nat
           /\ IsFiniteSet(Walked(m, b, n)) /\ Cardinality(Walked(m, b, n)) = n
<1> DEFINE w == Walk(m, b)
           B == {w[k] : k \in 0 .. (n - 1)}
           f == [k \in 1 .. n |-> w[k - 1]]
<1> FS_NBLOCKS \in Nat
  BY BlockMapAssumption
<1>1. n \in Nat /\ n <= FS_NBLOCKS /\ w[n] = end
  BY DEF Stops
<1>2. /\ \A k \in 1 .. FS_NBLOCKS : w[k - 1] \in DataBlocks => w[k] = m[w[k - 1]]
      /\ \A k \in 0 .. (n - 1) : w[k] \in DataBlocks
  BY WalkLinks DEF MapIds
<1>3. Rounds(m, b, end) = n
  <2>1. \A k \in Stops(m, b, end) : k \in Nat /\ n <= k
    BY <1>1, <1>2 DEF Stops
  <2> HIDE DEF w
  <2>2. \A x \in Stops(m, b, end) : (\A y \in Stops(m, b, end) : x <= y) => x = n
    BY <1>1, <2>1
  <2>3. QED
    BY <2>1, <2>2 DEF Rounds, Min
<1> HIDE DEF w
<1>4. ASSUME NEW i \in 0 .. (n - 1), NEW j \in 0 .. (n - 1), i < j, w[i] = w[j]
      PROVE  FALSE
  <2> DEFINE T == {k \in Nat : k <= n - j /\ w[i + k] # w[j + k]}
  <2>1. i \in Nat /\ j \in Nat /\ j < n /\ n - j \in Nat
    BY <1>1
  <2>2. n - j \in T
    <3>1. j + (n - j) = n /\ i + (n - j) \in 0 .. (n - 1)
      BY <1>1, <1>4, <2>1
    <3>2. w[i + (n - j)] \in DataBlocks
      BY <1>2, <3>1
    <3>3. QED
      BY <1>1, <2>1, <3>1, <3>2
  <2>3. PICK l \in T : \A k \in T : l <= k
    <3>1. T \in SUBSET Nat
      OBVIOUS
    <3> HIDE DEF T
    <3>2. QED
      BY <2>2, <3>1, LeastNumber
  <2>4. l \in Nat /\ l <= n - j /\ w[i + l] # w[j + l] /\ l # 0
    BY <1>4, <2>1, <2>3
  <2>5. l - 1 \in Nat /\ l - 1 <= n - j /\ ~(l <= l - 1)
    BY <2>1, <2>4
  <2>6. w[i + (l - 1)] = w[j + (l - 1)]
    <3> HIDE DEF T
    <3>1. l - 1 \notin T
      BY <2>3, <2>5
    <3>2. QED
      BY <2>5, <3>1 DEF T
  <2>7. /\ i + (l - 1) \in 0 .. (n - 1) /\ j + (l - 1) \in 0 .. (n - 1)
        /\ i + l \in 1 .. FS_NBLOCKS /\ j + l \in 1 .. FS_NBLOCKS
        /\ (i + l) - 1 = i + (l - 1) /\ (j + l) - 1 = j + (l - 1)
    BY <1>1, <1>4, <2>1, <2>4, <2>5
  <2>8. w[i + l] = m[w[i + (l - 1)]] /\ w[j + l] = m[w[j + (l - 1)]]
    BY <1>2, <2>7
  <2>9. QED
    BY <2>4, <2>6, <2>8
<1>5. f \in Bijection(1 .. n, B)
  <2>1. f \in [1 .. n -> B]
    BY <1>1
  <2>2. \A x, y \in 1 .. n : f[x] = f[y] => x = y
    <3> SUFFICES ASSUME NEW x \in 1 .. n, NEW y \in 1 .. n, f[x] = f[y], x # y
                 PROVE  FALSE
      OBVIOUS
    <3>1. x - 1 \in 0 .. (n - 1) /\ y - 1 \in 0 .. (n - 1) /\ (x - 1 < y - 1 \/ y - 1 < x - 1)
      BY <1>1
    <3>2. w[x - 1] = w[y - 1]
      OBVIOUS
    <3>3. QED
      BY <1>4, <3>1, <3>2
  <2>3. \A z \in B : \E x \in 1 .. n : f[x] = z
    <3> SUFFICES ASSUME NEW k \in 0 .. (n - 1)
                 PROVE  \E x \in 1 .. n : f[x] = w[k]
      OBVIOUS
    <3>1. k + 1 \in 1 .. n /\ (k + 1) - 1 = k
      BY <1>1
    <3>2. QED
      BY <3>1
  <2> HIDE DEF f, B
  <2>4. QED
    BY <2>1, <2>2, <2>3 DEF Bijection, Injection, Surjection, IsInjective
<1>6. ExistsBijection(1 .. n, B)
  BY <1>5 DEF ExistsBijection
<1>7. Cardinality(B) = n /\ IsFiniteSet(B)
  <2> HIDE DEF B
  <2>1. QED
    BY <1>1, <1>6, FS_CountingElements, FS_NatBijection
<1>8. QED
  BY <1>1, <1>3, <1>7 DEF w, Walked

\* Following links from b never leaves the data blocks.
GoesRound(m, b) == \E L \in SUBSET DataBlocks : b \in L /\ \A x \in L : m[x] \in L

\* A walk that stays in C up to its end, and never goes round, meets that end and
\* counts the blocks on the way to it.
LEMMA WalkCount ==
    ASSUME NEW m, NEW b, NEW end, end \notin DataBlocks, NEW C \in SUBSET DataBlocks,
           b \in C \cup {end}, \A x \in C : m[x] \in C \cup {end},
           ~GoesRound(m, b)
    PROVE  \E B \in SUBSET C :
              /\ Stops(m, b, end) # {}
              /\ IsFiniteSet(B) /\ Rounds(m, b, end) = Cardinality(B)
              /\ b \in B \cup {end} /\ \A x \in B : m[x] \in B \cup {end}
<1> DEFINE w == Walk(m, b)
           T == {k \in Nat : k <= FS_NBLOCKS /\ w[k] \notin DataBlocks}
<1> FS_NBLOCKS \in Nat
  BY BlockMapAssumption
<1>1. T # {}
  BY WalkRound DEF GoesRound
<1>2. PICK n \in T : \A k \in T : n <= k
  <2>1. T \in SUBSET Nat
    OBVIOUS
  <2> HIDE DEF T
  <2>2. QED
    BY <1>1, <2>1, LeastNumber
<1>3. n \in Nat /\ n <= FS_NBLOCKS /\ w[n] \notin DataBlocks
  OBVIOUS
<1>4. ASSUME NEW k \in 0 .. (n - 1) PROVE w[k] \in DataBlocks
  <2>1. k \in Nat /\ k <= FS_NBLOCKS /\ ~(n <= k)
    BY <1>3
  <2> HIDE DEF w
  <2>2. QED
    BY <1>2, <2>1
<1> HIDE DEF T
<1>5. w[0] = b /\ \A k \in 1 .. FS_NBLOCKS : w[k - 1] \in DataBlocks => w[k] = m[w[k - 1]]
  BY WalkLinks DEF MapIds
<1> HIDE DEF w
<1>6. ASSUME NEW k \in 0 .. n, w[k] \notin C \cup {end}
      PROVE  FALSE
  <2> DEFINE U == {l \in Nat : l <= n /\ w[l] \notin C \cup {end}}
  <2>1. PICK l \in U : \A j \in U : l <= j
    <3>1. U \in SUBSET Nat /\ k \in U
      BY <1>3, <1>6
    <3> HIDE DEF U
    <3>2. QED
      BY <3>1, LeastNumber
  <2>2. l \in Nat /\ l <= n /\ w[l] \notin C \cup {end} /\ l # 0
    BY <1>5, <2>1
  <2>3. l - 1 \in Nat /\ l - 1 <= n /\ ~(l <= l - 1) /\ l - 1 \in 0 .. (n - 1) /\ l \in 1 .. FS_NBLOCKS
    BY <1>3, <2>2
  <2>4. w[l - 1] \in C
    BY <1>4, <2>1, <2>3
  <2>5. w[l] = m[w[l - 1]]
    BY <1>4, <1>5, <2>3
  <2>6. QED
    BY <2>2, <2>4, <2>5
<1>7. w[n] = end
  BY <1>3, <1>6
<1>8. n \in Stops(m, b, end)
  BY <1>3, <1>7 DEF Stops, w
<1> DEFINE B == {w[k] : k \in 0 .. (n - 1)}
<1>9. B \in SUBSET C
  BY <1>3, <1>4, <1>6
<1>10. Rounds(m, b, end) = n /\ IsFiniteSet(B) /\ Cardinality(B) = n
  <2>1. \A k \in 0 .. (n - 1) : Walk(m, b)[k] \in DataBlocks
    BY <1>4 DEF w
  <2>2. B = Walked(m, b, n)
    BY DEF Walked, w
  <2> HIDE DEF B
  <2>3. QED
    BY <1>8, <2>1, <2>2, RoundsCount
<1>11. b \in B \cup {end}
  <2>1. CASE n = 0
    BY <1>5, <1>7, <2>1
  <2>2. CASE n # 0
    <3>1. 0 \in 0 .. (n - 1)
      BY <1>3, <2>2
    <3>2. QED
      BY <1>5, <3>1
  <2>3. QED
    BY <2>1, <2>2
<1>12. ASSUME NEW k \in 0 .. (n - 1) PROVE m[w[k]] \in B \cup {end}
  <2>1. k + 1 \in 1 .. FS_NBLOCKS /\ (k + 1) - 1 = k /\ (k + 1 \in 0 .. (n - 1) \/ k + 1 = n)
    BY <1>3
  <2>2. m[w[k]] = w[k + 1]
    BY <1>4, <1>5, <2>1
  <2>3. QED
    BY <1>7, <2>1, <2>2
<1>13. Stops(m, b, end) # {} /\ \A x \in B : m[x] \in B \cup {end}
  BY <1>8, <1>12
<1> HIDE DEF B
<1>14. QED
  BY <1>9, <1>10, <1>11, <1>13

\* The walk over the free list meets block 0 and counts its blocks.
LEMMA FreeCount ==
    ASSUME NEW m \in BlockMaps, Sound(m)
    PROVE  /\ Stops(m, FreeHead(m), BLKMAP_BID) # {}
           /\ IsFiniteSet(FreeList(m))
           /\ FreeBlks(m) = Cardinality(FreeList(m))
<1> DEFINE F == FreeList(m)
           b == FreeHead(m)
<1>1. /\ F \in SUBSET DataBlocks /\ b = m[BLKMAP_BID] /\ b \in F \cup {BLKMAP_BID}
      /\ \A x \in F : m[x] \in F \cup {BLKMAP_BID}
      /\ BLKMAP_BID \in Chain(m, b)
  BY ChainInMap, ChainContains, ChainClosed, Ids
     DEF Sound, FreeListReturns, Closed, FreeHead, BlockMaps, FreeList
<1>2. ~GoesRound(m, b)
  BY <1>1, ChainMinimal, Ids DEF Closed, GoesRound
<1> HIDE DEF F, b
<1>3. PICK B \in SUBSET F :
         /\ Stops(m, b, BLKMAP_BID) # {}
         /\ IsFiniteSet(B) /\ Rounds(m, b, BLKMAP_BID) = Cardinality(B)
         /\ b \in B \cup {BLKMAP_BID} /\ \A x \in B : m[x] \in B \cup {BLKMAP_BID}
  <2>1. BLKMAP_BID \notin DataBlocks
    BY Ids
  <2>2. QED
    BY <1>1, <1>2, <2>1, WalkCount
<1>4. F \subseteq B
  <2>1. B \cup {BLKMAP_BID} \in SUBSET MapIds /\ Closed(m, B \cup {BLKMAP_BID})
    BY <1>1, <1>3, Ids DEF Closed
  <2>2. Chain(m, BLKMAP_BID) \subseteq B \cup {BLKMAP_BID}
    BY <2>1, ChainMinimal
  <2>3. QED
    BY <2>2 DEF F, FreeList
<1>5. F = B
  BY <1>4
<1>6. QED
  BY <1>3, <1>5 DEF F, b, FreeBlks

\* The blocks of a file, none for an empty one.
FileBlocks(d, m, i) == IF d[i].first = EOF_BLOCK THEN {} ELSE FileChain(d, m, i)

\* The walk over the list of a file meets the end mark and counts its blocks.
LEMMA FileCount ==
    ASSUME NEW m \in BlockMaps, NEW d, Owned(d, m), NEW i \in Live(d),
           d[i].first \in DataBlocks \cup {EOF_BLOCK}
    PROVE  /\ Stops(m, d[i].first, EOF_BLOCK) # {}
           /\ FileBlocks(d, m, i) \subseteq DataBlocks
           /\ IsFiniteSet(FileBlocks(d, m, i))
           /\ Rounds(m, d[i].first, EOF_BLOCK) = Cardinality(FileBlocks(d, m, i))
<1> DEFINE b == d[i].first
           F == FileBlocks(d, m, i)
<1>1. EOF_BLOCK \notin DataBlocks /\ EOF_BLOCK \notin MapIds
  BY Ids
<1>2. b \in DataBlocks => Ends(m, b) /\ F = Chain(m, b)
  BY <1>1 DEF Owned, FileChain, Ends, HasBlocks, FileBlocks
<1>3. b \notin DataBlocks => b = EOF_BLOCK /\ F = {}
  BY DEF FileBlocks
<1>4. F \in SUBSET DataBlocks /\ b \in F \cup {EOF_BLOCK} /\ \A x \in F : m[x] \in F \cup {EOF_BLOCK}
  BY <1>2, <1>3, EndsLinks
<1>5. ~GoesRound(m, b)
  BY <1>1, <1>2, <1>3, EndsNotRound DEF GoesRound
<1> HIDE DEF F, b
<1>6. PICK B \in SUBSET F :
         /\ Stops(m, b, EOF_BLOCK) # {}
         /\ IsFiniteSet(B) /\ Rounds(m, b, EOF_BLOCK) = Cardinality(B)
         /\ b \in B \cup {EOF_BLOCK} /\ \A x \in B : m[x] \in B \cup {EOF_BLOCK}
  BY <1>1, <1>4, <1>5, WalkCount
<1>7. F \subseteq B
  <2>1. CASE b \in DataBlocks
    <3>1. b \in B /\ B \in SUBSET MapIds /\ Closed(m, B)
      BY <1>1, <1>4, <1>6, <2>1, Ids DEF Closed
    <3>2. QED
      BY <1>2, <2>1, <3>1, ChainMinimal
  <2>2. CASE b \notin DataBlocks
    BY <1>3, <2>2
  <2>3. QED
    BY <2>1, <2>2
<1>8. F = B
  BY <1>7
<1>9. QED
  BY <1>4, <1>6, <1>8 DEF F, b

\* So what it adds up over the files is the number of blocks that they have.
LEMMA UsedCount ==
    ASSUME NEW m \in BlockMaps, NEW d, Owned(d, m), IsFiniteSet(Live(d)),
           \A i \in Live(d) : d[i].first \in DataBlocks \cup {EOF_BLOCK}
    PROVE  LET used == UNION {FileBlocks(d, m, i) : i \in Live(d)}
           IN  IsFiniteSet(used) /\ UsedBlks(d, m) = Cardinality(used)
<1> DEFINE R(i) == Rounds(m, d[i].first, EOF_BLOCK)
           F(i) == FileBlocks(d, m, i)
           U(s) == UNION {F(i) : i \in s}
           iter[s \in SUBSET Live(d)] ==
              IF s = {} THEN 0
              ELSE LET x == CHOOSE y \in s : TRUE IN R(x) + iter[s \ {x}]
<1>1. UsedBlks(d, m) = iter[Live(d)]
  BY DEF UsedBlks, MapThenSumSet, MapThenFoldSet
<1>2. ASSUME NEW i \in Live(d)
      PROVE  F(i) \in SUBSET DataBlocks /\ IsFiniteSet(F(i)) /\ R(i) = Cardinality(F(i))
  BY FileCount
<1>3. ASSUME NEW i \in Live(d), NEW j \in Live(d), i # j
      PROVE  F(i) \cap F(j) = {}
  BY <1>3 DEF Owned, FileBlocks, HasBlocks
<1> HIDE DEF R, F
<1> DEFINE g == [s \in SUBSET Live(d) |-> Cardinality(U(s))]
<1>4. ASSUME NEW s \in SUBSET Live(d)
      PROVE  IsFiniteSet(U(s))
  <2>1. IsFiniteSet(DataBlocks)
    BY BlockMapAssumption, FS_Interval DEF DataBlocks
  <2>2. U(s) \in SUBSET DataBlocks
    BY <1>2
  <2>3. QED
    BY <2>1, <2>2, FS_Subset
<1>5. ASSUME NEW s \in SUBSET Live(d), NEW x \in s
      PROVE  Cardinality(U(s)) = R(x) + Cardinality(U(s \ {x}))
  <2> DEFINE A == F(x)
             B == U(s \ {x})
  <2>1. U(s) = A \cup B
    OBVIOUS
  <2>2. A \cap B = {}
    BY <1>3
  <2>3. IsFiniteSet(A) /\ R(x) = Cardinality(A) /\ IsFiniteSet(B)
    BY <1>2, <1>4
  <2> HIDE DEF A, B
  <2>4. Cardinality(A \cup B) = Cardinality(A) + Cardinality(B)
    BY <2>2, <2>3, CardinalityApart
  <2>5. QED
    BY <2>1, <2>3, <2>4 DEF B
<1>6. Cardinality(U({})) = 0
  BY FS_EmptySet
<1> HIDE DEF U
<1>7. g = [s \in SUBSET Live(d) |->
              IF s = {} THEN 0 ELSE LET x == CHOOSE y \in s : TRUE IN R(x) + g[s \ {x}]]
  <2>1. ASSUME NEW s \in SUBSET Live(d), s # {}
        PROVE  g[s] = LET x == CHOOSE y \in s : TRUE IN R(x) + g[s \ {x}]
    <3> DEFINE x == CHOOSE y \in s : TRUE
    <3>1. x \in s
      BY <2>1
    <3> HIDE DEF x
    <3>2. g[s] = R(x) + g[s \ {x}]
      BY <1>5, <3>1
    <3>3. QED
      BY <3>2 DEF x
  <2>2. QED
    BY <1>6, <2>1
<1>8. iter = [s \in SUBSET Live(d) |->
              IF s = {} THEN 0 ELSE LET x == CHOOSE y \in s : TRUE IN R(x) + iter[s \ {x}]]
  <2> HIDE DEF g
  <2>1. QED
    BY <1>7
<1> HIDE DEF iter, g
<1>9. ASSUME NEW s \in SUBSET Live(d), iter[s] # Cardinality(U(s))
      PROVE  FALSE
  <2> DEFINE T == {Cardinality(t) : t \in {t \in SUBSET Live(d) : iter[t] # Cardinality(U(t))}}
  <2>1. T \in SUBSET Nat /\ Cardinality(s) \in T
    BY <1>9, FS_Subset, FS_CardinalityType
  <2>2. PICK k \in T : \A j \in T : k <= j
    <3> HIDE DEF T
    <3>1. QED
      BY <2>1, LeastNumber
  <2>3. PICK t \in SUBSET Live(d) : iter[t] # Cardinality(U(t)) /\ k = Cardinality(t)
    OBVIOUS
  <2> DEFINE x == CHOOSE y \in t : TRUE
  <2>4. t # {} /\ x \in t
    BY <1>6, <1>8, <2>3
  <2>5. iter[t] = R(x) + iter[t \ {x}]
    BY <1>8, <2>4
  <2> HIDE DEF x
  <2>6. t \ {x} \in SUBSET Live(d) /\ Cardinality(t \ {x}) = k - 1 /\ k \in Nat
    BY <2>1, <2>3, <2>4, FS_Subset, FS_RemoveElement
  <2>7. iter[t \ {x}] = Cardinality(U(t \ {x}))
    <3>1. ~(k <= k - 1)
      BY <2>6
    <3>2. QED
      BY <2>2, <2>6, <3>1
  <2>8. QED
    BY <1>5, <2>3, <2>4, <2>5, <2>7
<1>10. iter[Live(d)] = Cardinality(U(Live(d))) /\ IsFiniteSet(U(Live(d)))
  BY <1>4, <1>9
<1>11. QED
  BY <1>1, <1>10 DEF U, F

\* info_myfs misses what is neither free nor in a file.
LEMMA MissingIsLeaked ==
    ASSUME NEW m \in BlockMaps, Sound(m), NEW d, Owned(d, m), IsFiniteSet(Live(d)),
           \A i \in Live(d) : d[i].first \in DataBlocks \cup {EOF_BLOCK}
    PROVE  Missing(d, m) = Cardinality(Leaked(d, m))
<1> DEFINE used == UNION {FileBlocks(d, m, i) : i \in Live(d)}
           free == FreeList(m)
<1>1. IsFiniteSet(used) /\ UsedBlks(d, m) = Cardinality(used)
  BY UsedCount
<1>2. IsFiniteSet(free) /\ FreeBlks(m) = Cardinality(free)
  BY FreeCount
<1>3. used \in SUBSET DataBlocks
  BY FileCount
<1>4. free \in SUBSET DataBlocks
  BY ChainInMap, Ids DEF FreeList
<1>5. free \cap used = {}
  <2>1. \A i \in Live(d) : FileBlocks(d, m, i) \cap free = {}
    BY ApartFromFree DEF FileBlocks, Owned, HasBlocks, FileChain, FreeList
  <2>2. QED
    BY <2>1
<1>6. Leaked(d, m) = DataBlocks \ (free \cup used)
  <2>1. used = UNION {FileChain(d, m, i) : i \in HasBlocks(d)}
    BY DEF FileBlocks, HasBlocks
  <2>2. QED
    BY <2>1 DEF Leaked
<1>7. IsFiniteSet(DataBlocks) /\ Cardinality(DataBlocks) = FS_NBLOCKS - 2
  <2>1. 2 \in Int /\ FS_NBLOCKS \in Int /\ FS_NBLOCKS - 1 \in Int /\ FS_NBLOCKS > 2
    BY BlockMapAssumption
  <2>2. QED
    BY <2>1, FS_Interval DEF DataBlocks
<1> HIDE DEF used, free
<1> DEFINE both == free \cup used
<1>8. /\ both \in SUBSET DataBlocks /\ DataBlocks \cap both = both
      /\ Cardinality(both) = Cardinality(free) + Cardinality(used)
  <2>1. Cardinality(both) = Cardinality(free) + Cardinality(used)
    BY <1>1, <1>2, <1>5, CardinalityApart
  <2>2. QED
    BY <1>3, <1>4, <2>1
<1> HIDE DEF both
<1>9. Cardinality(DataBlocks \ both) = Cardinality(DataBlocks) - Cardinality(both)
  <2>1. Cardinality(DataBlocks \ both) = Cardinality(DataBlocks) - Cardinality(DataBlocks \cap both)
    BY <1>7, FS_Difference
  <2>2. QED
    BY <1>8, <2>1
<1>10. Cardinality(free) \in Nat /\ Cardinality(used) \in Nat /\ FS_NBLOCKS \in Nat
  BY <1>1, <1>2, FS_CardinalityType, BlockMapAssumption
<1>11. QED
  BY <1>1, <1>2, <1>6, <1>7, <1>8, <1>9, <1>10 DEF Missing, both

\* On the disk of a filesystem at rest that lost no allocation, the loops of
\* info_myfs end and the blocks that it reports missing are those that no list has.
THEOREM InfoAlwaysAccounts == Spec => []InfoAccounts
<1>1. ASSUME DiskInv, OwnInv
      PROVE  InfoAccounts
  <2> SUFFICES ASSUME ~lost, Idle
               PROVE  /\ Stops(map, FreeHead(map), BLKMAP_BID) # {}
                      /\ \A i \in Live(dir) : Stops(map, dir[i].first, EOF_BLOCK) # {}
                      /\ Missing(dir, map) = Cardinality(Leaked(dir, map))
    BY DEF InfoAccounts
  <2>1. /\ map \in BlockMaps /\ Sound(map) /\ Owned(dir, map)
        /\ \A i \in Live(dir) : dir[i].first \in DataBlocks \cup {EOF_BLOCK}
    BY <1>1 DEF DiskInv, OwnInv, TypeOK, MapsSound, EntriesConsistent
  <2>2. IsFiniteSet(Live(dir))
    <3>1. Live(dir) \in SUBSET Slots
      BY <1>1 DEF Live
    <3>2. IsFiniteSet(Slots)
      BY FsAssumption, FS_Interval DEF Slots
    <3>3. QED
      BY <3>1, <3>2, FS_Subset
  <2>3. QED
    BY <2>1, <2>2, FreeCount, FileCount, MissingIsLeaked
<1>2. QED
  BY <1>1, DiskInvariant, Ownership, PTL

=============================================================================
