------------------------- MODULE SSFSRefinementProofs -------------------------
(***************************************************************************)
(* SSFS implements FileStore, for every number of blocks, files, offsets    *)
(* and crashes: each step of a handler is a step of the store or none.      *)
(***************************************************************************)
EXTENDS SSFSRefinement, SSFSProofs

USE DEF Directories

-----------------------------------------------------------------------------
(* Files read off a disk.                                                   *)

\* No two entries have the same name.
UniqueNames(d) == \A i, j \in Live(d) : d[i].name = d[j].name => i = j

\* The file called n is the one in the slot of that name.
LEMMA FileNamed ==
    ASSUME NEW d, NEW m, NEW c, UniqueNames(d), NEW i \in Live(d), d[i].name \in Names
    PROVE  FilesOn(d, m, c)[d[i].name] = FileAt(d, m, c, i)
<1> DEFINE n == d[i].name
           j == CHOOSE k \in Live(d) : d[k].name = n
<1>1. j \in Live(d) /\ d[j].name = n
  OBVIOUS
<1>2. j = i
  BY <1>1 DEF UniqueNames
<1>3. FilesOn(d, m, c)[n] = FileAt(d, m, c, j)
  BY DEF FilesOn
<1>4. QED
  BY <1>2, <1>3

\* A name that no entry has stands for no file.
LEMMA FileMissing ==
    ASSUME NEW d, NEW m, NEW c, NEW n \in Names, \A i \in Live(d) : d[i].name # n
    PROVE  FilesOn(d, m, c)[n] = NoFile
BY DEF FilesOn

\* The file called n, in slot i, is all that two disks differ in.
DifferIn(i, n, d, m, c, d2, m2, c2) ==
    /\ UniqueNames(d) /\ UniqueNames(d2) /\ Live(d2) \ {i} = Live(d) \ {i}
    /\ \A j \in Live(d) \ {i} : /\ d2[j].name = d[j].name
                                /\ FileAt(d2, m2, c2, j) = FileAt(d, m, c, j)
    /\ i \in Live(d) => d[i].name = n
    /\ i \in Live(d2) => d2[i].name = n

\* They have the same files under the other names.
LEMMA OtherFiles ==
    ASSUME NEW i, NEW n, NEW d, NEW m, NEW c, NEW d2, NEW m2, NEW c2,
           DifferIn(i, n, d, m, c, d2, m2, c2)
    PROVE  \A x \in Names \ {n} : FilesOn(d2, m2, c2)[x] = FilesOn(d, m, c)[x]
<1> USE DEF DifferIn
<1> SUFFICES ASSUME NEW x \in Names \ {n}
             PROVE  FilesOn(d2, m2, c2)[x] = FilesOn(d, m, c)[x]
  OBVIOUS
<1>1. CASE \E j \in Live(d) : d[j].name = x
  <2>1. PICK j \in Live(d) : d[j].name = x
    BY <1>1
  <2>2. j \in Live(d2) /\ j # i /\ d2[j].name = x
    BY <2>1
  <2>3. FilesOn(d2, m2, c2)[x] = FileAt(d2, m2, c2, j) /\ FilesOn(d, m, c)[x] = FileAt(d, m, c, j)
    BY <2>1, <2>2, FileNamed
  <2>4. QED
    BY <2>2, <2>3
<1>2. CASE ~\E j \in Live(d) : d[j].name = x
  <2>1. \A j \in Live(d2) : d2[j].name # x
    BY <1>2
  <2>2. QED
    BY <1>2, <2>1, FileMissing
<1>3. QED
  BY <1>1, <1>2

\* Two disks with the same names and the same files have the same files.
LEMMA SameFiles ==
    ASSUME NEW d, NEW m, NEW c, NEW d2, NEW m2, NEW c2,
           UniqueNames(d), UniqueNames(d2), Live(d2) = Live(d),
           \A j \in Live(d) : /\ d2[j].name = d[j].name
                              /\ FileAt(d2, m2, c2, j) = FileAt(d, m, c, j)
    PROVE  FilesOn(d2, m2, c2) = FilesOn(d, m, c)
<1>1. ASSUME NEW x \in Names
      PROVE  FilesOn(d2, m2, c2)[x] = FilesOn(d, m, c)[x]
  <2>1. CASE \E j \in Live(d) : d[j].name = x
    <3>1. PICK j \in Live(d) : d[j].name = x
      BY <2>1
    <3>2. FilesOn(d2, m2, c2)[x] = FileAt(d2, m2, c2, j) /\ FilesOn(d, m, c)[x] = FileAt(d, m, c, j)
      BY <3>1, FileNamed
    <3>3. QED
      BY <3>2
  <2>2. CASE ~\E j \in Live(d) : d[j].name = x
    BY <2>2, FileMissing
  <2>3. QED
    BY <2>1, <2>2
<1>2. QED
  BY <1>1 DEF FilesOn

\* What a file holds.
LEMMA FileFields ==
    ASSUME NEW d, NEW m, NEW c \in [DataBlocks -> Blocks], NEW i, d[i].size \in Nat,
           DiskBlocks(d, m, i) \in Seq(DataBlocks)
    PROVE  LET f == FileAt(d, m, c, i)
               s == DiskBlocks(d, m, i)
           IN  /\ f \in Files /\ f.size = d[i].size
               /\ f.blocks \in Seq(Blocks) /\ Len(f.blocks) = Len(s) /\ Len(s) \in Nat
               /\ DOMAIN f.blocks = 1 .. Len(s)
               /\ \A k \in 1 .. Len(s) : s[k] \in DataBlocks /\ f.blocks[k] = c[s[k]]
<1> DEFINE s == DiskBlocks(d, m, i)
           b == [k \in 1 .. Len(s) |-> c[s[k]]]
<1> HIDE DEF s
<1>1. s \in Seq(DataBlocks) /\ Len(s) \in Nat /\ \A k \in 1 .. Len(s) : s[k] \in DataBlocks
  BY DEF s
<1>2. b \in Seq(Blocks) /\ Len(b) = Len(s) /\ DOMAIN b = 1 .. Len(s) /\ \A k \in 1 .. Len(s) : b[k] = c[s[k]]
  <2>1. b \in [1 .. Len(s) -> Blocks]
    BY <1>1
  <2>2. QED
    BY <1>1, <2>1
<1>3. FileAt(d, m, c, i) = [size |-> d[i].size, blocks |-> b]
  BY DEF FileAt, s
<1> HIDE DEF b
<1>4. QED
  BY <1>1, <1>2, <1>3 DEF Files, s

\* A file is the same as long as its length, its blocks and what is in them are.
LEMMA SameFile ==
    ASSUME NEW d, NEW m, NEW c, NEW d2, NEW m2, NEW c2, NEW i,
           d2[i].size = d[i].size, DiskBlocks(d2, m2, i) = DiskBlocks(d, m, i),
           \A k \in 1 .. Len(DiskBlocks(d, m, i)) : c2[DiskBlocks(d, m, i)[k]] = c[DiskBlocks(d, m, i)[k]]
    PROVE  FileAt(d2, m2, c2, i) = FileAt(d, m, c, i)
BY DEF FileAt

-----------------------------------------------------------------------------
(* What links the map in memory to the one on the disk while do_write runs. *)

\* List t is list s with blocks appended, of which x is the last.
Appends(s, t, x) ==
    /\ Len(s) <= Len(t)
    /\ \A k \in 1 .. Len(s) : t[k] = s[k]
    /\ t = s \/ (Len(s) < Len(t) /\ t[Len(t)] = x)

\* While no allocation was lost, a do_write changes the list of its own file only
\* and only by appending to it up to the current block; a first block that it
\* allocated still heads the disk's free list; its target is inside the length
\* that it saved; and before it saves the map, its bytes are in the block.
RefInv ==
    ~lost /\ Writing =>
        /\ op.fresh <=> dir[op.di].first = FreeHead(map)
        /\ \A j \in HasBlocks(dir) \ {op.di} :
              /\ dir[j].first # FreeHead(map)
              /\ BlockSeq(map, dir[j].first) = BlockSeq(bmap, dir[j].first)
        /\ Appends(DiskBlocks(dir, map, op.di), NewBlocks, op.crtblk)
        /\ TargetBlock * BLOCK_SIZE < dir[op.di].size
        /\ pc = "save" =>
              /\ op.blkoffs = 0
              /\ \A b \in 0 .. (BLOCK_SIZE - 1) :
                    op.byteoffs <= b /\ b < op.byteoffs + op.crtsize => data[op.crtblk][b] = op.payload

\* A file with blocks of its own is a list that ends.
LEMMA OwnedEnds ==
    ASSUME NEW d, NEW m, Owned(d, m), NEW i \in HasBlocks(d), d[i].first \in DataBlocks
    PROVE  Ends(m, d[i].first)
BY DEF Owned, FileChain, Ends

\* The place of a block in a list that holds it once.
LEMMA BlockIndexIs ==
    ASSUME NEW s, \A i, j \in 1 .. Len(s) : s[i] = s[j] => i = j, NEW k \in 1 .. Len(s)
    PROVE  BlockIndex(s, s[k]) = k
BY DEF BlockIndex

\* A request's bytes are inside one block and inside the length that it asks for.
LEMMA RequestFits ==
    ASSUME NEW offset \in Offsets, NEW size \in WriteSizes
    PROVE  LET k == BlkOffs(offset)
               r == ByteOffs(offset)
               c == CrtSize(size, r)
           IN  /\ k \in Nat /\ r \in Nat /\ c \in Nat \ {0}
               /\ r + c <= BLOCK_SIZE
               /\ k * BLOCK_SIZE + r + c <= offset + size
<1> DEFINE q == offset \div BLOCK_SIZE
           k == BlkOffs(offset)
           r == ByteOffs(offset)
           c == CrtSize(size, r)
<1>1. /\ offset \in Nat /\ size \in Nat /\ size > 0 /\ BLOCK_SIZE \in Nat /\ BLOCK_SIZE > 0
  BY FsAssumption
<1>2. q \in Nat /\ r \in Nat /\ r < BLOCK_SIZE /\ offset = q * BLOCK_SIZE + r
  BY <1>1 DEF ByteOffs
<1>3. k \in Nat /\ k <= q
  <2> HIDE DEF q
  <2>1. q % 65536 \in Nat /\ q % 65536 <= q
    BY <1>2
  <2>2. QED
    BY <2>1 DEF BlkOffs, USHRT_RANGE, q
<1>4. c \in Nat \ {0} /\ r + c <= BLOCK_SIZE /\ c <= size
  <2> HIDE DEF r
  <2>1. QED
    BY <1>1, <1>2 DEF CrtSize
<1> HIDE DEF q, k, r, c
<1>5. k * BLOCK_SIZE <= q * BLOCK_SIZE /\ k * BLOCK_SIZE \in Nat /\ q * BLOCK_SIZE \in Nat
  <2>1. q - k \in Nat
    BY <1>2, <1>3
  <2>2. (q - k) * BLOCK_SIZE \in Nat
    BY <1>1, <2>1
  <2>3. (q - k) * BLOCK_SIZE = q * BLOCK_SIZE - k * BLOCK_SIZE
    BY <1>1, <1>2, <1>3
  <2>4. k * BLOCK_SIZE \in Nat /\ q * BLOCK_SIZE \in Nat
    BY <1>1, <1>2, <1>3
  <2>5. QED
    BY <2>2, <2>3, <2>4
<1>6. k * BLOCK_SIZE + r + c <= offset + size
  BY <1>1, <1>2, <1>3, <1>4, <1>5
<1>7. QED
  BY <1>2, <1>3, <1>4, <1>6 DEF k, r, c

\* The file that do_write is writing, in memory: a list without repetition that
\* holds the current block, and that no other file shares.
LEMMA Writer ==
    ASSUME DiskInv, OwnInv, ~lost, Writing
    PROVE  /\ op \in Ops /\ op.di \in HasBlocks(dir) /\ op.di \in Live(dir) /\ op.di \in Slots
           /\ op.crtblk \in DataBlocks
           /\ Ends(bmap, dir[op.di].first) /\ op.crtblk \in Chain(bmap, dir[op.di].first)
           /\ NewBlocks \in Seq(DataBlocks) /\ Len(NewBlocks) \in Nat \ {0}
           /\ NewBlocks[1] = dir[op.di].first
           /\ \A k \in 1 .. Len(NewBlocks) :
                 /\ NewBlocks[k] \in DataBlocks
                 /\ bmap[NewBlocks[k]] = IF k < Len(NewBlocks) THEN NewBlocks[k + 1] ELSE EOF_BLOCK
           /\ \A k, l \in 1 .. Len(NewBlocks) : NewBlocks[k] = NewBlocks[l] => k = l
           /\ BlockIndex(NewBlocks, op.crtblk) \in 1 .. Len(NewBlocks)
           /\ NewBlocks[BlockIndex(NewBlocks, op.crtblk)] = op.crtblk
           /\ \A j \in HasBlocks(dir) \ {op.di} :
                 /\ Ends(bmap, dir[j].first)
                 /\ op.crtblk \notin Chain(bmap, dir[j].first)
<1>1. /\ op \in Ops /\ bmap \in BlockMaps /\ dir \in Directories /\ EntriesConsistent
      /\ Owned(dir, bmap) /\ op.di \in HasBlocks(dir) /\ op.crtblk \in DataBlocks
      /\ op.crtblk \in Chain(bmap, dir[op.di].first)
  BY DEF DiskInv, TypeOK, OwnInv, FileChain
<1>2. ASSUME NEW j \in HasBlocks(dir)
      PROVE  Ends(bmap, dir[j].first)
  <2>1. dir[j].first \in DataBlocks
    BY <1>1 DEF EntriesConsistent, HasBlocks
  <2>2. QED
    BY <1>1, <2>1, OwnedEnds
<1>3. \A j \in HasBlocks(dir) \ {op.di} : op.crtblk \notin Chain(bmap, dir[j].first)
  BY <1>1 DEF Owned, FileChain
<1>4. op.di \in Live(dir) /\ op.di \in Slots
  BY <1>1 DEF HasBlocks, Live
<1> DEFINE s == NewBlocks
           x == op.crtblk
<1>5. /\ s \in Seq(DataBlocks) /\ Len(s) \in Nat \ {0} /\ s[1] = dir[op.di].first
      /\ Chain(bmap, dir[op.di].first) = {s[k] : k \in 1 .. Len(s)}
      /\ \A k \in 1 .. Len(s) : bmap[s[k]] = IF k < Len(s) THEN s[k + 1] ELSE EOF_BLOCK
      /\ \A k, l \in 1 .. Len(s) : s[k] = s[l] => k = l
  BY <1>1, <1>2, BlockSeqFacts DEF NewBlocks
<1> HIDE DEF s, x
<1>6. \A k \in 1 .. Len(s) : s[k] \in DataBlocks
  BY <1>5
<1>7. PICK k \in 1 .. Len(s) : s[k] = x
  BY <1>1, <1>5 DEF x
<1>8. BlockIndex(s, x) = k
  BY <1>5, <1>7, BlockIndexIs
<1>9. QED
  BY <1>1, <1>2, <1>3, <1>4, <1>5, <1>6, <1>7, <1>8 DEF s, x

\* What the disk lists as the blocks of a file is a list of data blocks; a file
\* without a first block has none.
LEMMA DiskLists ==
    ASSUME DiskInv, OwnInv, RefInv, ~lost, ~HalfFormatted, NEW i \in Live(dir)
    PROVE  /\ DiskBlocks(dir, map, i) \in Seq(DataBlocks)
           /\ dir[i].first \notin DataBlocks => DiskBlocks(dir, map, i) = <<>>
           /\ /\ dir[i].first \in DataBlocks
              /\ dir[i].first # FreeHead(map)
              => /\ Len(DiskBlocks(dir, map, i)) > 0
                 /\ DiskBlocks(dir, map, i) = BlockSeq(map, dir[i].first)
<1>1. CASE dir[i].first \notin DataBlocks
  <2>1. DiskBlocks(dir, map, i) = <<>>
    BY <1>1, BlockSeqNone DEF DiskBlocks
  <2>2. QED
    BY <1>1, <2>1
<1>2. CASE dir[i].first \in DataBlocks /\ dir[i].first = FreeHead(map)
  <2>1. DiskBlocks(dir, map, i) = <<>>
    BY <1>2 DEF DiskBlocks
  <2>2. QED
    BY <1>2, <2>1
<1>3. CASE dir[i].first \in DataBlocks /\ dir[i].first # FreeHead(map)
  <2>1. i \in HasBlocks(dir) /\ map \in BlockMaps /\ bmap \in BlockMaps
    BY <1>3, Ids DEF HasBlocks, DiskInv, TypeOK
  <2>2. DiskBlocks(dir, map, i) = BlockSeq(map, dir[i].first)
    BY <1>3 DEF DiskBlocks
  <2>3. CASE Owned(dir, map)
    <3>1. Ends(map, dir[i].first)
      BY <1>3, <2>1, <2>3, OwnedEnds
    <3>2. BlockSeq(map, dir[i].first) \in Seq(DataBlocks) /\ Len(BlockSeq(map, dir[i].first)) > 0
      BY <2>1, <3>1, BlockSeqFacts
    <3>3. QED
      BY <1>3, <2>2, <3>2
  <2>4. CASE ~Owned(dir, map)
    <3>1. Writing
      BY <2>1, <2>4 DEF OwnInv, Idle, Writing, DiskInv, TypeOK, HalfFormatted
    <3>2. op.fresh
      BY <2>4, <3>1 DEF OwnInv
    <3>3. i # op.di
      BY <1>3, <3>1, <3>2 DEF RefInv
    <3>4. BlockSeq(map, dir[i].first) = BlockSeq(bmap, dir[i].first)
      BY <2>1, <3>1, <3>3 DEF RefInv
    <3>5. Ends(bmap, dir[i].first)
      BY <2>1, <3>1, <3>3, Writer
    <3>6. BlockSeq(bmap, dir[i].first) \in Seq(DataBlocks) /\ Len(BlockSeq(bmap, dir[i].first)) > 0
      BY <2>1, <3>5, BlockSeqFacts
    <3>7. QED
      BY <1>3, <2>2, <3>4, <3>6
  <2>5. QED
    BY <2>3, <2>4
<1>4. QED
  BY <1>1, <1>2, <1>3

\* The first steps of do_write, in short.
LEMMA Begins ==
    ASSUME DiskInv,
           NEW n \in Names, NEW offset \in Offsets, NEW size \in WriteSizes, NEW payload \in Payloads,
           WriteBegin(n, offset, size, payload)
    PROVE  /\ Idle /\ pc' = "nav" /\ map' = map /\ data' = data /\ lost' = lost
           /\ \E i \in Live(dir) :
                LET fresh == NeedsFirst(dir[i], offset + size)
                    first == IF fresh THEN FreeHead(map) ELSE dir[i].first
                IN  /\ i \in Slots /\ dir[i].name = n
                    /\ fresh => HasFree(map) /\ dir[i].first = EOF_BLOCK
                    /\ bmap' = IF fresh THEN AllocateBlock(map) ELSE map
                    /\ Live(dir') = Live(dir)
                    /\ \A j \in Slots \ {i} : dir'[j] = dir[j]
                    /\ dir'[i].name = n /\ dir'[i].first = first /\ first \in DataBlocks
                    /\ dir[i].size \in Nat /\ dir'[i].size \in Nat
                    /\ dir'[i].size >= dir[i].size /\ dir'[i].size >= offset + size
                    /\ dir'[i].size = IF Grows(dir[i], offset + size)
                                      THEN offset + size ELSE dir[i].size
                    /\ op'.di = i /\ op'.crtblk = first /\ op'.fresh = fresh
                    /\ op'.blkoffs = BlkOffs(offset) /\ op'.byteoffs = ByteOffs(offset)
                    /\ op'.crtsize = CrtSize(size, ByteOffs(offset)) /\ op'.payload = payload
<1>1. PICK i \in FindDirEntry(dir, n) :
         LET end   == offset + size
             fresh == NeedsFirst(dir[i], end)
             first == IF fresh THEN FreeHead(map) ELSE dir[i].first
             boffs == ByteOffs(offset)
         IN  /\ fresh => HasFree(map)
             /\ bmap' = IF fresh THEN AllocateBlock(map) ELSE map
             /\ dir'  = IF Grows(dir[i], end)
                        THEN [dir EXCEPT ![i].size = end, ![i].first = first]
                        ELSE dir
             /\ op'   = [di |-> i, blkoffs |-> BlkOffs(offset),
                         byteoffs |-> boffs, crtsize |-> CrtSize(size, boffs),
                         payload |-> payload, crtblk |-> first, fresh |-> fresh]
  BY DEF WriteBegin
<1> DEFINE end   == offset + size
           fresh == NeedsFirst(dir[i], end)
           first == IF fresh THEN FreeHead(map) ELSE dir[i].first
<1>2. Idle /\ pc' = "nav" /\ map' = map /\ data' = data /\ lost' = lost
  BY DEF WriteBegin
<1>3. map \in BlockMaps /\ Sound(map) /\ dir \in Directories /\ EntriesConsistent
  BY DEF DiskInv, TypeOK, MapsSound
<1>4. i \in Slots /\ i \in Live(dir) /\ dir[i] \in Entries /\ dir[i].size \in Nat /\ dir[i].name = n
  <2>1. i \in Slots /\ dir[i].name = n
    BY DEF FindDirEntry
  <2>2. dir[i] \in Entries
    BY <1>3, <2>1
  <2>3. QED
    BY <2>1, <2>2, FsAssumption DEF Live, Entries
<1>5. end \in Nat /\ end > 0
  BY WriteNumbers
<1>6. first \in DataBlocks
  <2>1. CASE fresh
    BY <1>1, <1>3, <2>1, FreeHeadFacts
  <2>2. CASE ~fresh
    BY <1>3, <1>4, <1>5, <2>2 DEF NeedsFirst, Grows, EntriesConsistent
  <2>3. QED
    BY <2>1, <2>2
<1>7. /\ Live(dir') = Live(dir) /\ \A j \in Slots \ {i} : dir'[j] = dir[j]
      /\ dir'[i].name = n /\ dir'[i].first = first /\ dir'[i].size \in Nat
      /\ dir'[i].size >= dir[i].size /\ dir'[i].size >= end
      /\ dir'[i].size = IF Grows(dir[i], end) THEN end ELSE dir[i].size
  <2>1. CASE Grows(dir[i], end)
    <3>1. dir' = [dir EXCEPT ![i].size = end, ![i].first = first]
      BY <1>1, <2>1
    <3> HIDE DEF first, end
    <3>2. \A j \in Slots \ {i} : dir'[j] = dir[j]
      BY <1>3, <1>4, <3>1
    <3>3. dir'[i].name = n /\ dir'[i].first = first /\ dir'[i].size = end
      BY <1>3, <1>4, <3>1 DEF Entries
    <3>4. Live(dir') = Live(dir)
      BY <1>4, <3>2, <3>3, FsAssumption DEF Live
    <3>5. end > dir[i].size
      BY <2>1 DEF Grows
    <3>6. QED
      BY <1>4, <1>5, <2>1, <3>2, <3>3, <3>4, <3>5
  <2>2. CASE ~Grows(dir[i], end)
    <3>1. dir' = dir /\ first = dir[i].first
      BY <1>1, <2>2 DEF NeedsFirst
    <3> HIDE DEF first, end
    <3>2. QED
      BY <1>4, <1>5, <2>2, <3>1 DEF Grows
  <2>3. QED
    BY <2>1, <2>2
<1>8. fresh => HasFree(map) /\ dir[i].first = EOF_BLOCK
  BY <1>1 DEF NeedsFirst
<1>9. /\ op'.di = i /\ op'.crtblk = first /\ op'.fresh = fresh
      /\ op'.blkoffs = BlkOffs(offset) /\ op'.byteoffs = ByteOffs(offset)
      /\ op'.crtsize = CrtSize(size, ByteOffs(offset)) /\ op'.payload = payload
  BY <1>1
<1>10. bmap' = IF fresh THEN AllocateBlock(map) ELSE map
  BY <1>1
<1> HIDE DEF fresh, first, end
<1>11. QED
  BY <1>2, <1>4, <1>6, <1>7, <1>8, <1>9, <1>10 DEF fresh, first, end

\* A list that ends does not start at the head of the free list.
LEMMA EndsNotHead ==
    ASSUME NEW m \in BlockMaps, Sound(m), NEW b, Ends(m, b)
    PROVE  b # FreeHead(m)
<1>1. b \in Chain(m, b) /\ BLKMAP_BID \notin Chain(m, b)
  BY Ids, ChainContains DEF Ends
<1>2. QED
  BY <1>1, ApartFromFree, FreeHeadFacts

\* An allocation leaves the list of such a block as it is, ...
LEMMA AllocateSameList ==
    ASSUME NEW m \in BlockMaps, Sound(m), HasFree(m), NEW b, Ends(m, b)
    PROVE  BlockSeq(AllocateBlock(m), b) = BlockSeq(m, b)
<1>1. b \in MapIds /\ BLKMAP_BID \notin Chain(m, b)
  BY Ids DEF Ends
<1>2. FreeHead(m) \notin Chain(m, b)
  BY <1>1, AllocateElsewhere
<1>3. \A x \in Chain(m, b) : m[x] = AllocateBlock(m)[x]
  BY <1>1, <1>2, AllocateLinks, ChainInMap
<1>4. QED
  BY <1>3, AllocateLinks, BlockSeqAgree

\* ... and so does the extension of another.
LEMMA ExtendSameList ==
    ASSUME NEW m \in BlockMaps, Sound(m), HasFree(m), NEW c \in MapIds, m[c] = EOF_BLOCK,
           NEW b, Ends(m, b), c \notin Chain(m, b)
    PROVE  BlockSeq(Extended(m, c), b) = BlockSeq(m, b)
<1>1. b \in MapIds /\ BLKMAP_BID \notin Chain(m, b)
  BY Ids DEF Ends
<1>2. FreeHead(m) \notin Chain(m, b)
  BY <1>1, ExtendElsewhere
<1>3. \A x \in Chain(m, b) : m[x] = Extended(m, c)[x]
  BY <1>1, <1>2, ExtendedLinks, ChainInMap
<1>4. QED
  BY <1>3, ExtendedLinks, BlockSeqAgree

\* The first steps of do_write.
LEMMA RefWriteBegin ==
    ASSUME DiskInv, OwnInv,
           NEW n \in Names, NEW offset \in Offsets, NEW size \in WriteSizes, NEW payload \in Payloads,
           WriteBegin(n, offset, size, payload)
    PROVE  RefInv'
<1> SUFFICES ASSUME ~lost
             PROVE  RefInv'
  BY DEF RefInv, WriteBegin
<1>1. /\ Idle /\ pc' = "nav" /\ map' = map /\ data' = data /\ lost' = lost
      /\ ~lost' /\ Writing'
  BY Begins DEF Writing
<1>2. PICK i \in Live(dir) :
        LET fresh == NeedsFirst(dir[i], offset + size)
            first == IF fresh THEN FreeHead(map) ELSE dir[i].first
        IN  /\ i \in Slots /\ dir[i].name = n
            /\ fresh => HasFree(map) /\ dir[i].first = EOF_BLOCK
            /\ bmap' = IF fresh THEN AllocateBlock(map) ELSE map
            /\ Live(dir') = Live(dir)
            /\ \A j \in Slots \ {i} : dir'[j] = dir[j]
            /\ dir'[i].name = n /\ dir'[i].first = first /\ first \in DataBlocks
            /\ dir[i].size \in Nat /\ dir'[i].size \in Nat
            /\ dir'[i].size >= dir[i].size /\ dir'[i].size >= offset + size
            /\ op'.di = i /\ op'.crtblk = first /\ op'.fresh = fresh
            /\ op'.blkoffs = BlkOffs(offset) /\ op'.byteoffs = ByteOffs(offset)
            /\ op'.crtsize = CrtSize(size, ByteOffs(offset)) /\ op'.payload = payload
  BY Begins
<1> DEFINE fresh == NeedsFirst(dir[i], offset + size)
           first == IF fresh THEN FreeHead(map) ELSE dir[i].first
<1>3. /\ fresh => HasFree(map) /\ dir[i].first = EOF_BLOCK /\ bmap' = AllocateBlock(map)
                  /\ first = FreeHead(map)
      /\ ~fresh => bmap' = map /\ first = dir[i].first
      /\ first \in DataBlocks /\ i \in Live(dir) /\ i \in Slots
      /\ Live(dir') = Live(dir) /\ \A j \in Slots \ {i} : dir'[j] = dir[j]
      /\ dir'[i].first = first /\ op'.di = i /\ op'.crtblk = first /\ op'.fresh = fresh
      /\ op'.blkoffs = BlkOffs(offset) /\ dir'[i].size \in Nat /\ dir'[i].size >= offset + size
  BY <1>2
<1> HIDE DEF fresh, first
<1>4. /\ map \in BlockMaps /\ Sound(map) /\ Owned(dir, map) /\ EntriesConsistent
  BY <1>1 DEF DiskInv, TypeOK, MapsSound, OwnInv
<1>5. \A j \in HasBlocks(dir) : Ends(map, dir[j].first)
  <2>1. \A j \in HasBlocks(dir) : dir[j].first \in DataBlocks
    BY <1>4 DEF EntriesConsistent, HasBlocks
  <2>2. QED
    BY <1>4, <2>1, OwnedEnds
<1>6. ~fresh => first # FreeHead(map)
  <2>1. ~fresh => i \in HasBlocks(dir)
    BY <1>3, Ids DEF HasBlocks
  <2>2. QED
    BY <1>3, <1>4, <1>5, <2>1, EndsNotHead
<1>7. ASSUME NEW j \in HasBlocks(dir') \ {i}
      PROVE  /\ dir'[j].first # FreeHead(map)
             /\ BlockSeq(map, dir'[j].first) = BlockSeq(bmap', dir'[j].first)
  <2>1. j \in HasBlocks(dir) /\ dir'[j] = dir[j]
    BY <1>3 DEF HasBlocks, Live
  <2>2. Ends(map, dir[j].first)
    BY <1>5, <2>1
  <2>3. dir[j].first # FreeHead(map)
    BY <1>4, <2>2, EndsNotHead
  <2>4. BlockSeq(map, dir[j].first) = BlockSeq(bmap', dir[j].first)
    BY <1>3, <1>4, <2>2, AllocateSameList
  <2>5. QED
    BY <2>1, <2>3, <2>4
<1>8. NewBlocks' = BlockSeq(bmap', first)
  BY <1>3 DEF NewBlocks
<1>9. DiskInv' /\ OwnInv'
  BY DiskWriteBegin, OwnWriteBegin
<1>10. (/\ NewBlocks \in Seq(DataBlocks) /\ Len(NewBlocks) \in Nat \ {0}
        /\ NewBlocks[1] = dir[op.di].first
        /\ \A k, l \in 1 .. Len(NewBlocks) : NewBlocks[k] = NewBlocks[l] => k = l
        /\ BlockIndex(NewBlocks, op.crtblk) \in 1 .. Len(NewBlocks)
        /\ NewBlocks[BlockIndex(NewBlocks, op.crtblk)] = op.crtblk)'
  BY <1>1, <1>9, Writer, PTL
<1>11. BlockIndex(NewBlocks', op'.crtblk) = 1
  BY <1>3, <1>10
<1>12. Appends(DiskBlocks(dir', map, i), NewBlocks', op'.crtblk)
  <2>1. CASE fresh
    <3>1. DiskBlocks(dir', map, i) = <<>>
      BY <1>3, <2>1 DEF DiskBlocks
    <3>2. NewBlocks' = <<FreeHead(map)>>
      BY <1>3, <1>4, <1>8, <2>1, BlockSeqAllocated
    <3>3. QED
      BY <1>3, <2>1, <3>1, <3>2 DEF Appends
  <2>2. CASE ~fresh
    <3>1. DiskBlocks(dir', map, i) = NewBlocks'
      BY <1>3, <1>6, <1>8, <2>2 DEF DiskBlocks
    <3>2. QED
      BY <1>10, <3>1 DEF Appends
  <2>3. QED
    BY <2>1, <2>2
<1>13. TargetBlock' * BLOCK_SIZE < dir'[i].size
  <2>1. TargetBlock' = BlkOffs(offset) /\ BlkOffs(offset) \in Nat
    BY <1>3, <1>11, RequestFits DEF TargetBlock
  <2>2. BLOCK_SIZE \in Nat /\ offset + size \in Nat
    BY FsAssumption, WriteNumbers
  <2>3. BlkOffs(offset) * BLOCK_SIZE < offset + size
    <3> DEFINE t == BlkOffs(offset) * BLOCK_SIZE
               r == ByteOffs(offset)
               c == CrtSize(size, r)
    <3>1. t \in Nat
      BY <2>1, <2>2
    <3>2. r \in Nat /\ c \in Nat \ {0} /\ t + r + c <= offset + size
      BY RequestFits
    <3> HIDE DEF t, r, c
    <3>3. t < offset + size
      BY <2>2, <3>1, <3>2
    <3>4. QED
      BY <3>3 DEF t
  <2>4. BlkOffs(offset) * BLOCK_SIZE \in Nat
    BY <2>1, <2>2
  <2>5. QED
    BY <1>3, <2>1, <2>2, <2>3, <2>4
<1>14. op'.fresh <=> dir'[i].first = FreeHead(map)
  BY <1>3, <1>6
<1>15. QED
  BY <1>1, <1>3, <1>7, <1>12, <1>13, <1>14 DEF RefInv

\* The loop of do_write keeps its target: one link on, one fewer to go.
LEMMA RefNavFollow ==
    ASSUME DiskInv, OwnInv, RefInv, ~lost, NavFollow
    PROVE  /\ NewBlocks' = NewBlocks /\ TargetBlock' = TargetBlock
           /\ RefInv'
<1> DEFINE s == NewBlocks
           x == op.crtblk
           k == BlockIndex(NewBlocks, op.crtblk)
<1>1. /\ Writing /\ op.blkoffs > 0 /\ op \in Ops /\ bmap[x] # EOF_BLOCK
      /\ op' = [op EXCEPT !.crtblk = bmap[x], !.blkoffs = @ - 1]
      /\ UNCHANGED <<map, dir, data, bmap, pc, lost>> /\ pc = "nav"
  BY DEF NavFollow, Navigating, Writing, DiskInv, TypeOK
<1>2. /\ Len(s) \in Nat \ {0} /\ k \in 1 .. Len(s) /\ s[k] = x
      /\ \A l \in 1 .. Len(s) : bmap[s[l]] = IF l < Len(s) THEN s[l + 1] ELSE EOF_BLOCK
      /\ \A l, j \in 1 .. Len(s) : s[l] = s[j] => l = j
      /\ op.di \in HasBlocks(dir)
  BY <1>1, Writer
<1>3. /\ op'.di = op.di /\ op'.fresh = op.fresh /\ op'.blkoffs = op.blkoffs - 1
      /\ op'.crtblk = bmap[x] /\ op.blkoffs \in Nat
  BY <1>1 DEF Ops
<1>4. NewBlocks' = s
  BY <1>1, <1>3 DEF NewBlocks
<1> HIDE DEF s, x, k
<1>5. k < Len(s) /\ k + 1 \in 1 .. Len(s) /\ op'.crtblk = s[k + 1]
  BY <1>1, <1>2, <1>3
<1>6. BlockIndex(s, op'.crtblk) = k + 1
  BY <1>2, <1>5, BlockIndexIs
<1>7. TargetBlock' = TargetBlock
  <2>1. TargetBlock' = (k + 1) - 1 + (op.blkoffs - 1)
    BY <1>3, <1>4, <1>6 DEF TargetBlock
  <2>2. TargetBlock = k - 1 + op.blkoffs
    BY DEF TargetBlock, k
  <2>3. QED
    BY <1>2, <1>3, <2>1, <2>2
<1>8. Appends(DiskBlocks(dir, map, op.di), s, op'.crtblk)
  <2>1. Appends(DiskBlocks(dir, map, op.di), s, x)
    BY <1>1 DEF RefInv, s, x
  <2>2. s[Len(s)] # x
    BY <1>2, <1>5
  <2>3. QED
    BY <2>1, <2>2 DEF Appends
<1>9. RefInv'
  BY <1>1, <1>3, <1>4, <1>7, <1>8 DEF RefInv, s, Writing
<1>10. QED
  BY <1>4, <1>7, <1>9 DEF s

\* Nor does it lose the target when it appends a block to the file.
LEMMA RefNavExtend ==
    ASSUME DiskInv, OwnInv, RefInv, ~lost, NavExtend
    PROVE  TargetBlock' = TargetBlock /\ RefInv'
<1> DEFINE s == NewBlocks
           n == Len(NewBlocks)
           x == op.crtblk
           h == FreeHead(bmap)
<1>1. /\ Writing /\ op.blkoffs > 0 /\ op \in Ops /\ bmap[x] = EOF_BLOCK /\ HasFree(bmap)
      /\ op' = [op EXCEPT !.crtblk = h, !.blkoffs = @ - 1]
      /\ bmap' = Extended(bmap, x)
      /\ UNCHANGED <<map, dir, data, pc, lost>> /\ pc = "nav"
      /\ bmap \in BlockMaps /\ Sound(bmap)
  BY DEF NavExtend, Navigating, Writing, DiskInv, TypeOK, MapsSound, Extended
<1>2. /\ s \in Seq(DataBlocks) /\ n \in Nat \ {0}
      /\ BlockIndex(s, x) \in 1 .. n /\ s[BlockIndex(s, x)] = x
      /\ \A l, j \in 1 .. n : s[l] = s[j] => l = j
      /\ op.di \in HasBlocks(dir) /\ x \in DataBlocks
      /\ Ends(bmap, dir[op.di].first) /\ x \in Chain(bmap, dir[op.di].first)
      /\ \A j \in HasBlocks(dir) \ {op.di} :
            Ends(bmap, dir[j].first) /\ x \notin Chain(bmap, dir[j].first)
  BY <1>1, Writer
<1>3. /\ op'.di = op.di /\ op'.fresh = op.fresh /\ op'.blkoffs = op.blkoffs - 1
      /\ op'.crtblk = h /\ op.blkoffs \in Nat
  BY <1>1 DEF Ops
<1>4. s[n] = x /\ NewBlocks' = Append(s, h)
  BY <1>1, <1>2, <1>3, BlockSeqExtended DEF NewBlocks
<1> HIDE DEF s, n, x, h
<1>5. DiskInv' /\ OwnInv'
  <2>1. \A m \in Names, offset \in Offsets, size \in WriteSizes, payload \in Payloads :
           ~WriteBegin(m, offset, size, payload)
    BY <1>1 DEF WriteBegin, Idle
  <2>2. [Next]_vars
    BY DEF Next, WriteStep
  <2>3. QED
    BY <2>1, <2>2, DiskOther, OwnOther
<1>6. (/\ Len(NewBlocks) \in Nat \ {0}
        /\ \A k, l \in 1 .. Len(NewBlocks) : NewBlocks[k] = NewBlocks[l] => k = l)'
  <2>1. ~lost' /\ Writing'
    BY <1>1 DEF Writing
  <2>2. QED
    BY <1>5, <2>1, Writer, PTL
<1>7. n = Len(s)
  BY DEF n, s
<1>8. BlockIndex(s, x) = n
  BY <1>2, <1>4
<1>9. /\ Len(NewBlocks') = n + 1 /\ NewBlocks'[n + 1] = h
      /\ \A j \in 1 .. n : NewBlocks'[j] = s[j]
  BY <1>2, <1>4, <1>7
<1>10. BlockIndex(NewBlocks', h) = n + 1
  <2>1. n + 1 \in 1 .. Len(NewBlocks')
    BY <1>2, <1>9
  <2>2. QED
    BY <1>6, <1>9, <2>1, BlockIndexIs
<1>11. TargetBlock' = TargetBlock
  <2>1. TargetBlock' = (n + 1) - 1 + (op.blkoffs - 1)
    BY <1>3, <1>10 DEF TargetBlock
  <2>2. TargetBlock = n - 1 + op.blkoffs
    BY <1>8 DEF TargetBlock, s, x
  <2>3. QED
    BY <1>2, <1>3, <2>1, <2>2
<1>12. Appends(DiskBlocks(dir, map, op.di), NewBlocks', h)
  <2> DEFINE t == DiskBlocks(dir, map, op.di)
  <2>1. Appends(t, s, x)
    BY <1>1 DEF RefInv, s, x
  <2> HIDE DEF t
  <2>2. Len(t) <= n /\ \A j \in 1 .. Len(t) : t[j] = s[j]
    BY <1>7, <2>1 DEF Appends
  <2>3. t = s \/ Len(t) < n
    BY <1>7, <2>1 DEF Appends
  <2>4. Len(t) < n + 1 /\ \A j \in 1 .. Len(t) : NewBlocks'[j] = t[j]
    BY <1>2, <1>7, <1>9, <2>2, <2>3
  <2>5. Len(t) <= n + 1
    BY <1>2, <1>7, <2>3
  <2>6. QED
    BY <1>9, <2>4, <2>5 DEF Appends, t
<1>13. ASSUME NEW j \in HasBlocks(dir) \ {op.di}
       PROVE  /\ dir[j].first # FreeHead(map)
              /\ BlockSeq(map, dir[j].first) = BlockSeq(bmap', dir[j].first)
  <2>1. /\ dir[j].first # FreeHead(map)
        /\ BlockSeq(map, dir[j].first) = BlockSeq(bmap, dir[j].first)
    BY <1>1 DEF RefInv
  <2>2. BlockSeq(bmap', dir[j].first) = BlockSeq(bmap, dir[j].first)
    BY <1>1, <1>2, Ids, ExtendSameList
  <2>3. QED
    BY <2>1, <2>2
<1>14. RefInv'
  BY <1>1, <1>3, <1>11, <1>12, <1>13 DEF RefInv, Writing
<1>15. QED
  BY <1>11, <1>14

\* Before it saves the map, the bytes of the request are in the current block.
LEMMA RefWriteData ==
    ASSUME DiskInv, OwnInv, RefInv, ~lost, WriteData
    PROVE  /\ NewBlocks' = NewBlocks /\ TargetBlock' = TargetBlock
           /\ data' = [data EXCEPT ![op.crtblk] = Merged(op, data[op.crtblk])]
           /\ RefInv'
<1>1. /\ Writing /\ op.crtblk \in DataBlocks /\ op.crtblk # BLKMAP_BID
      /\ data \in [DataBlocks -> Blocks]
  BY Ids DEF WriteData, Writing, OwnInv, DiskInv, TypeOK
<1>2. /\ op.blkoffs = 0 /\ pc = "nav" /\ pc' = "save"
      /\ data' = [data EXCEPT ![op.crtblk] = Merged(op, data[op.crtblk])]
      /\ UNCHANGED <<map, dir, bmap, op, lost>>
  BY <1>1 DEF WriteData
<1>3. NewBlocks' = NewBlocks /\ TargetBlock' = TargetBlock
  BY <1>2 DEF NewBlocks, TargetBlock
<1>4. data'[op.crtblk] = Merged(op, data[op.crtblk])
  BY <1>1, <1>2
<1>5. \A b \in 0 .. (BLOCK_SIZE - 1) :
         op.byteoffs <= b /\ b < op.byteoffs + op.crtsize => data'[op.crtblk][b] = op.payload
  BY <1>4 DEF Merged
<1>6. RefInv'
  BY <1>1, <1>2, <1>3, <1>5 DEF RefInv, Writing
<1>7. QED
  BY <1>2, <1>3, <1>6

\* Every step.
LEMMA RefStep == DiskInv /\ OwnInv /\ RefInv /\ [Next]_vars => RefInv'
<1> SUFFICES ASSUME DiskInv, OwnInv, RefInv, [Next]_vars, ~lost', Writing'
             PROVE  RefInv'
  BY DEF RefInv
<1>1. ASSUME NEW n \in Names, NEW offset \in Offsets, NEW size \in WriteSizes,
             NEW payload \in Payloads, WriteBegin(n, offset, size, payload)
      PROVE  RefInv'
  BY <1>1, RefWriteBegin
<1>2. CASE NavFollow
  BY <1>2, RefNavFollow DEF NavFollow
<1>3. CASE NavExtend
  BY <1>3, RefNavExtend DEF NavExtend
<1>4. CASE WriteData
  BY <1>4, RefWriteData DEF WriteData
<1>5. CASE UNCHANGED vars
  BY <1>5 DEF vars, RefInv, Writing, NewBlocks, TargetBlock
<1>6. ASSUME NEW n \in Names, NEW offset \in Offsets, NEW size \in WriteSizes,
             WriteNoSpace(n, offset, size)
      PROVE  RefInv'
  BY <1>5, <1>6 DEF WriteNoSpace
<1>7. QED
  BY <1>1, <1>2, <1>3, <1>4, <1>5, <1>6
     DEF Next, Request, WriteStep, Format, Create, Truncate, NavFull, SaveMap, FormatMapBlock,
         FormatDirBlock, Crash, WriteOnLostMap, Ended, Idle, Writing

\* While no allocation was lost, a write changes the list of its own file only,
\* and only by appending to it; its target is inside the length that it saved.
THEOREM RefInvariant == Spec => []RefInv
<1>1. Init => RefInv
  BY DEF Init, RefInv, Writing
<1>2. QED
  BY <1>1, RefStep, DiskInvariant, Ownership, PTL DEF Spec

-----------------------------------------------------------------------------
(* Lengths.                                                                 *)

\* A file without a first block has none, by any map.
LEMMA NoBlocks ==
    ASSUME NEW d, NEW m, NEW i, d[i].first = EOF_BLOCK
    PROVE  DiskBlocks(d, m, i) = <<>>
<1>1. EOF_BLOCK \notin DataBlocks
  BY Ids
<1>2. QED
  BY <1>1, BlockSeqNone DEF DiskBlocks

\* What save_blockmap puts on the disk: the file as it is in memory, and no
\* change to any other.
LEMMA SavedLists ==
    ASSUME DiskInv, OwnInv, RefInv, ~lost, Writing
    PROVE  /\ DiskBlocks(dir, bmap, op.di) = NewBlocks
           /\ \A j \in Live(dir) \ {op.di} : DiskBlocks(dir, bmap, j) = DiskBlocks(dir, map, j)
<1>1. /\ bmap \in BlockMaps /\ Sound(bmap) /\ op.di \in HasBlocks(dir)
      /\ \A j \in HasBlocks(dir) : Ends(bmap, dir[j].first)
  BY Writer DEF DiskInv, TypeOK, MapsSound
<1>2. \A j \in HasBlocks(dir) : dir[j].first # FreeHead(bmap)
  BY <1>1, EndsNotHead
<1>3. DiskBlocks(dir, bmap, op.di) = NewBlocks
  BY <1>1, <1>2 DEF DiskBlocks, NewBlocks
<1>4. ASSUME NEW j \in Live(dir) \ {op.di}
      PROVE  DiskBlocks(dir, bmap, j) = DiskBlocks(dir, map, j)
  <2>1. CASE j \in HasBlocks(dir)
    <3>1. /\ dir[j].first # FreeHead(map)
          /\ BlockSeq(map, dir[j].first) = BlockSeq(bmap, dir[j].first)
      BY <2>1 DEF RefInv
    <3>2. QED
      BY <1>2, <2>1, <3>1 DEF DiskBlocks
  <2>2. CASE j \notin HasBlocks(dir)
    <3>1. dir[j].first = EOF_BLOCK
      BY <2>2 DEF HasBlocks
    <3>2. QED
      BY <3>1, NoBlocks
  <2>3. QED
    BY <2>1, <2>2
<1>5. QED
  BY <1>3, <1>4

\* A write that appended blocks to its file has come to the last of them.
LEMMA SavedLength ==
    ASSUME DiskInv, OwnInv, RefInv, ~lost, pc = "save",
           DiskBlocks(dir, map, op.di) # NewBlocks
    PROVE  Len(NewBlocks) = TargetBlock + 1 /\ Len(DiskBlocks(dir, map, op.di)) <= TargetBlock
<1> DEFINE s == NewBlocks
           n == Len(NewBlocks)
           x == op.crtblk
           t == DiskBlocks(dir, map, op.di)
<1>1. Writing
  BY DEF Writing
<1>2. /\ n \in Nat \ {0} /\ BlockIndex(s, x) \in 1 .. n /\ s[BlockIndex(s, x)] = x
      /\ \A k, l \in 1 .. n : s[k] = s[l] => k = l
  BY <1>1, Writer
<1>3. Appends(t, s, x) /\ op.blkoffs = 0
  BY <1>1 DEF RefInv
<1>4. t \in Seq(DataBlocks)
  BY <1>1, <1>2, Writer, DiskLists DEF HalfFormatted
<1>5. TargetBlock = BlockIndex(s, x) - 1 + 0
  BY <1>3 DEF TargetBlock
<1> HIDE DEF s, x, n, t
<1>6. Len(t) < Len(s) /\ s[Len(s)] = x
  BY <1>3 DEF Appends, s, t
<1>7. n = Len(s) /\ Len(t) \in Nat
  BY <1>4 DEF n, s
<1>8. BlockIndex(s, x) = n
  BY <1>2, <1>6, <1>7
<1>9. QED
  BY <1>2, <1>5, <1>6, <1>7, <1>8 DEF n, t, s

\* A step that leaves the block lists as they are, and no file shorter, keeps the
\* lengths right.
LEMMA SameLists ==
    ASSUME NEW d, NEW m, NEW d2, NEW m2, NEW i,
           Len(DiskBlocks(d, m, i)) * BLOCK_SIZE < d[i].size + BLOCK_SIZE,
           DiskBlocks(d2, m2, i) = DiskBlocks(d, m, i),
           d[i].size \in Nat, d2[i].size \in Nat, d2[i].size >= d[i].size,
           DiskBlocks(d, m, i) \in Seq(DataBlocks)
    PROVE  Len(DiskBlocks(d2, m2, i)) * BLOCK_SIZE < d2[i].size + BLOCK_SIZE
<1> DEFINE t == Len(DiskBlocks(d, m, i)) * BLOCK_SIZE
<1>1. t \in Nat /\ BLOCK_SIZE \in Nat
  <2>1. Len(DiskBlocks(d, m, i)) \in Nat /\ BLOCK_SIZE \in Nat
    BY FsAssumption
  <2>2. QED
    BY <2>1
<1>2. Len(DiskBlocks(d2, m2, i)) * BLOCK_SIZE = t
  OBVIOUS
<1>3. t < d[i].size + BLOCK_SIZE
  OBVIOUS
<1> HIDE DEF t
<1>4. QED
  BY <1>1, <1>2, <1>3

\* A file that has no block may have any length.
LEMMA NoBlocksCovered ==
    ASSUME NEW d, NEW m, NEW i, d[i].size \in Nat, DiskBlocks(d, m, i) = <<>>
    PROVE  Len(DiskBlocks(d, m, i)) * BLOCK_SIZE < d[i].size + BLOCK_SIZE
<1>1. Len(DiskBlocks(d, m, i)) = 0 /\ BLOCK_SIZE \in Nat \ {0}
  BY FsAssumption
<1>2. 0 * BLOCK_SIZE = 0
  BY <1>1
<1>3. QED
  BY <1>1, <1>2

\* What is known of each file before a step.
LEMMA Files1 ==
    ASSUME DiskInv, OwnInv, RefInv, ~lost, ~HalfFormatted, NEW i \in Live(dir)
    PROVE  /\ i \in Slots /\ dir[i] \in Entries /\ dir[i].size \in Nat
           /\ dir[i].name \in Names /\ DiskBlocks(dir, map, i) \in Seq(DataBlocks)
<1>1. i \in Slots /\ dir[i].name # NoName /\ dir \in Directories
  BY DEF Live, DiskInv, TypeOK
<1>2. dir[i] \in Entries
  BY <1>1
<1>3. QED
  BY <1>1, <1>2, DiskLists DEF Entries

\* Every step keeps the lengths right.
LEMMA LengthStep ==
    DiskInv /\ OwnInv /\ RefInv /\ LengthCoversBlocks /\ [Next]_vars => LengthCoversBlocks'
<1> SUFFICES ASSUME DiskInv, OwnInv, RefInv, LengthCoversBlocks, [Next]_vars,
                    ~lost', ~HalfFormatted'
             PROVE  \A i \in Live(dir') :
                       Len(DiskBlocks(dir', map', i)) * BLOCK_SIZE < dir'[i].size + BLOCK_SIZE
  BY DEF LengthCoversBlocks
<1> DEFINE Covered(d, m, i) == Len(DiskBlocks(d, m, i)) * BLOCK_SIZE < d[i].size + BLOCK_SIZE
<1>1. ASSUME ~lost, ~HalfFormatted, NEW i \in Live(dir)
      PROVE  /\ Covered(dir, map, i)
             /\ i \in Slots /\ dir[i] \in Entries /\ dir[i].size \in Nat
             /\ DiskBlocks(dir, map, i) \in Seq(DataBlocks)
  BY <1>1, Files1 DEF LengthCoversBlocks
<1>2. dir \in Directories
  BY DEF DiskInv, TypeOK
<1>3. ASSUME UNCHANGED <<dir, map>>, ~lost, ~HalfFormatted
      PROVE  \A i \in Live(dir') : Covered(dir', map', i)
  <2>1. dir' = dir /\ map' = map
    BY <1>3
  <2>2. \A i \in Live(dir) : Covered(dir, map, i)
    BY <1>1, <1>3
  <2> HIDE DEF Covered
  <2>3. QED
    BY <2>1, <2>2
<1>4. ASSUME NEW n \in Names, Create(n)
      PROVE  \A i \in Live(dir') : Covered(dir', map', i)
  <2>1. PICK i \in FirstEmptyDirEntry(dir) :
           dir' = [dir EXCEPT ![i] = [name |-> n, size |-> 0, first |-> EOF_BLOCK]]
    BY <1>4 DEF Create
  <2>2. map' = map /\ ~lost /\ ~HalfFormatted
    BY <1>4 DEF Create, Idle, HalfFormatted
  <2>3. i \in Slots
    BY <2>1 DEF FirstEmptyDirEntry
  <2>4. dir'[i].size \in Nat /\ dir'[i].first = EOF_BLOCK /\ \A j \in Slots \ {i} : dir'[j] = dir[j]
    BY <1>2, <2>1, <2>3
  <2>5. \A j \in Live(dir') \ {i} : j \in Live(dir) /\ dir'[j] = dir[j]
    BY <2>4 DEF Live
  <2>6. Covered(dir', map', i)
    BY <2>4, NoBlocks, NoBlocksCovered
  <2>7. ASSUME NEW j \in Live(dir') \ {i}
        PROVE  Covered(dir', map', j)
    <3>1. j \in Live(dir) /\ dir'[j] = dir[j] /\ map' = map
      BY <2>2, <2>5
    <3>2. Covered(dir, map, j) /\ DiskBlocks(dir', map', j) = DiskBlocks(dir, map, j)
      BY <1>1, <2>2, <3>1 DEF DiskBlocks
    <3>3. QED
      BY <3>1, <3>2
  <2> HIDE DEF Covered
  <2>8. QED
    BY <2>6, <2>7
<1>5. ASSUME NEW n \in Names, NEW offset \in Offsets, Truncate(n, offset)
      PROVE  \A i \in Live(dir') : Covered(dir', map', i)
  <2>1. PICK i \in FindDirEntry(dir, n) :
           dir' = [dir EXCEPT ![i].size = 0, ![i].first = EOF_BLOCK]
    BY <1>5 DEF Truncate
  <2>2. map' = map /\ ~lost /\ ~HalfFormatted
    BY <1>5 DEF Truncate, Idle, HalfFormatted
  <2>3. i \in Slots /\ dir[i] \in Entries
    BY <1>2, <2>1 DEF FindDirEntry
  <2>4. /\ dir'[i].size = 0 /\ dir'[i].first = EOF_BLOCK /\ dir'[i].name = dir[i].name
        /\ \A j \in Slots \ {i} : dir'[j] = dir[j]
    BY <1>2, <2>1, <2>3 DEF Entries
  <2>5. \A j \in Live(dir') \ {i} : j \in Live(dir) /\ dir'[j] = dir[j]
    BY <2>4 DEF Live
  <2>6. Covered(dir', map', i)
    BY <2>4, NoBlocks, NoBlocksCovered
  <2>7. ASSUME NEW j \in Live(dir') \ {i}
        PROVE  Covered(dir', map', j)
    <3>1. j \in Live(dir) /\ dir'[j] = dir[j] /\ map' = map
      BY <2>2, <2>5
    <3>2. Covered(dir, map, j) /\ DiskBlocks(dir', map', j) = DiskBlocks(dir, map, j)
      BY <1>1, <2>2, <3>1 DEF DiskBlocks
    <3>3. QED
      BY <3>1, <3>2
  <2> HIDE DEF Covered
  <2>8. QED
    BY <2>6, <2>7
<1>6. ASSUME NEW n \in Names, NEW offset \in Offsets, NEW size \in WriteSizes,
             NEW payload \in Payloads, WriteBegin(n, offset, size, payload)
      PROVE  \A i \in Live(dir') : Covered(dir', map', i)
  <2>1. /\ Idle /\ map' = map /\ lost' = lost /\ ~lost /\ ~HalfFormatted
    BY <1>6, Begins DEF Idle, HalfFormatted
  <2>2. PICK i \in Live(dir) :
          LET fresh == NeedsFirst(dir[i], offset + size)
              first == IF fresh THEN FreeHead(map) ELSE dir[i].first
          IN  /\ Live(dir') = Live(dir)
              /\ \A j \in Slots \ {i} : dir'[j] = dir[j]
              /\ dir'[i].first = first
              /\ dir'[i].size \in Nat /\ dir'[i].size >= dir[i].size
    BY <1>6, Begins
  <2>3. Covered(dir', map', i)
    <3>1. CASE NeedsFirst(dir[i], offset + size)
      <4>1. DiskBlocks(dir', map', i) = <<>>
        BY <2>1, <2>2, <3>1 DEF DiskBlocks
      <4>2. QED
        BY <2>2, <4>1, NoBlocksCovered
    <3>2. CASE ~NeedsFirst(dir[i], offset + size)
      <4>1. DiskBlocks(dir', map', i) = DiskBlocks(dir, map, i)
        BY <2>1, <2>2, <3>2 DEF DiskBlocks
      <4>2. QED
        BY <1>1, <2>1, <2>2, <4>1, SameLists
    <3>3. QED
      BY <3>1, <3>2
  <2>4. ASSUME NEW j \in Live(dir') \ {i}
        PROVE  Covered(dir', map', j)
    <3>1. j \in Live(dir) /\ dir'[j] = dir[j] /\ map' = map
      BY <2>1, <2>2 DEF Live
    <3>2. Covered(dir, map, j) /\ DiskBlocks(dir', map', j) = DiskBlocks(dir, map, j)
      BY <1>1, <2>1, <3>1 DEF DiskBlocks
    <3>3. QED
      BY <3>1, <3>2
  <2> HIDE DEF Covered
  <2>5. QED
    BY <2>3, <2>4
<1>7. ASSUME SaveMap
      PROVE  \A i \in Live(dir') : Covered(dir', map', i)
  <2>1. /\ pc = "save" /\ Writing /\ map' = bmap /\ dir' = dir /\ ~lost /\ ~HalfFormatted
    BY <1>7 DEF SaveMap, Writing, HalfFormatted
  <2>2. \A i \in Live(dir) : Covered(dir, map, i)
    BY <1>1, <2>1
  <2>3. ASSUME NEW i \in Live(dir), DiskBlocks(dir, bmap, i) = DiskBlocks(dir, map, i)
        PROVE  Covered(dir, bmap, i)
    BY <2>2, <2>3
  <2>4. Covered(dir, bmap, op.di)
    <3>1. /\ op.di \in Live(dir) /\ DiskBlocks(dir, bmap, op.di) = NewBlocks
          /\ op \in Ops /\ BlockIndex(NewBlocks, op.crtblk) \in 1 .. Len(NewBlocks)
          /\ Len(NewBlocks) \in Nat
      BY <2>1, Writer, SavedLists
    <3>2. CASE DiskBlocks(dir, map, op.di) = NewBlocks
      BY <2>3, <3>1, <3>2
    <3>3. CASE DiskBlocks(dir, map, op.di) # NewBlocks
      <4>1. Len(NewBlocks) = TargetBlock + 1
        BY <2>1, <3>3, SavedLength
      <4>2. TargetBlock * BLOCK_SIZE < dir[op.di].size
        BY <2>1 DEF RefInv
      <4>3. TargetBlock \in Nat /\ BLOCK_SIZE \in Nat /\ dir[op.di].size \in Nat
        <5>1. op.blkoffs \in Nat /\ BLOCK_SIZE \in Nat
          BY <3>1, FsAssumption DEF Ops
        <5>2. TargetBlock \in Nat
          BY <3>1, <5>1 DEF TargetBlock
        <5>3. dir[op.di].size \in Nat
          BY <1>1, <2>1, <3>1
        <5>4. QED
          BY <5>1, <5>2, <5>3
      <4>4. (TargetBlock + 1) * BLOCK_SIZE = TargetBlock * BLOCK_SIZE + BLOCK_SIZE
        BY <4>3
      <4>5. TargetBlock * BLOCK_SIZE \in Nat
        BY <4>3
      <4>6. QED
        BY <3>1, <4>1, <4>2, <4>3, <4>4, <4>5
    <3>4. QED
      BY <3>2, <3>3
  <2>5. \A i \in Live(dir) \ {op.di} : DiskBlocks(dir, bmap, i) = DiskBlocks(dir, map, i)
    BY <2>1, SavedLists
  <2> HIDE DEF Covered
  <2>6. QED
    BY <2>1, <2>3, <2>4, <2>5
<1>8. ASSUME FormatMapBlock
      PROVE  \A i \in Live(dir') : Covered(dir', map', i)
  <2>1. dir' = dir /\ pc' = "format" /\ HasBlocks(dir) = {}
    BY <1>8 DEF FormatMapBlock, HalfFormatted
  <2>2. ASSUME NEW i \in Live(dir')
        PROVE  Covered(dir', map', i)
    <3>1. i \in Slots /\ dir' = dir /\ dir[i].first = EOF_BLOCK
      BY <2>1 DEF HasBlocks, Live
    <3>2. dir[i] \in Entries
      BY <1>2, <3>1
    <3>3. dir'[i].size \in Nat
      BY <3>1, <3>2 DEF Entries
    <3>4. QED
      BY <3>1, <3>3, NoBlocks, NoBlocksCovered
  <2> HIDE DEF Covered
  <2>3. QED
    BY <2>2
<1>9. ASSUME FormatDirBlock
      PROVE  \A i \in Live(dir') : Covered(dir', map', i)
  BY <1>9, ConstantTypes DEF FormatDirBlock
<1>10. ASSUME Crash
       PROVE  \A i \in Live(dir') : Covered(dir', map', i)
  <2>1. dir' = dir /\ map' = map /\ ~lost
    BY <1>10 DEF Crash
  <2>2. ~HalfFormatted
    BY <1>10 DEF Crash, HalfFormatted, HasBlocks
  <2> HIDE DEF Covered
  <2>3. QED
    BY <1>3, <2>1, <2>2
<1>11. ASSUME NavFollow \/ NavExtend \/ NavFull \/ WriteData
       PROVE  \A i \in Live(dir') : Covered(dir', map', i)
  <2>1. dir' = dir /\ map' = map /\ ~lost
    <3>1. CASE NavFull
      BY <3>1 DEF NavFull
    <3>2. CASE NavFollow
      BY <3>2 DEF NavFollow
    <3>3. CASE NavExtend
      BY <3>3 DEF NavExtend
    <3>4. CASE WriteData
      BY <3>4 DEF WriteData
    <3>5. QED
      BY <1>11, <3>1, <3>2, <3>3, <3>4
  <2>2. pc = "nav"
    BY <1>11 DEF NavFollow, NavExtend, NavFull, WriteData, Navigating
  <2>3. ~HalfFormatted
    BY <2>2 DEF HalfFormatted
  <2> HIDE DEF Covered
  <2>4. QED
    BY <1>3, <2>1, <2>3
<1>12. ASSUME UNCHANGED vars
       PROVE  \A i \in Live(dir') : Covered(dir', map', i)
  <2>1. UNCHANGED <<dir, map>> /\ ~lost /\ ~HalfFormatted
    BY <1>12 DEF vars, HalfFormatted
  <2> HIDE DEF Covered
  <2>2. QED
    BY <1>3, <2>1
<1> HIDE DEF Covered
<1>13. \A i \in Live(dir') : Covered(dir', map', i)
  BY <1>1, <1>4, <1>5, <1>6, <1>7, <1>8, <1>9, <1>10, <1>11, <1>12
     DEF Next, Request, WriteStep, Format, WriteNoSpace, WriteOnLostMap, Ended, OwnInv
<1>14. QED
  BY <1>13 DEF Covered

\* A file on the disk never has a block past its length.
THEOREM LengthAlwaysCovers == Spec => []LengthCoversBlocks
<1>1. Init => LengthCoversBlocks
  BY ConstantTypes DEF Init, LengthCoversBlocks
<1>2. QED
  BY <1>1, LengthStep, DiskInvariant, Ownership, RefInvariant, PTL DEF Spec

-----------------------------------------------------------------------------
(* Each step is a step of the store, or none.                               *)

\* What the steps of the store need of every state.
StoreInv == DiskInv /\ OwnInv /\ RefInv /\ DirWellFormed

\* No promise is broken.
Intact == ~lost /\ ~HalfFormatted

\* The files of an intact disk.
LEMMA IntactFiles ==
    ASSUME StoreInv, Intact
    PROVE  /\ UniqueNames(dir) /\ FilesOnDisk = FilesOn(dir, map, data)
           /\ \A i \in Live(dir) :
                LET f == FileAt(dir, map, data, i)
                    s == DiskBlocks(dir, map, i)
                IN  /\ i \in Slots /\ dir[i].name \in Names /\ dir[i].size \in Nat
                    /\ FilesOnDisk[dir[i].name] = f /\ f # NoFile
                    /\ f.size = dir[i].size /\ Len(s) \in Nat
                    /\ f.blocks \in Seq(Blocks) /\ Len(f.blocks) = Len(s)
                    /\ DOMAIN f.blocks = 1 .. Len(s)
                    /\ \A k \in 1 .. Len(s) : s[k] \in DataBlocks /\ f.blocks[k] = data[s[k]]
<1>1. UniqueNames(dir) /\ FilesOnDisk = FilesOn(dir, map, data)
  BY DEF StoreInv, Intact, DirWellFormed, UniqueNames, FilesOnDisk
<1>2. ASSUME NEW i \in Live(dir)
      PROVE  LET f == FileAt(dir, map, data, i)
                 s == DiskBlocks(dir, map, i)
             IN  /\ i \in Slots /\ dir[i].name \in Names /\ dir[i].size \in Nat
                 /\ FilesOnDisk[dir[i].name] = f /\ f # NoFile
                 /\ f.size = dir[i].size /\ Len(s) \in Nat
                 /\ f.blocks \in Seq(Blocks) /\ Len(f.blocks) = Len(s)
                 /\ DOMAIN f.blocks = 1 .. Len(s)
                 /\ \A k \in 1 .. Len(s) : s[k] \in DataBlocks /\ f.blocks[k] = data[s[k]]
  <2> DEFINE f == FileAt(dir, map, data, i)
             s == DiskBlocks(dir, map, i)
  <2>1. /\ i \in Slots /\ dir[i].size \in Nat /\ dir[i].name \in Names
        /\ DiskBlocks(dir, map, i) \in Seq(DataBlocks) /\ data \in [DataBlocks -> Blocks]
    BY <1>2, Files1 DEF StoreInv, Intact, DiskInv, TypeOK
  <2>2. FilesOnDisk[dir[i].name] = f
    BY <1>1, <2>1, FileNamed
  <2>3. /\ f \in Files /\ f.size = dir[i].size /\ f.blocks \in Seq(Blocks)
        /\ Len(f.blocks) = Len(s) /\ Len(s) \in Nat
        /\ DOMAIN f.blocks = 1 .. Len(s)
        /\ \A k \in 1 .. Len(s) : s[k] \in DataBlocks /\ f.blocks[k] = data[s[k]]
    BY <2>1, FileFields
  <2>4. f # NoFile
    BY <2>3, RefinementAssumption
  <2> HIDE DEF f, s
  <2>5. QED
    BY <2>1, <2>2, <2>3, <2>4 DEF f, s
<1>3. QED
  BY <1>1, <1>2

\* The write in progress on an intact disk.
LEMMA IntactWrite ==
    ASSUME StoreInv, ~lost, Writing
    PROVE  /\ op.di \in Live(dir) /\ TargetBlock \in Nat
           /\ PendingWrite # NoWrite
           /\ PendingWrite.name = dir[op.di].name /\ PendingWrite.k = TargetBlock
           /\ PendingWrite.lo = op.byteoffs /\ PendingWrite.hi = op.byteoffs + op.crtsize
           /\ PendingWrite.v = op.payload
<1>1. /\ op \in Ops /\ op.di \in Live(dir) /\ BlockIndex(NewBlocks, op.crtblk) \in 1 .. Len(NewBlocks)
      /\ Len(NewBlocks) \in Nat
  BY Writer DEF StoreInv
<1>2. /\ op.blkoffs \in Nat /\ op.byteoffs \in Nat /\ op.crtsize \in Nat /\ op.payload \in Bytes
  BY <1>1 DEF Ops
<1>3. TargetBlock \in Nat
  BY <1>1, <1>2 DEF TargetBlock
<1>4. dir[op.di].name \in Names
  <2>1. Intact
    BY DEF Intact, HalfFormatted, Writing
  <2>2. QED
    BY <1>1, <2>1, IntactFiles
<1>5. PendingWrite = [name |-> dir[op.di].name, k |-> TargetBlock, lo |-> op.byteoffs,
                      hi |-> op.byteoffs + op.crtsize, v |-> op.payload]
  BY DEF PendingWrite
<1>6. PendingWrite \in Writes
  BY <1>2, <1>3, <1>4, <1>5 DEF Writes
<1>7. QED
  BY <1>1, <1>3, <1>5, <1>6, RefinementAssumption

\* Without one there is no write in the store.
LEMMA NoPending == ~Writing \/ lost => PendingWrite = NoWrite
BY DEF PendingWrite

\* A file that becomes empty, or is new, is the only one that changes.
LEMMA EmptiedFile ==
    ASSUME NEW d, NEW m, NEW c, NEW d2, NEW i, NEW n \in Names,
           UniqueNames(d), UniqueNames(d2), Live(d2) = Live(d) \cup {i},
           \A j \in Live(d) \ {i} : d2[j] = d[j],
           i \in Live(d) => d[i].name = n,
           d2[i].name = n, d2[i].size = 0, d2[i].first = EOF_BLOCK
    PROVE  FilesOn(d2, m, c) = [FilesOn(d, m, c) EXCEPT ![n] = [size |-> 0, blocks |-> <<>>]]
<1> DEFINE F  == FilesOn(d, m, c)
           F2 == FilesOn(d2, m, c)
<1>1. F2[n] = [size |-> 0, blocks |-> <<>>]
  <2>1. F2[n] = FileAt(d2, m, c, i)
    BY FileNamed
  <2>2. DiskBlocks(d2, m, i) = <<>>
    BY NoBlocks
  <2>3. FileAt(d2, m, c, i) = [size |-> 0, blocks |-> <<>>]
    BY <2>2 DEF FileAt
  <2>4. QED
    BY <2>1, <2>3
<1>2. \A x \in Names \ {n} : F2[x] = F[x]
  <2>1. \A j \in Live(d) \ {i} : /\ d2[j].name = d[j].name
                                 /\ FileAt(d2, m, c, j) = FileAt(d, m, c, j)
    BY DEF FileAt, DiskBlocks
  <2>2. Live(d2) \ {i} = Live(d) \ {i}
    OBVIOUS
  <2>3. DifferIn(i, n, d, m, c, d2, m, c)
    BY <2>1, <2>2 DEF DifferIn
  <2> HIDE DEF F, F2
  <2>4. \A x \in Names \ {n} : FilesOn(d2, m, c)[x] = FilesOn(d, m, c)[x]
    BY <2>3, OtherFiles
  <2>5. QED
    BY <2>4 DEF F, F2
<1>3. DOMAIN F = Names /\ F = [x \in Names |-> F[x]] /\ F2 = [x \in Names |-> F2[x]]
  BY DEF FilesOn
<1> HIDE DEF F, F2
<1>4. F2 = [F EXCEPT ![n] = [size |-> 0, blocks |-> <<>>]]
  BY <1>1, <1>2, <1>3
<1>5. QED
  BY <1>4 DEF F, F2

\* do_create makes an empty file.
LEMMA StoreCreate ==
    ASSUME StoreInv, StoreInv', Intact, NEW n \in Names, Create(n)
    PROVE  Store!Create(n)
<1>1. PICK i \in FirstEmptyDirEntry(dir) :
         dir' = [dir EXCEPT ![i] = [name |-> n, size |-> 0, first |-> EOF_BLOCK]]
  BY DEF Create
<1>2. /\ Idle /\ UNCHANGED <<map, data, pc, lost>> /\ FindDirEntry(dir, n) = {}
      /\ dir \in Directories
  BY DEF Create, StoreInv, DiskInv, TypeOK
<1>3. i \in Slots /\ i \notin Live(dir)
  BY <1>1 DEF FirstEmptyDirEntry, Live
<1>4. /\ dir'[i].name = n /\ dir'[i].size = 0 /\ dir'[i].first = EOF_BLOCK
      /\ \A j \in Slots \ {i} : dir'[j] = dir[j]
  BY <1>1, <1>2, <1>3
<1>5. Live(dir') = Live(dir) \cup {i} /\ \A j \in Live(dir) \ {i} : dir'[j] = dir[j]
  BY <1>3, <1>4, FsAssumption DEF Live
<1>6. Intact' /\ ~Writing /\ ~Writing'
  BY <1>2 DEF Intact, HalfFormatted, Idle, Writing
<1>7. UniqueNames(dir) /\ FilesOnDisk = FilesOn(dir, map, data)
  BY IntactFiles
<1>8. (UniqueNames(dir) /\ FilesOnDisk = FilesOn(dir, map, data))'
  BY <1>6, IntactFiles, PTL
<1>9. FilesOnDisk' = [FilesOnDisk EXCEPT ![n] = [size |-> 0, blocks |-> <<>>]]
  <2>1. UniqueNames(dir) /\ UniqueNames(dir')
    BY <1>7, <1>8
  <2>2. FilesOn(dir', map, data) = [FilesOn(dir, map, data) EXCEPT ![n] = [size |-> 0, blocks |-> <<>>]]
    BY <1>3, <1>4, <1>5, <2>1, EmptiedFile
  <2>3. FilesOnDisk' = FilesOn(dir', map, data)
    BY <1>2, <1>8
  <2>4. QED
    BY <1>7, <2>2, <2>3
<1>10. FilesOnDisk[n] = NoFile
  BY <1>2, <1>7, NotFound, FileMissing DEF StoreInv
<1>11. PendingWrite = NoWrite /\ PendingWrite' = NoWrite
  BY <1>6 DEF PendingWrite
<1>12. ~(lost \/ HalfFormatted) /\ (lost \/ HalfFormatted)' = (lost \/ HalfFormatted)
  BY <1>6 DEF Intact
<1>13. QED
  BY <1>9, <1>10, <1>11, <1>12 DEF Store!Create, Store!Quiescent, Store!Exists, Store!EmptyFile

\* do_truncate makes a file empty.
LEMMA StoreTruncate ==
    ASSUME StoreInv, StoreInv', Intact, NEW n \in Names, NEW offset \in Offsets, Truncate(n, offset)
    PROVE  Store!Clear(n)
<1>1. PICK i \in FindDirEntry(dir, n) :
         dir' = [dir EXCEPT ![i].size = 0, ![i].first = EOF_BLOCK]
  BY DEF Truncate
<1>2. Idle /\ UNCHANGED <<map, data, pc, lost>> /\ dir \in Directories
  BY DEF Truncate, StoreInv, DiskInv, TypeOK
<1>3. i \in Slots /\ dir[i].name = n /\ dir[i] \in Entries
  BY <1>1, <1>2 DEF FindDirEntry
<1>4. /\ dir'[i].name = n /\ dir'[i].size = 0 /\ dir'[i].first = EOF_BLOCK
      /\ \A j \in Slots \ {i} : dir'[j] = dir[j]
  BY <1>1, <1>2, <1>3 DEF Entries
<1>5. i \in Live(dir) /\ Live(dir') = Live(dir) \cup {i} /\ \A j \in Live(dir) \ {i} : dir'[j] = dir[j]
  BY <1>3, <1>4, FsAssumption DEF Live
<1>6. Intact' /\ ~Writing /\ ~Writing'
  BY <1>2 DEF Intact, HalfFormatted, Idle, Writing
<1>7. UniqueNames(dir) /\ FilesOnDisk = FilesOn(dir, map, data) /\ FilesOnDisk[n] # NoFile
  BY <1>3, <1>5, IntactFiles
<1>8. (UniqueNames(dir) /\ FilesOnDisk = FilesOn(dir, map, data))'
  BY <1>6, IntactFiles, PTL
<1>9. FilesOnDisk' = [FilesOnDisk EXCEPT ![n] = [size |-> 0, blocks |-> <<>>]]
  <2>1. UniqueNames(dir) /\ UniqueNames(dir')
    BY <1>7, <1>8
  <2>2. FilesOn(dir', map, data) = [FilesOn(dir, map, data) EXCEPT ![n] = [size |-> 0, blocks |-> <<>>]]
    BY <1>3, <1>4, <1>5, <2>1, EmptiedFile
  <2>3. FilesOnDisk' = FilesOn(dir', map, data)
    BY <1>2, <1>8
  <2>4. QED
    BY <1>7, <2>2, <2>3
<1>10. PendingWrite = NoWrite /\ PendingWrite' = NoWrite
  BY <1>6 DEF PendingWrite
<1>11. ~(lost \/ HalfFormatted) /\ (lost \/ HalfFormatted)' = (lost \/ HalfFormatted)
  BY <1>6 DEF Intact
<1>12. QED
  BY <1>7, <1>9, <1>10, <1>11 DEF Store!Clear, Store!Quiescent, Store!Exists, Store!EmptyFile

\* The first steps of do_write begin a write.
LEMMA StoreBegin ==
    ASSUME StoreInv, StoreInv', Intact,
           NEW n \in Names, NEW offset \in Offsets, NEW size \in WriteSizes, NEW payload \in Payloads,
           WriteBegin(n, offset, size, payload)
    PROVE  Store!Begin(n, offset, size, payload)
<1>1. /\ Idle /\ pc' = "nav" /\ map' = map /\ data' = data /\ lost' = lost
  BY Begins DEF StoreInv
<1>2. PICK i \in Live(dir) :
        LET fresh == NeedsFirst(dir[i], offset + size)
            first == IF fresh THEN FreeHead(map) ELSE dir[i].first
        IN  /\ i \in Slots /\ dir[i].name = n
            /\ fresh => dir[i].first = EOF_BLOCK
            /\ Live(dir') = Live(dir)
            /\ \A j \in Slots \ {i} : dir'[j] = dir[j]
            /\ dir'[i].name = n /\ dir'[i].first = first
            /\ dir[i].size \in Nat /\ dir'[i].size \in Nat
            /\ dir'[i].size = (IF Grows(dir[i], offset + size) THEN offset + size ELSE dir[i].size)
            /\ op'.di = i /\ op'.crtblk = first /\ op'.blkoffs = BlkOffs(offset)
            /\ op'.byteoffs = ByteOffs(offset) /\ op'.crtsize = CrtSize(size, ByteOffs(offset))
            /\ op'.payload = payload
  BY Begins DEF StoreInv
<1>3. Intact' /\ Writing' /\ ~Writing /\ ~lost'
  BY <1>1 DEF Intact, HalfFormatted, Idle, Writing
<1>4. /\ UniqueNames(dir) /\ FilesOnDisk = FilesOn(dir, map, data)
      /\ FilesOnDisk[n] = FileAt(dir, map, data, i) /\ FilesOnDisk[n] # NoFile
  BY <1>2, IntactFiles
<1>5. (UniqueNames(dir) /\ FilesOnDisk = FilesOn(dir, map, data))'
  BY <1>3, IntactFiles, PTL
<1>6. /\ FilesOnDisk' = FilesOn(dir', map, data) /\ UniqueNames(dir')
      /\ i \in Live(dir')
  BY <1>1, <1>2, <1>5
<1>7. FilesOnDisk'[n] = FileAt(dir', map, data, i)
  BY <1>2, <1>6, FileNamed
<1>8. DiskBlocks(dir', map, i) = DiskBlocks(dir, map, i)
  <2>1. CASE NeedsFirst(dir[i], offset + size)
    <3>1. DiskBlocks(dir', map, i) = <<>>
      BY <1>2, <2>1 DEF DiskBlocks
    <3>2. DiskBlocks(dir, map, i) = <<>>
      BY <1>2, <2>1, NoBlocks
    <3>3. QED
      BY <3>1, <3>2
  <2>2. CASE ~NeedsFirst(dir[i], offset + size)
    BY <1>2, <2>2 DEF DiskBlocks
  <2>3. QED
    BY <2>1, <2>2
<1>9. /\ FilesOnDisk'[n].blocks = FilesOnDisk[n].blocks
      /\ FilesOnDisk[n].size = dir[i].size /\ FilesOnDisk'[n].size = dir'[i].size
  BY <1>4, <1>7, <1>8 DEF FileAt
<1>10. \A x \in Names \ {n} : FilesOnDisk'[x] = FilesOnDisk[x]
  <2>1. \A j \in Live(dir) \ {i} : /\ dir'[j].name = dir[j].name
                                   /\ FileAt(dir', map, data, j) = FileAt(dir, map, data, j)
    BY <1>2 DEF Live, FileAt, DiskBlocks
  <2>2. DifferIn(i, n, dir, map, data, dir', map, data)
    BY <1>2, <1>4, <1>6, <2>1 DEF DifferIn
  <2>3. QED
    BY <1>4, <1>6, <2>2, OtherFiles
<1>12. TargetBlock' = BlkOffs(offset)
  <2>1. (/\ Len(NewBlocks) \in Nat \ {0} /\ NewBlocks[1] = dir[op.di].first
         /\ \A k, l \in 1 .. Len(NewBlocks) : NewBlocks[k] = NewBlocks[l] => k = l)'
    BY <1>3, Writer, PTL DEF StoreInv
  <2>2. BlockIndex(NewBlocks', op'.crtblk) = 1
    BY <1>2, <2>1, BlockIndexIs
  <2>3. BlkOffs(offset) \in Nat
    BY RequestFits
  <2>4. QED
    BY <1>2, <2>2, <2>3 DEF TargetBlock
<1>13. PendingWrite' = Store!WriteOf(n, offset, size, payload)
  <2> DEFINE lo == offset % BLOCK_SIZE
             hi == IF lo + size < BLOCK_SIZE THEN lo + size ELSE BLOCK_SIZE
  <2>1. offset \in Nat /\ size \in Nat /\ BLOCK_SIZE \in Nat \ {0}
    BY FsAssumption
  <2>2. lo \in Nat
    BY <2>1
  <2>3. BlkOffs(offset) = offset \div BLOCK_SIZE
    <3>1. offset \div BLOCK_SIZE \in Nat /\ offset \div BLOCK_SIZE < USHRT_RANGE
      BY <2>1, OffsetsFit
    <3>2. QED
      BY <3>1 DEF BlkOffs, USHRT_RANGE
  <2>4. op'.byteoffs = lo /\ op'.crtsize = CrtSize(size, lo)
    BY <1>2 DEF ByteOffs
  <2>5. op'.byteoffs + op'.crtsize = hi
    <3> HIDE DEF lo
    <3>1. QED
      BY <2>1, <2>2, <2>4 DEF CrtSize
  <2>6. PendingWrite' = [name |-> n, k |-> BlkOffs(offset), lo |-> lo, hi |-> hi, v |-> payload]
    <3> HIDE DEF lo, hi
    <3>1. QED
      BY <1>2, <1>3, <1>12, <2>4, <2>5 DEF PendingWrite
  <2>7. QED
    BY <2>3, <2>6 DEF Store!WriteOf
<1>14. PendingWrite = NoWrite
  BY <1>3 DEF PendingWrite
<1>15. ~(lost \/ HalfFormatted) /\ (lost \/ HalfFormatted)' = (lost \/ HalfFormatted)
  BY <1>3 DEF Intact
<1>16. FilesOnDisk'[n].size = IF offset + size > FilesOnDisk[n].size
                              THEN offset + size ELSE FilesOnDisk[n].size
  BY <1>2, <1>9 DEF Grows
<1>17. QED
  BY <1>4, <1>9, <1>10, <1>13, <1>14, <1>15, <1>16
     DEF Store!Begin, Store!Quiescent, Store!Exists, Store!OnlyFile

\* What the store sees stays the same when the disk does, and the write.
LEMMA StoreSame ==
    ASSUME UNCHANGED <<dir, map, data, lost, pc>>, PendingWrite' = PendingWrite
    PROVE  UNCHANGED Store!vars
<1>1. FilesOnDisk' = FilesOnDisk /\ (lost \/ HalfFormatted)' = (lost \/ HalfFormatted)
  BY DEF FilesOnDisk, HalfFormatted
<1>2. QED
  BY <1>1 DEF Store!vars

\* The loop of do_write changes the map in memory only.
LEMMA StoreNavigate ==
    ASSUME StoreInv, ~lost, NavFollow \/ NavExtend
    PROVE  UNCHANGED Store!vars
<1>1. /\ UNCHANGED <<dir, map, data, lost, pc>> /\ Writing /\ Writing'
  BY DEF NavFollow, NavExtend, Navigating, Writing
<1>2. TargetBlock' = TargetBlock
  BY RefNavFollow, RefNavExtend DEF StoreInv
<1>3. /\ op'.di = op.di /\ op'.byteoffs = op.byteoffs /\ op'.crtsize = op.crtsize
      /\ op'.payload = op.payload
  <2>1. op \in Ops
    BY DEF StoreInv, DiskInv, TypeOK
  <2>2. \E b : op' = [op EXCEPT !.crtblk = b, !.blkoffs = @ - 1]
    BY DEF NavFollow, NavExtend
  <2>3. QED
    BY <2>1, <2>2 DEF Ops
<1>4. PendingWrite' = PendingWrite
  BY <1>1, <1>2, <1>3 DEF PendingWrite
<1>5. QED
  BY <1>1, <1>4, StoreSame

\* A write that is cut short leaves the files as they are, or breaks the store:
\* it does when the file was given its first block.
LEMMA StoreCutShort ==
    ASSUME StoreInv, Intact, Writing,
           UNCHANGED <<dir, map, data>>, pc' = "idle", lost' = op.fresh
    PROVE  Store!CutShort
<1>1. /\ ~lost /\ op.di \in Live(dir) /\ op.di \in HasBlocks(dir) /\ op.fresh \in BOOLEAN
      /\ PendingWrite # NoWrite /\ PendingWrite.name = dir[op.di].name
  BY IntactWrite, Writer DEF Intact, StoreInv, DiskInv, TypeOK, Ops
<1>2. /\ FilesOnDisk[dir[op.di].name] = FileAt(dir, map, data, op.di)
      /\ Len(FileAt(dir, map, data, op.di).blocks) = Len(DiskBlocks(dir, map, op.di))
      /\ FileAt(dir, map, data, op.di).blocks \in Seq(Blocks)
  BY <1>1, IntactFiles
<1>3. op.fresh <=> FileAt(dir, map, data, op.di).blocks = <<>>
  <2>1. op.fresh <=> dir[op.di].first = FreeHead(map)
    BY <1>1 DEF StoreInv, RefInv
  <2>2. CASE op.fresh
    <3>1. Len(DiskBlocks(dir, map, op.di)) = 0
      BY <2>1, <2>2 DEF DiskBlocks
    <3>2. QED
      BY <1>2, <2>2, <3>1
  <2>3. CASE ~op.fresh
    <3>1. dir[op.di].first \in DataBlocks
      BY <1>1 DEF StoreInv, DiskInv, EntriesConsistent, HasBlocks
    <3>2. Len(DiskBlocks(dir, map, op.di)) > 0
      BY <1>1, <2>1, <2>3, <3>1, DiskLists DEF StoreInv, Intact
    <3>3. QED
      BY <1>2, <2>3, <3>2
  <2>4. QED
    BY <2>2, <2>3
<1>4. PendingWrite' = NoWrite
  BY DEF PendingWrite, Writing
<1>5. (lost \/ HalfFormatted)' = (FilesOnDisk[PendingWrite.name].blocks = <<>>)
  <2>1. ~HalfFormatted'
    BY DEF HalfFormatted
  <2>2. (lost \/ HalfFormatted)' <=> op.fresh
    BY <2>1
  <2>3. QED
    BY <1>1, <1>2, <1>3, <2>2
<1>6. ~lost' => FilesOnDisk' = FilesOnDisk
  BY <1>1 DEF FilesOnDisk
<1>7. ~(lost \/ HalfFormatted)
  BY DEF Intact
<1>8. QED
  BY <1>1, <1>4, <1>5, <1>6, <1>7 DEF Store!CutShort, Store!Quiescent

\* The block that do_write is about to write is in no other file on the disk.
LEMMA TargetApart ==
    ASSUME DiskInv, OwnInv, RefInv, ~lost, Writing, NEW j \in Live(dir) \ {op.di}
    PROVE  \A k \in 1 .. Len(DiskBlocks(dir, map, j)) : DiskBlocks(dir, map, j)[k] # op.crtblk
<1>1. CASE j \in HasBlocks(dir)
  <2>1. /\ dir[j].first # FreeHead(map)
        /\ BlockSeq(map, dir[j].first) = BlockSeq(bmap, dir[j].first)
    BY <1>1 DEF RefInv
  <2>2. DiskBlocks(dir, map, j) = BlockSeq(bmap, dir[j].first)
    BY <2>1 DEF DiskBlocks
  <2>3. /\ Ends(bmap, dir[j].first) /\ op.crtblk \notin Chain(bmap, dir[j].first)
        /\ bmap \in BlockMaps
    BY <1>1, Writer DEF DiskInv, TypeOK
  <2>4. Chain(bmap, dir[j].first)
           = {BlockSeq(bmap, dir[j].first)[k] : k \in 1 .. Len(BlockSeq(bmap, dir[j].first))}
    BY <2>3, BlockSeqFacts
  <2>5. QED
    BY <2>2, <2>3, <2>4
<1>2. CASE j \notin HasBlocks(dir)
  <2>1. DiskBlocks(dir, map, j) = <<>>
    BY <1>2, NoBlocks DEF HasBlocks
  <2>2. QED
    BY <2>1
<1>3. QED
  BY <1>1, <1>2

\* Where it is in its own file: the block of the target in memory, and on the disk
\* too if the file had as many blocks there.
LEMMA TargetPlace ==
    ASSUME StoreInv, ~lost, Writing, op.blkoffs = 0
    PROVE  LET s == NewBlocks
               t == DiskBlocks(dir, map, op.di)
           IN  /\ TargetBlock + 1 \in 1 .. Len(s) /\ s[TargetBlock + 1] = op.crtblk
               /\ Len(s) \in Nat /\ Len(t) \in Nat /\ Len(t) <= Len(s)
               /\ \A k \in 1 .. Len(t) : t[k] = s[k]
               /\ \A k \in 1 .. Len(s) : s[k] = op.crtblk => k = TargetBlock + 1
<1> DEFINE s == NewBlocks
           t == DiskBlocks(dir, map, op.di)
           x == op.crtblk
<1>1. /\ Len(s) \in Nat \ {0} /\ BlockIndex(s, x) \in 1 .. Len(s) /\ s[BlockIndex(s, x)] = x
      /\ \A k, l \in 1 .. Len(s) : s[k] = s[l] => k = l
      /\ op.di \in Live(dir)
  BY Writer DEF StoreInv
<1>2. TargetBlock = BlockIndex(s, x) - 1 + 0
  BY DEF TargetBlock
<1>3. Appends(t, s, x)
  BY DEF StoreInv, RefInv
<1>4. Len(t) \in Nat
  <2>1. t \in Seq(DataBlocks)
    BY <1>1, DiskLists DEF StoreInv, HalfFormatted, Writing
  <2>2. QED
    BY <2>1
<1> HIDE DEF s, t, x
<1>5. TargetBlock + 1 = BlockIndex(s, x)
  BY <1>1, <1>2
<1>6. Len(t) <= Len(s) /\ \A k \in 1 .. Len(t) : t[k] = s[k]
  BY <1>3 DEF Appends
<1>7. QED
  BY <1>1, <1>4, <1>5, <1>6 DEF s, t, x

\* What the store has of the file that is written.
LEMMA WrittenFile ==
    ASSUME StoreInv, ~lost, Writing
    PROVE  LET f == FilesOnDisk[PendingWrite.name]
               t == DiskBlocks(dir, map, op.di)
           IN  /\ Intact /\ op.di \in Live(dir)
               /\ PendingWrite.name = dir[op.di].name /\ PendingWrite.name \in Names
               /\ f.size = dir[op.di].size /\ Len(f.blocks) = Len(t)
               /\ DOMAIN f.blocks = 1 .. Len(t)
               /\ \A k \in 1 .. Len(t) : f.blocks[k] = data[t[k]]
<1>1. Intact /\ op.di \in Live(dir) /\ PendingWrite.name = dir[op.di].name
  BY IntactWrite DEF Intact, HalfFormatted, Writing
<1>2. QED
  BY <1>1, IntactFiles

\* The write of the block makes the bytes appear, if the file on the disk has it.
LEMMA StoreAppear ==
    ASSUME StoreInv, StoreInv', Intact, WriteData
    PROVE  Store!Appear \/ UNCHANGED Store!vars
<1> DEFINE T == TargetBlock
           t == DiskBlocks(dir, map, op.di)
           x == op.crtblk
           n == dir[op.di].name
           f == FilesOnDisk[n]
           g == FilesOnDisk'[n]
<1>1. /\ ~lost /\ ~lost' /\ Writing /\ Writing' /\ op.blkoffs = 0 /\ pc = "nav" /\ pc' = "save"
      /\ UNCHANGED <<map, dir, bmap, op, lost>>
  BY DEF WriteData, Writing, Intact
<1>2. /\ TargetBlock' = TargetBlock /\ x \in DataBlocks /\ data \in [DataBlocks -> Blocks]
      /\ data' = [data EXCEPT ![x] = Merged(op, data[x])]
  BY <1>1, RefWriteData, Writer DEF StoreInv, DiskInv, TypeOK
<1>3. data'[x] = Merged(op, data[x]) /\ \A y \in DataBlocks \ {x} : data'[y] = data[y]
  BY <1>2
<1>4. PendingWrite' = PendingWrite
  BY <1>1, <1>2 DEF PendingWrite
<1>5. /\ PendingWrite # NoWrite /\ PendingWrite.name = n /\ PendingWrite.k = T /\ T \in Nat
      /\ PendingWrite.lo = op.byteoffs /\ PendingWrite.hi = op.byteoffs + op.crtsize
      /\ PendingWrite.v = op.payload
  BY <1>1, IntactWrite
<1>6. /\ Intact' /\ UniqueNames(dir) /\ UniqueNames(dir') /\ op.di \in Live(dir)
      /\ FilesOnDisk = FilesOn(dir, map, data) /\ FilesOnDisk' = FilesOn(dir, map, data')
  <2>1. Intact'
    BY <1>1 DEF Intact, HalfFormatted
  <2>2. UniqueNames(dir) /\ FilesOnDisk = FilesOn(dir, map, data)
    BY IntactFiles
  <2>3. (UniqueNames(dir) /\ FilesOnDisk = FilesOn(dir, map, data))'
    BY <2>1, IntactFiles, PTL
  <2>4. QED
    BY <1>1, <2>1, <2>2, <2>3, IntactWrite
<1>7. ASSUME NEW j \in Live(dir) \ {op.di}
      PROVE  FileAt(dir, map, data', j) = FileAt(dir, map, data, j)
  <2>1. \A k \in 1 .. Len(DiskBlocks(dir, map, j)) : DiskBlocks(dir, map, j)[k] # x
    BY <1>1, <1>7, TargetApart DEF StoreInv
  <2>2. \A k \in 1 .. Len(DiskBlocks(dir, map, j)) : DiskBlocks(dir, map, j)[k] \in DataBlocks
    BY <1>7, IntactFiles
  <2>3. \A k \in 1 .. Len(DiskBlocks(dir, map, j)) :
           data'[DiskBlocks(dir, map, j)[k]] = data[DiskBlocks(dir, map, j)[k]]
    BY <1>3, <2>1, <2>2
  <2>4. QED
    BY <2>3, SameFile
<1>8. (lost \/ HalfFormatted)' = (lost \/ HalfFormatted) /\ ~(lost \/ HalfFormatted)
  BY <1>6 DEF Intact
<1>9. /\ \A k \in 1 .. Len(NewBlocks) : NewBlocks[k] = x => k = T + 1
      /\ NewBlocks[T + 1] = x /\ Len(t) \in Nat /\ Len(t) <= Len(NewBlocks)
      /\ \A k \in 1 .. Len(t) : t[k] = NewBlocks[k]
      /\ Len(NewBlocks) \in Nat
  BY <1>1, TargetPlace
<1>10. \A k \in 1 .. Len(t) : t[k] = x => k = T + 1
  <2> HIDE DEF T, t, x
  <2>1. QED
    BY <1>9
<1>11. CASE T < Len(t)
  <2>1. /\ f.size = dir[op.di].size /\ Len(f.blocks) = Len(t) /\ DOMAIN f.blocks = 1 .. Len(t)
        /\ \A k \in 1 .. Len(t) : f.blocks[k] = data[t[k]]
    BY <1>1, <1>5, WrittenFile
  <2>2. /\ g.size = dir[op.di].size /\ Len(g.blocks) = Len(t)
        /\ \A k \in 1 .. Len(t) : g.blocks[k] = data'[t[k]]
    <3>1. (/\ FilesOnDisk[PendingWrite.name].size = dir[op.di].size
           /\ Len(FilesOnDisk[PendingWrite.name].blocks) = Len(DiskBlocks(dir, map, op.di))
           /\ \A k \in 1 .. Len(DiskBlocks(dir, map, op.di)) :
                 FilesOnDisk[PendingWrite.name].blocks[k] = data[DiskBlocks(dir, map, op.di)[k]])'
      BY <1>1, WrittenFile, PTL
    <3>2. QED
      BY <1>1, <1>4, <1>5, <3>1
  <2>3. \A k \in 1 .. Len(t) : t[k] \in DataBlocks
    BY <1>6, IntactFiles
  <2> HIDE DEF T, t, x, f, g
  <2>4. T + 1 \in 1 .. Len(t) /\ t[T + 1] = x
    BY <1>5, <1>9, <1>11
  <2>5. \A k \in 1 .. Len(t) : k # T + 1 => g.blocks[k] = f.blocks[k]
    BY <1>3, <1>10, <2>1, <2>2, <2>3
  <2>6. g.blocks[T + 1] = Merged(op, data[x]) /\ f.blocks[T + 1] = data[x]
    BY <1>3, <2>1, <2>2, <2>4
  <2>7. \A b \in 0 .. (BLOCK_SIZE - 1) :
           /\ op.byteoffs <= b /\ b < op.byteoffs + op.crtsize => g.blocks[T + 1][b] = op.payload
           /\ ~(op.byteoffs <= b /\ b < op.byteoffs + op.crtsize)
                 => g.blocks[T + 1][b] = f.blocks[T + 1][b]
    BY <2>6 DEF Merged
  <2>8. Store!IsPut(f, g, PendingWrite)
    BY <1>5, <1>11, <2>1, <2>2, <2>5, <2>7 DEF Store!IsPut, Store!Indices
  <2>9. \A y \in Names \ {n} : FilesOnDisk'[y] = FilesOnDisk[y]
    <3>1. DifferIn(op.di, n, dir, map, data, dir, map, data')
      BY <1>6, <1>7 DEF DifferIn
    <3>2. QED
      BY <1>6, <3>1, OtherFiles
  <2>10. Store!Appear
    BY <1>4, <1>5, <1>8, <2>8, <2>9
       DEF Store!Appear, Store!Quiescent, Store!OnlyFile, f, g
  <2>11. QED
    BY <2>10
<1>12. CASE ~(T < Len(t))
  <2>1. \A k \in 1 .. Len(t) : t[k] # x /\ t[k] \in DataBlocks
    <3>1. \A k \in 1 .. Len(t) : t[k] \in DataBlocks
      BY <1>6, IntactFiles
    <3> HIDE DEF T, t, x
    <3>2. QED
      BY <1>5, <1>9, <1>10, <1>12, <3>1
  <2>2. FileAt(dir, map, data', op.di) = FileAt(dir, map, data, op.di)
    <3>1. \A k \in 1 .. Len(t) : data'[t[k]] = data[t[k]]
      BY <1>3, <2>1
    <3>2. QED
      BY <3>1, SameFile
  <2>3. FilesOn(dir, map, data') = FilesOn(dir, map, data)
    BY <1>6, <1>7, <2>2, SameFiles
  <2>4. UNCHANGED Store!vars
    BY <1>4, <1>6, <1>8, <2>3 DEF Store!vars
  <2>5. QED
    BY <2>4
<1>13. QED
  BY <1>11, <1>12

\* When the map is saved the write returns: its bytes are in the file, now if the
\* file on the disk did not have the block before.
LEMMA StoreReturn ==
    ASSUME StoreInv, StoreInv', Intact, SaveMap
    PROVE  Store!Return
<1> DEFINE T == TargetBlock
           s == NewBlocks
           t == DiskBlocks(dir, map, op.di)
           x == op.crtblk
           n == dir[op.di].name
           f == FilesOnDisk[n]
           g == FilesOnDisk'[n]
<1>1. /\ ~lost /\ ~lost' /\ Writing /\ ~Writing' /\ pc = "save" /\ pc' = "idle"
      /\ map' = bmap /\ dir' = dir /\ data' = data /\ lost' = lost
  BY DEF SaveMap, Writing, Intact
<1>2. /\ op.blkoffs = 0 /\ x \in DataBlocks
      /\ \A b \in 0 .. (BLOCK_SIZE - 1) :
            op.byteoffs <= b /\ b < op.byteoffs + op.crtsize => data[x][b] = op.payload
  BY <1>1, Writer DEF StoreInv, RefInv
<1>3. /\ PendingWrite # NoWrite /\ PendingWrite.name = n /\ PendingWrite.k = T /\ T \in Nat
      /\ PendingWrite.lo = op.byteoffs /\ PendingWrite.hi = op.byteoffs + op.crtsize
      /\ PendingWrite.v = op.payload /\ PendingWrite' = NoWrite
  BY <1>1, IntactWrite DEF PendingWrite
<1>4. /\ Intact' /\ UniqueNames(dir) /\ op.di \in Live(dir)
      /\ FilesOnDisk = FilesOn(dir, map, data) /\ FilesOnDisk' = FilesOn(dir, bmap, data)
  <2>1. Intact'
    BY <1>1 DEF Intact, HalfFormatted
  <2>2. UniqueNames(dir) /\ FilesOnDisk = FilesOn(dir, map, data)
    BY IntactFiles
  <2>3. (UniqueNames(dir) /\ FilesOnDisk = FilesOn(dir, map, data))'
    BY <2>1, IntactFiles, PTL
  <2>4. QED
    BY <1>1, <2>1, <2>2, <2>3, IntactWrite
<1>5. (lost \/ HalfFormatted)' = (lost \/ HalfFormatted) /\ ~(lost \/ HalfFormatted)
  BY <1>4 DEF Intact
<1>6. /\ DiskBlocks(dir, bmap, op.di) = s
      /\ \A j \in Live(dir) \ {op.di} : FileAt(dir, bmap, data, j) = FileAt(dir, map, data, j)
  <2>1. /\ DiskBlocks(dir, bmap, op.di) = s
        /\ \A j \in Live(dir) \ {op.di} : DiskBlocks(dir, bmap, j) = DiskBlocks(dir, map, j)
    BY <1>1, SavedLists DEF StoreInv
  <2>2. QED
    BY <2>1, SameFile
<1>7. /\ T + 1 \in 1 .. Len(s) /\ s[T + 1] = x
      /\ Len(s) \in Nat /\ Len(t) \in Nat
      /\ \A k \in 1 .. Len(t) : t[k] = s[k]
  BY <1>1, <1>2, TargetPlace
<1>8. /\ f.size = dir[op.di].size /\ Len(f.blocks) = Len(t) /\ DOMAIN f.blocks = 1 .. Len(t)
      /\ \A k \in 1 .. Len(t) : f.blocks[k] = data[t[k]]
  BY <1>1, <1>3, WrittenFile
<1>9. /\ g.size = dir[op.di].size /\ Len(g.blocks) = Len(s)
      /\ \A k \in 1 .. Len(s) : g.blocks[k] = data[s[k]]
  <2>1. (\A i \in Live(dir) :
            LET h == FileAt(dir, map, data, i)
                u == DiskBlocks(dir, map, i)
            IN  /\ i \in Slots /\ dir[i].name \in Names /\ dir[i].size \in Nat
                /\ FilesOnDisk[dir[i].name] = h /\ h # NoFile
                /\ h.size = dir[i].size /\ Len(u) \in Nat
                /\ h.blocks \in Seq(Blocks) /\ Len(h.blocks) = Len(u)
                /\ DOMAIN h.blocks = 1 .. Len(u)
                /\ \A k \in 1 .. Len(u) : u[k] \in DataBlocks /\ h.blocks[k] = data[u[k]])'
    BY <1>4, IntactFiles, PTL
  <2>2. FilesOnDisk'[n] = FileAt(dir, bmap, data, op.di)
    BY <1>4, <1>1, <2>1
  <2>3. /\ FileAt(dir, bmap, data, op.di).size = dir[op.di].size
        /\ Len(FileAt(dir, bmap, data, op.di).blocks) = Len(DiskBlocks(dir, bmap, op.di))
        /\ \A k \in 1 .. Len(DiskBlocks(dir, bmap, op.di)) :
              FileAt(dir, bmap, data, op.di).blocks[k] = data[DiskBlocks(dir, bmap, op.di)[k]]
    BY <1>1, <1>4, <2>1
  <2>4. QED
    BY <1>6, <2>2, <2>3
<1>10. Store!Holds(g, PendingWrite)
  <2> HIDE DEF T, s, x, g
  <2>1. T < Len(s) /\ g.blocks[T + 1] = data[x]
    BY <1>3, <1>7, <1>9
  <2>2. QED
    BY <1>2, <1>3, <1>9, <2>1 DEF Store!Holds, Store!Indices
<1>11. CASE t = s
  <2>1. FileAt(dir, bmap, data, op.di) = FileAt(dir, map, data, op.di)
    BY <1>6, <1>11, SameFile
  <2>2. FilesOn(dir, bmap, data) = FilesOn(dir, map, data)
    BY <1>4, <1>6, <2>1, SameFiles
  <2>3. FilesOnDisk' = FilesOnDisk
    BY <1>4, <2>2
  <2>4. QED
    BY <1>3, <1>5, <1>10, <2>3 DEF Store!Return, Store!Quiescent, g
<1>12. CASE t # s
  <2>1. Len(s) = T + 1 /\ Len(t) <= T
    BY <1>1, <1>12, SavedLength DEF StoreInv
  <2>2. Store!IsPut(f, g, PendingWrite)
    <3> HIDE DEF T, s, x, t, f, g
    <3>1. ~(T < Len(t)) /\ Len(g.blocks) = T + 1
      BY <1>3, <1>7, <1>9, <2>1
    <3>2. \A k \in 1 .. Len(t) : k \in 1 .. Len(s) /\ g.blocks[k] = f.blocks[k]
      BY <1>3, <1>7, <1>8, <1>9, <2>1
    <3>3. g.blocks[T + 1] = data[x]
      BY <1>7, <1>9
    <3>4. QED
      BY <1>2, <1>3, <1>8, <1>9, <3>1, <3>2, <3>3 DEF Store!IsPut, Store!Indices
  <2>3. \A y \in Names \ {n} : FilesOnDisk'[y] = FilesOnDisk[y]
    <3>1. DifferIn(op.di, n, dir, map, data, dir, bmap, data)
      BY <1>4, <1>6 DEF DifferIn
    <3>2. QED
      BY <1>4, <3>1, OtherFiles
  <2>4. QED
    BY <1>3, <1>5, <1>10, <2>2, <2>3
       DEF Store!Return, Store!Quiescent, Store!OnlyFile, f, g
<1>13. QED
  BY <1>11, <1>12

\* A format that has written the map breaks a store that has contents, and
\* changes nothing in one that has none.
LEMMA StoreWipe ==
    ASSUME StoreInv, StoreInv', Intact, FormatMapBlock
    PROVE  Store!Wipe \/ UNCHANGED Store!vars
<1>1. /\ Idle /\ ~lost /\ pc' = "format" /\ map' = FormatMap
      /\ dir' = dir /\ data' = data /\ lost' = lost
      /\ ~Writing /\ ~Writing'
  BY DEF FormatMapBlock, Intact, Idle, Writing
<1>2. PendingWrite = NoWrite /\ PendingWrite' = NoWrite
  BY <1>1 DEF PendingWrite
<1>3. UniqueNames(dir) /\ FilesOnDisk = FilesOn(dir, map, data)
  BY IntactFiles
<1>4. CASE HasBlocks(dir) # {}
  <2>1. PICK i \in HasBlocks(dir) : TRUE
    BY <1>4
  <2>2. i \in Live(dir) /\ dir[i].first \in DataBlocks
    BY <2>1 DEF HasBlocks, StoreInv, DiskInv, EntriesConsistent
  <2>3. /\ map \in BlockMaps /\ Sound(map) /\ Owned(dir, map)
    BY <1>1 DEF StoreInv, DiskInv, TypeOK, MapsSound, OwnInv
  <2>4. dir[i].first # FreeHead(map)
    BY <2>1, <2>2, <2>3, OwnedEnds, EndsNotHead
  <2>5. Len(DiskBlocks(dir, map, i)) > 0
    BY <2>2, <2>4, DiskLists DEF StoreInv, Intact
  <2>6. /\ dir[i].name \in Names /\ FilesOnDisk[dir[i].name] # NoFile
        /\ Len(FilesOnDisk[dir[i].name].blocks) > 0
    BY <2>2, <2>5, IntactFiles
  <2>7. FilesOnDisk[dir[i].name].blocks # <<>>
    BY <2>6
  <2>8. ~(lost \/ HalfFormatted) /\ (lost \/ HalfFormatted)' = TRUE
    BY <1>1, <1>4 DEF Intact, HalfFormatted
  <2>9. Store!Wipe
    BY <1>2, <2>6, <2>7, <2>8 DEF Store!Wipe, Store!Quiescent, Store!Exists
  <2>10. QED
    BY <2>9
<1>5. CASE HasBlocks(dir) = {}
  <2>1. ASSUME NEW i \in Live(dir)
        PROVE  FileAt(dir, FormatMap, data, i) = FileAt(dir, map, data, i)
    <3>1. dir[i].first = EOF_BLOCK
      BY <1>5 DEF HasBlocks
    <3>2. DiskBlocks(dir, map, i) = <<>> /\ DiskBlocks(dir, FormatMap, i) = <<>>
      BY <3>1, NoBlocks
    <3>3. QED
      BY <3>2, SameFile
  <2>2. FilesOn(dir, FormatMap, data) = FilesOn(dir, map, data)
    BY <1>3, <2>1, SameFiles
  <2>3. FilesOnDisk' = FilesOnDisk
    BY <1>1, <1>3, <2>2 DEF FilesOnDisk
  <2>4. (lost \/ HalfFormatted)' = (lost \/ HalfFormatted)
    BY <1>1, <1>5 DEF Intact, HalfFormatted
  <2>5. UNCHANGED Store!vars
    BY <1>2, <2>3, <2>4 DEF Store!vars
  <2>6. QED
    BY <2>5
<1>6. QED
  BY <1>4, <1>5

\* The format's second write leaves no file, whatever was on the disk.
LEMMA StoreFormat ==
    ASSUME FormatDirBlock
    PROVE  Store!Format
<1>1. pc = "format" /\ pc' = "idle" /\ lost' = FALSE /\ dir' = EmptyDir
  BY DEF FormatDirBlock
<1>2. PendingWrite = NoWrite /\ PendingWrite' = NoWrite
  BY <1>1 DEF PendingWrite, Writing
<1>3. FilesOnDisk' = [n \in Names |-> NoFile]
  BY <1>1, ConstantTypes DEF FilesOnDisk, FilesOn
<1>4. (lost \/ HalfFormatted)' = FALSE
  BY <1>1 DEF HalfFormatted
<1>5. QED
  BY <1>2, <1>3, <1>4 DEF Store!Format, Store!Quiescent

\* A crash cuts the write in progress short; one between the two writes of a
\* format of an empty store changes nothing.
LEMMA StoreCrash ==
    ASSUME StoreInv, Intact, Crash
    PROVE  Store!CutShort \/ UNCHANGED Store!vars
<1>1. /\ ~lost /\ UNCHANGED <<dir, map, data>> /\ pc' = "idle"
      /\ Writing \/ pc = "format"
      /\ lost' = \/ lost
                 \/ Writing /\ op.fresh
                 \/ pc = "format" /\ \E i \in Live(dir) : dir[i].first # EOF_BLOCK
  BY DEF Crash, Intact
<1>2. CASE Writing
  <2>1. op.fresh \in BOOLEAN /\ pc # "format"
    BY <1>2 DEF StoreInv, DiskInv, TypeOK, Ops, Writing
  <2>2. lost' = op.fresh
    BY <1>1, <1>2, <2>1
  <2>3. QED
    BY <1>1, <1>2, <2>2, StoreCutShort
<1>3. CASE ~Writing
  <2>1. pc = "format"
    BY <1>1, <1>3
  <2>2. HasBlocks(dir) = {}
    BY <2>1 DEF Intact, HalfFormatted
  <2>3. lost' = FALSE /\ lost = FALSE
    BY <1>1, <1>3, <2>2 DEF HasBlocks, StoreInv, DiskInv, TypeOK
  <2>4. FilesOnDisk' = FilesOnDisk
    BY <1>1, <2>3 DEF FilesOnDisk
  <2>5. PendingWrite = NoWrite /\ PendingWrite' = NoWrite
    BY <1>1, <1>3 DEF PendingWrite, Writing
  <2>6. (lost \/ HalfFormatted)' = (lost \/ HalfFormatted)
    BY <1>1, <2>2, <2>3 DEF HalfFormatted
  <2>7. UNCHANGED Store!vars
    BY <2>4, <2>5, <2>6 DEF Store!vars
  <2>8. QED
    BY <2>7
<1>4. QED
  BY <1>2, <1>3

\* Once broken, the store stays so until it is formatted.
LEMMA StoreBroken ==
    ASSUME ~Intact, [Next]_vars, ~FormatDirBlock, DiskInv
    PROVE  Store!Broken \/ UNCHANGED Store!vars
<1>1. CASE lost
  <2>1. lost'
    BY <1>1 DEF Next, Request, WriteStep, Format, Create, Truncate, WriteBegin, WriteNoSpace,
                NavFollow, NavExtend, NavFull, WriteData, SaveMap, FormatMapBlock, Crash,
                WriteOnLostMap, Ended, vars
  <2>2. QED
    BY <1>1, <2>1 DEF Store!Broken
<1>2. CASE ~lost
  <2>1. pc = "format" /\ HasBlocks(dir) # {}
    BY <1>2 DEF Intact, HalfFormatted
  <2>2. CASE Crash
    <3>1. lost'
      BY <2>1, <2>2 DEF Crash, HasBlocks
    <3>2. QED
      BY <2>1, <3>1 DEF Store!Broken, HalfFormatted
  <2>3. CASE UNCHANGED vars
    <3>1. UNCHANGED <<dir, map, data, lost, pc>> /\ PendingWrite' = PendingWrite
      BY <2>1, <2>3 DEF vars, PendingWrite, Writing
    <3>2. QED
      BY <3>1, StoreSame
  <2>4. QED
    BY <2>1, <2>2, <2>3
       DEF Next, Request, WriteStep, Format, Create, Truncate, WriteBegin, WriteNoSpace, Idle,
           NavFollow, NavExtend, NavFull, WriteData, SaveMap, FormatMapBlock, Navigating,
           WriteOnLostMap, Ended
<1>3. QED
  BY <1>1, <1>2

\* Every step.
LEMMA StoreStep == StoreInv /\ StoreInv' /\ [Next]_vars => [Store!Next]_(Store!vars)
<1> SUFFICES ASSUME StoreInv, StoreInv', [Next]_vars
             PROVE  Store!Next \/ UNCHANGED Store!vars
  OBVIOUS
<1>1. CASE FormatDirBlock
  BY <1>1, StoreFormat DEF Store!Next
<1>2. CASE ~FormatDirBlock /\ ~Intact
  BY <1>2, StoreBroken DEF Store!Next, StoreInv
<1>3. CASE ~FormatDirBlock /\ Intact
  <2> USE <1>3
  <2>1. ASSUME NEW n \in Names, Create(n)
        PROVE  Store!Next
    BY <2>1, StoreCreate DEF Store!Next
  <2>2. ASSUME NEW n \in Names, NEW offset \in Offsets, Truncate(n, offset)
        PROVE  Store!Next
    BY <2>2, StoreTruncate DEF Store!Next
  <2>3. ASSUME NEW n \in Names, NEW offset \in Offsets, NEW size \in WriteSizes,
               NEW payload \in Payloads, WriteBegin(n, offset, size, payload)
        PROVE  Store!Next
    BY <2>3, StoreBegin DEF Store!Next
  <2>4. CASE UNCHANGED vars
    <3>1. UNCHANGED <<dir, map, data, lost, pc>> /\ PendingWrite' = PendingWrite
      BY <2>4 DEF vars, PendingWrite, Writing, TargetBlock, NewBlocks
    <3>2. QED
      BY <3>1, StoreSame
  <2>5. ASSUME NEW n \in Names, NEW offset \in Offsets, NEW size \in WriteSizes,
               WriteNoSpace(n, offset, size)
        PROVE  Store!Next \/ UNCHANGED Store!vars
    BY <2>4, <2>5 DEF WriteNoSpace
  <2>6. CASE NavFollow \/ NavExtend
    BY <2>6, StoreNavigate DEF Intact
  <2>7. CASE NavFull
    <3>1. /\ Writing /\ UNCHANGED <<dir, map, data>> /\ pc' = "idle"
          /\ lost' = (lost \/ op.fresh) /\ ~lost /\ op.fresh \in BOOLEAN
      BY <2>7 DEF NavFull, Navigating, Writing, Intact, StoreInv, DiskInv, TypeOK, Ops
    <3>2. lost' = op.fresh
      BY <3>1
    <3>3. QED
      BY <3>1, <3>2, StoreCutShort DEF Store!Next
  <2>8. CASE WriteData
    BY <2>8, StoreAppear DEF Store!Next
  <2>9. CASE SaveMap
    BY <2>9, StoreReturn DEF Store!Next
  <2>10. CASE FormatMapBlock
    BY <2>10, StoreWipe DEF Store!Next
  <2>11. CASE Crash
    BY <2>11, StoreCrash DEF Store!Next
  <2>12. ~(\E n \in Names : WriteOnLostMap(n)) /\ ~Ended
    BY DEF WriteOnLostMap, Ended, StoreInv, OwnInv, Intact
  <2>13. QED
    BY <2>1, <2>2, <2>3, <2>4, <2>5, <2>6, <2>7, <2>8, <2>9, <2>10, <2>11, <2>12
       DEF Next, Request, WriteStep, Format
<1>4. QED
  BY <1>1, <1>2, <1>3

\* A freshly formatted disk is a store without files.
LEMMA StoreInit == Init => Store!Init
<1> SUFFICES ASSUME Init PROVE Store!Init
  OBVIOUS
<1>1. lost = FALSE /\ pc = "idle" /\ dir = EmptyDir
  BY DEF Init
<1>2. FilesOnDisk = [n \in Names |-> NoFile]
  BY <1>1, ConstantTypes DEF FilesOnDisk, FilesOn
<1>3. PendingWrite = NoWrite /\ (lost \/ HalfFormatted) = FALSE
  BY <1>1 DEF PendingWrite, Writing, HalfFormatted
<1>4. QED
  BY <1>2, <1>3 DEF Store!Init

\* The filesystem, written block by block, is a store of files: no request changes
\* a file that it does not name or a byte that it does not write, a write that
\* returns has written the bytes of its request up to the end of its first block,
\* at its offset, and one that fails or dies all of those or none.
THEOREM ImplementsStore == Spec => ImplementsFileStore
<1>1. Init /\ [][Next]_vars /\ []StoreInv => Store!Init /\ [][Store!Next]_(Store!vars)
  BY StoreInit, StoreStep, PTL
<1>2. Spec => []StoreInv
  BY DiskInvariant, Ownership, RefInvariant, DirAlwaysWellFormed, PTL DEF StoreInv
<1>3. QED
  BY <1>1, <1>2, PTL DEF Spec, ImplementsFileStore, Store!Spec

=============================================================================
