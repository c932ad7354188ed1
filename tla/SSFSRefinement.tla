--------------------------- MODULE SSFSRefinement ---------------------------
(***************************************************************************)
(* SSFS implements FileStore: what a caller would find on the disk if the   *)
(* process died now is a store of files, and each step of a handler is a    *)
(* step of that store or none.                                              *)
(***************************************************************************)
EXTENDS SSFSProperties, Sequences

CONSTANTS NoFile,   \* no file of that name
          NoWrite   \* no do_write in progress

\* The files and the writes that NoFile and NoWrite stand for the absence of.
Files  == [size : Nat, blocks : Seq(Blocks)]
Writes == [name : Names, k : Nat, lo : Nat, hi : Nat, v : Bytes]

ASSUME RefinementAssumption == NoFile \notin Files /\ NoWrite \notin Writes

\* do_write cuts the number of a request's block to 16 bits: no request starts so
\* far out that this makes it another block.
ASSUME OffsetsFit == \A offset \in Offsets : offset \div BLOCK_SIZE < USHRT_RANGE

-----------------------------------------------------------------------------
(* Reading a file off the disk.                                             *)

\* The blocks of the file in slot i of d, by map m.  A first block that heads the
\* free list is not the file's yet.
DiskBlocks(d, m, i) ==
    IF d[i].first = FreeHead(m) THEN <<>> ELSE BlockSeq(m, d[i].first)

\* The file in slot i of directory d, by map m, with data blocks c.
FileAt(d, m, c, i) ==
    [size   |-> d[i].size,
     blocks |-> [k \in 1 .. Len(DiskBlocks(d, m, i)) |-> c[DiskBlocks(d, m, i)[k]]]]

FilesOn(d, m, c) ==
    [n \in Names |->
        IF \E i \in Live(d) : d[i].name = n
        THEN FileAt(d, m, c, CHOOSE i \in Live(d) : d[i].name = n)
        ELSE NoFile]

\* The files on the disk, while that means anything.
FilesOnDisk == IF lost THEN [n \in Names |-> NoFile] ELSE FilesOn(dir, map, data)

-----------------------------------------------------------------------------
(* The write in progress.                                                   *)

\* Where block x is in list s.
BlockIndex(s, x) == CHOOSE k \in 1 .. Len(s) : s[k] = x

\* The blocks in memory of the file that do_write is writing.
NewBlocks == BlockSeq(bmap, dir[op.di].first)

\* The block to be written, counted from the start of the file: how far
\* do_write's loop has come plus how far it has to go.
TargetBlock == BlockIndex(NewBlocks, op.crtblk) - 1 + op.blkoffs

PendingWrite ==
    IF ~Writing \/ lost THEN NoWrite
    ELSE [name |-> dir[op.di].name,
          k    |-> TargetBlock,
          lo   |-> op.byteoffs,
          hi   |-> op.byteoffs + op.crtsize,
          v    |-> op.payload]

-----------------------------------------------------------------------------

\* A format that has written the map and not the directory has files without
\* contents.
HalfFormatted == pc = "format" /\ HasBlocks(dir) # {}

Store == INSTANCE FileStore WITH
    files <- FilesOnDisk, pending <- PendingWrite, broken <- (lost \/ HalfFormatted)

\* The filesystem of ssfs.c, written as it is block by block, is a FileStore: no
\* step changes a file that the request does not name, or a byte of it that the
\* request does not write; a do_write that returns has written the bytes of its
\* request up to the end of the block that its offset is in, there and nowhere
\* else, and made the file as long as the request asks; one that fails or dies has
\* written all of those bytes or none.
ImplementsFileStore == Store!Spec

\* A file on the disk has no block past its length: what do_write allocates is
\* covered by the size it saved first, also when it dies between the two.
LengthCoversBlocks ==
    ~lost /\ ~HalfFormatted =>
        \A i \in Live(dir) :
           Len(DiskBlocks(dir, map, i)) * BLOCK_SIZE < dir[i].size + BLOCK_SIZE

=============================================================================
