------------------------------- MODULE FsLayout -------------------------------
(***************************************************************************)
(* What lab4_fs keeps on its disk besides the block map (fs_support.h), the *)
(* scans of the directory (fs_support.c), and the arithmetic of a write     *)
(* request (ssfs.c).  No state.                                             *)
(***************************************************************************)
EXTENDS BlockMap

CONSTANTS BLOCK_SIZE,   \* bytes in a block (512 in rawdisk.h)
          DIR_ENTRIES,  \* DIR_ENTRIES_PER_BLOCK, 16 in fs_support.h
          Names,        \* file names that differ in their first FS_NAME_LEN characters
          NoName,       \* the name of an empty directory entry (name[0] == 0)
          Offsets,      \* offsets (in bytes) that write requests carry
          WriteSizes,   \* sizes (in bytes) that write requests carry
          Payloads,     \* what the bytes of one request may be
          Junk          \* what a byte is before any file data is written to it

ASSUME FsAssumption ==
    /\ BLOCK_SIZE \in Nat \ {0}
    /\ DIR_ENTRIES \in Nat \ {0}
    /\ NoName \notin Names
    /\ Offsets \subseteq Nat
    /\ WriteSizes \subseteq Nat \ {0}

-----------------------------------------------------------------------------
(* Data.                                                                    *)

Slots  == 0 .. (DIR_ENTRIES - 1)
Bytes  == Payloads \cup {Junk}
Blocks == [0 .. (BLOCK_SIZE - 1) -> Bytes]

Entries     == [name : Names \cup {NoName}, size : Nat, first : MapIds \cup {EOF_BLOCK}]
Directories == [Slots -> Entries]
EmptyEntry  == [name |-> NoName, size |-> 0, first |-> BLKMAP_BID]
EmptyDir    == [i \in Slots |-> EmptyEntry]

Live(d) == {i \in Slots : d[i].name # NoName}

\* The data blocks of a disk that has held no file.
JunkData == [b \in DataBlocks |-> [k \in 0 .. (BLOCK_SIZE - 1) |-> Junk]]

\* bmap when nobody uses it (static storage is zero at first, and whatever is
\* in it later is loaded again before it is read).
ZeroMap == [b \in MapIds |-> BLKMAP_BID]

-----------------------------------------------------------------------------
(* Directory lookups.                                                       *)

\* find_dir_entry: the first entry called n, if no empty entry precedes it.
FindDirEntry(d, n) ==
    {i \in Slots : /\ d[i].name = n
                   /\ \A j \in Slots : j < i => d[j].name \notin {n, NoName}}

\* Mutant of FirstEmptyDirEntry: any empty entry will do.
AnyEmptyDirEntry(d) == {i \in Slots : d[i].name = NoName}

\* first_empty_dir_entry
FirstEmptyDirEntry(d) ==
    {i \in Slots : /\ d[i].name = NoName
                   /\ \A j \in Slots : j < i => d[j].name # NoName}

-----------------------------------------------------------------------------
(* The numbers of a write request.                                          *)

\* The values of an unsigned short.
USHRT_RANGE == 65536

\* offset / BLOCK_SIZE, stored in an unsigned short.
BlkOffs(offset) == (offset \div BLOCK_SIZE) % USHRT_RANGE

ByteOffs(offset)   == offset % BLOCK_SIZE
CrtSize(size, byteoffs) ==
    IF size < BLOCK_SIZE - byteoffs THEN size ELSE BLOCK_SIZE - byteoffs

\* A request that ends at byte end extends the file of entry de.
Grows(de, end) == end > de.size

\* Mutant of NeedsFirst: a file that has blocks gets a new first one.
NeedsFirstAlways(de, end) == Grows(de, end)

\* It is the first to give the file a block.
NeedsFirst(de, end) == Grows(de, end) /\ de.first = EOF_BLOCK

\* The locals of do_write: the directory index, how many links are still to
\* be followed, which bytes of the block change and to what, and the current
\* block.  fresh says that this call allocated the first block of the file.
Ops == [di : Slots, blkoffs : Nat, byteoffs : Nat, crtsize : Nat,
        payload : Bytes, crtblk : MapIds \cup {EOF_BLOCK}, fresh : BOOLEAN]
NoOp == [di |-> 0, blkoffs |-> 0, byteoffs |-> 0, crtsize |-> 0,
         payload |-> Junk, crtblk |-> BLKMAP_BID, fresh |-> FALSE]

\* Mutant of Merged: the block is not read before it is modified.
MergedUnread(o, block) ==
    [k \in 0 .. (BLOCK_SIZE - 1) |->
        IF o.byteoffs <= k /\ k < o.byteoffs + o.crtsize THEN o.payload ELSE Junk]

\* A block after a request's bytes have been copied into it.
Merged(o, block) ==
    [k \in 0 .. (BLOCK_SIZE - 1) |->
        IF o.byteoffs <= k /\ k < o.byteoffs + o.crtsize THEN o.payload ELSE block[k]]

=============================================================================
