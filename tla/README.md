# A verification project for the EDAN35 operating-systems labs

The repository holds five laboratory programs. This directory holds TLA+ modules
that model them, TLC configurations that check the modules on small instances,
and proofs, checked by TLAPS, of what the modules state for every instance.

## 1. Inventory

The five programs do not interact with one another. What each is made of:

### lab4_fs: the Simple & Stupid Filesystem (C, FUSE)

| Part | State | Operations |
|---|---|---|
| `rawdisk.c` | a file descriptor with one file offset, shared by every caller | `openDisk`, `readBlock`, `writeBlock` (an `lseek` and then a `read` or `write`), `closeDisk` |
| `fs_support.c`, block map | block 0 of the disk and its cache `bmap`: 16-bit links from block to block; entry 0 heads the free list | `allocateBlock`, `freeBlock`, `load_blockmap`, `save_blockmap` |
| `fs_support.c`, directory | block 1 of the disk and its cache `bdir`: 16 entries of name, mode, size, first block | `load_directory`, `find_dir_entry`, `first_empty_dir_entry`, `save_directory` |
| `ssfs.c` | none of its own | the FUSE handlers: `do_create`, `do_write`, `do_truncate` change the disk; `do_getattr`, `do_readdir`, `do_read` read it; the others do nothing |
| `format_myfs.c` | none | writes a fresh map, then an empty directory |
| `info_myfs.c`, `rdoff.c` | none | print the map and the directory; print part of a file |

The handlers call the support functions, which share the two global caches and,
under them, the one file offset. The kernel calls the handlers, from several
threads unless the filesystem is mounted with `-s`.

What is hard: `do_write` writes up to three blocks (directory, data, map) and can
fail or die between them; nothing ever repairs the disk; the free list and the
files are lists in one table, so that one wrong link joins two of them; the last
free block; threads that share the caches and the offset.

What makes it correct: the free list is a list and returns to block 0; a file's
blocks are its own; a write reaches only blocks of its file; a directory entry
with a size has a block; names are unique; blocks are not lost; requests return.

### lab1_shell: a small shell (C)

| Part | State | Operations |
|---|---|---|
| `list.c` | a ring of heap cells | `new_list`, `insert_last`, `append`, `delete_list`, `insert_before`, `insert_after`, `length`, `remove_first`, `free_list` |
| `sh.c`, reader | `input_buf`, `input_char` | `fetch_line` |
| `sh.c`, tokenizer | `token_buf`, `token` | `gettoken` |
| `sh.c`, parser | `argv`, `argc`, `input_fd`, `output_fd` | `parse_line`, which calls `run_program` |
| `sh.c`, search path | `path_dir_list` | `init_search_path`, which uses `insert_last` |

`run_program` is empty in this commit (an assignment), so there are no child
processes to model. What is hard: pointers into two buffers that nothing checks,
rings threaded by hand, an argument vector of fixed size. What makes it correct:
`succ` and `pred` stay inverse and every cell is in one ring; tokens stay inside
`token_buf` and arguments inside `argv`; each token is the part of the line that
it should be.

### lab5_mm: a memory allocator (C) and its tester (Zig)

`ll-mm.c` keeps a list of blocks that tile the heap from `first` to the program
break: `new_block`, `find_block`, `split_block`, `merge_blocks`, `used_size`,
`unused_size`, `reset`. `malloc`, `free` and `realloc` are empty (an assignment).
What makes it correct: the blocks tile the heap exactly, sizes are aligned,
splitting and merging lose no byte, and the walks end.

### lab3_vm: a CPU with paged memory (C and Zig)

| Part | State | Operations |
|---|---|---|
| `c/machine.c`, `zig/src/main.zig` | the registers, the program counter, the virtual memory | `make_instr`, `extract_*`, `read_program`, `run`, `read_memory`, `write_memory`, `translate` |
| page replacement | `page_table`, RAM, swap | `pagefault`, `fifo_page_replace`, `second_chance_replace`, `new_swap_page` |
| `c/fac.s` | registers and a stack | the factorial of 12 |

Page replacement is an assignment: in this commit `pagefault` is not written and
`fifo_page_replace` fails its own assertion, so that the machine stops at its
first memory access. The rest is complete, twice, in two languages. What is hard:
signed constants in bit fields, one of which is also a register number; words that
are numbers and addresses; conversions and overflow, which C wraps and Zig checks.
What makes it correct: the two versions do the same with every program, or one of
them stops for a reason that can be named; `fac.s` computes a factorial at every
depth that its stack allows, and halts.

### lab2_sig

One function that dereferences a null pointer. Nothing to model.

## 2. Plan

In the order of what matters most:

1. **`BlockMap`, `SSFS`, `SSFSProperties`**: the filesystem serving one request
   at a time, with failures and crashes between block writes. *Done.*
2. **`BlockMapProofs`, `SSFSProofs`**: its safety, for every instance. *Done.*
3. **`FileStore`, `SSFSRefinement`**: what the filesystem promises, as an abstract
   specification of files with lengths and contents, and the refinement. *Done.*
4. **`SSFSThreads`**: the same handlers, one step per system call, on several
   threads that share the offset and the caches. *Done.*
5. **`ShellList`, `DataLists`**: the ring of cells, and the sequences it implements;
   a proof that `succ` and `pred` stay inverse (`ShellListProofs`). *Done.*
6. **`ShellParse`**: reader, tokenizer and parser; a proof that tokens fit
   (`ShellParseProofs`). *Done.*
7. **`BlockList`**: the allocator's primitives; a proof that the blocks tile the heap
   (`BlockListProofs`). *Done.*
8. **`FsInfo`**: the two walks of `info_myfs.c`, over the disks SSFS reaches. *Done.*
9. **`Isa`, `Machine`, `ZigMachine`, `MachineVersions`, `Factorial`**: the two
   machines, side by side, and the program they come with; a proof that they agree
   (`MachineProofs`). *Done.*
10. **`SearchPath`**: how `init_search_path` cuts `PATH`, on the list of
    `ShellList`. *Done.*
11. **`SSFSThreadsProofs`**: types for any number of threads; with one, that the
    handlers implement `SSFS`, and `StraysOnlyOnLostMap`. *Done.*
12. **`SSFSRefinementProofs`**: that each step of `SSFS` implements `FileStore`, with
    `LengthCoversBlocks`. *Done.*
13. **What `fac.s` computes** (`MachineProofs`) and **what `info_myfs` counts**
    (`SSFSProofs`), for every instance. *Done.*
14. **`ShellList` implements `DataLists`**, and `PathKept` on it (`ShellListProofs`). *Done.*

## 3. The filesystem, one request at a time

### Modules

- `BlockMap` has no variables. A map is a function from block ids to ids and
  `EOF_BLOCK`. `FormatMap`, `AllocateBlock` and `FreeBlock` are the three writers
  of the code. `Chain(m, b)` is the list that starts at `b`; it is defined without
  recursion, as what every set closed under the map's links and holding `b`
  contains, so that it has a meaning on maps with cycles and can be reasoned
  about in proofs. `Walk(m, b)` follows links one at a time and can go round;
  `BlockSeq` is the list in order. Entry 1 and the entries past `FS_NBLOCKS` are left out: nothing
  in the code gives them a meaning. `ROOTDIR_BID` is therefore in no map, and a
  step that reached it would break `TypeOK`.
- `FsLayout` has no variables either: the directory and its two scans, and the
  arithmetic of a write request, which `SSFS` and `SSFSThreads` share.
- `SSFS` has the disk (`map`, `dir`, `data`), the map in memory (`bmap`, zero
  while no `do_write` uses it, since each loads it again), and the process (`pc`,
  `op`). `do_create` and `do_truncate` change one block and are one
  action each. `do_write` is cut at each block write and at each iteration of its
  loop: `WriteBegin` (up to `save_directory`), `NavFollow`, `NavExtend` and
  `NavFull` (the loop), `WriteData`, `SaveMap`; `WriteNoSpace` is its early
  `-ENOSPC`. `Crash` can come between any two. The cached directory is not a
  variable: each handler reloads it before use, and saves every change of it that
  a later step could see.
- `lost` is a history variable. It becomes true when a file's first block is
  allocated in a map that is then dropped, by a late `-ENOSPC` or by a crash,
  after the directory was saved; or when a format dies half-way over a directory
  with files. What holds "while no allocation was lost" says exactly which
  failures the filesystem survives.
- `overwritten` says that block 0 of the disk holds file data, and `map` is then what
  was last saved there. That takes a lost allocation. If the process dies in that
  state, the next `do_write` loads the data as a map all the same (ssfs.c:192), and what
  it allocates, follows and writes depends on the bytes: `WriteOnLostMap` is that
  request, and the model ends with it (`pc = "wild"`). `FreeListSound` and
  `WriteTargetOnDisk` say what holds up to there, and no property says anything of
  what comes after.
- `SSFSProperties` states the properties, `SSFSClaims` what the comments and the
  tests say that does not hold. `MCSSFS` instantiates both for TLC.
- `FsInfo` is `info_myfs`, another program, which walks the map and the directory of
  a disk that nothing is using. It changes nothing: its statistics are operators on
  the disk, a loop is a `Walk`, and one that has not met its
  end after as many rounds as there are blocks never will (`Stops` is empty).
- `FileStore` is what a caller can rely on: files with a length and blocks of
  bytes, at most one write in progress (`pending`), and `broken`. Which bytes a write
  changes is a function of its request, `WriteOf(n, offset, size, v)`: those from the
  offset on, up to the end of the block that the offset is in. A request that goes
  past that end is a *short write*, as `do_write` cuts it there (ssfs.c:219) and
  returns its full size (ssfs.c:266-269). A write grows
  the length by the request's own size when it begins, its bytes appear in one step,
  and it returns or is cut short; a write cut short before an empty file had its first block breaks the
  store until it is formatted. Nothing of maps, links or directories is in it.
- `SSFSRefinement` maps SSFS to it: `FileAt` reads a file off the disk as a new
  process would find it, except that a file whose first block is still free on the
  disk has no blocks yet; `PendingWrite` is the `do_write` in progress, its block
  counted from the start of the file; the store is broken once an allocation was
  lost or while a format is half done. `OffsetsFit` leaves out offsets whose block
  number does not fit 16 bits: `do_write` cuts that number (ssfs.c:215), and such a write
  changes bytes that its request does not name (section 9).

### Runs

| Run | What it shows |
|---|---|
| `ssfs_safety` | Six blocks, two files, every offset up to a full disk, crashes and formats. `TypeOK`, `EntriesConsistent` and `DirWellFormed` hold whatever was lost, and so do `FreeListSound` as long as block 0 holds a map and `WriteTargetOnDisk` of every `do_write` that loads one (the model ends where one loads file data, which takes a lost allocation); `FilesOwnBlocks`, `WriteStaysInFile` and `LeakOnlyByTruncate` while nothing was lost; and until then `InfoAccounts`: the loops of `info_myfs` end between any two requests or after a crash, and what it reports missing is exactly what truncations have cut loose. |
| `ssfs_implements_store` | The refinement, with blocks of two bytes, so that a request changes part of a block, is cut at the block's end, goes past the end of the file or into a hole: a `do_write` that returns has written the bytes of its request up to the end of the block it begins in, there and nowhere else; one that fails or dies has written all of those or none; and no other file changes. `LengthCoversBlocks`: a crash leaves no block past a file's length. |
| `ssfs_disk_full` | **Violated.** A write that runs out of blocks half-way leaves the directory naming a block that is free on the disk: its chain is the free list, and block 0 is in it. |

Bounds. `FS_NBLOCKS = 6` leaves four data blocks: two files can each have two,
one can have all four and the other none, and a write can find the disk full at
its first block, its last, or between. Offsets 0 to 4 reach one block past the
disk. `BLOCK_SIZE = 1` and one payload: the safety run is about links, and bytes
within a block do not touch them. `DIR_ENTRIES = 2` lets the directory be full.
`EOF_BLOCK` and the unsigned-short range keep their values. Names are symmetric:
the slots order them.
The refinement run has three data blocks of two bytes, and one payload: what
matters is that a written byte differs from one that was not.

That `do_write` returns, also on chains that lost allocations have closed into
cycles, is checked on `SSFSThreads` (`RequestsReturn`).

Deadlock is checked in the safety run: the system can always take a request.

### Proofs

`BlockMapProofs` proves what allocation does to lists: the free list keeps its
tail, lists apart from the free list are not touched, extending a list adds the
new block and nothing else, and the formatted map is well formed. Each proof
exhibits a closed set. The one induction, that every block of the formatted map
leads to block 0, is done with a least element (`LeastNumber`, from the library's
well-founded order on the naturals).

`SSFSProofs` proves, from `BlockMapAssumption` and `FsAssumption` alone:

- `DiskInvariant`: `TypeOK`, `EntriesConsistent`, that the map last saved and the one in
  memory have sound free lists (`MapsSound`), and that `do_write`'s block is in the map or
  an allocation was lost (`TargetInMap`) are inductive together. None is alone: the type of the map
  after an allocation needs a sound free list, the block that `do_write` starts
  from needs a consistent entry, and that one needs the head of the free list to
  be a data block. The four theorems `TypeCorrect`, `FreeListAlwaysSound`,
  `EntriesAlwaysConsistent`, `WriteTargetAlwaysOnDisk` follow.
- `DirAlwaysWellFormed`.
- `Ownership`: `OwnInv` strengthens `FilesOwnBlocks` and `WriteStaysInFile` by one
  fact: a `do_write` that allocated no first block leaves both maps, the one on
  the disk and the one in memory, owning the directory's files, so that it can
  be dropped at any point. `FilesAlwaysOwnBlocks` and `WriteAlwaysStaysInFile`
  follow.
- `LeaksOnlyByTruncate`: the action property, from one more invariant (`LeakInv`):
  the map in memory leaks nothing that the one on the disk does not, so that
  saving it loses nothing.
- `InfoAlwaysAccounts`: `InfoAccounts` of `FsInfo`, which needs no invariant of its own. It is a
  statement about two ways to count: the loops of `info_myfs` count rounds, and the lists
  are sets. A walk that comes to an end meets each block of the list once (`WalkCount`,
  from `BlockMapProofs`' lemmas on lists in order), the free list once more (`FreeCount`), and
  the lists of distinct files are apart (`FilesOwnBlocks`), so that the numbers add up
  to the blocks there are and what is missing is `Leaked`.

`SSFSRefinementProofs` proves the refinement, from these and `RefinementAssumption`
(the values that stand for no file and no write are no file and no write):

- `BlockMapProofs` has what it needs of lists in order. `Walk` is a recursive function
  of a finite domain, so that its existence (`WalkLinks`) and what a list holds
  (`ListBlocks`) come from least counterexamples, and that a list of an owned file ends
  within `FS_NBLOCKS` rounds (`BlockSeqIsList`) from counting: a longer walk would
  meet a block twice and go round (`WalkRound`). Two maps that agree on a list have the same
  `BlockSeq` (`BlockSeqAgree`); an extension appends to it (`BlockSeqExtended`).
- `RefInvariant`: `RefInv` relates the two maps while `do_write` runs. It is what
  `Ownership` does not say: each map owns the directory's files, but not that they are
  the same files. The disk's list of the file that is written is a beginning of the list
  in memory, all of it unless the current block was appended (`Appends`); the other
  files have the same lists in both; a first block that was allocated heads the
  disk's free list; the target, which the loop keeps, is inside the length that was
  saved; and after `WriteData` the bytes are in the block.
- `LengthAlwaysCovers`: `LengthCoversBlocks` is inductive on top of that. `SaveMap` is the
  step that could break it: the list that it saves ends at the target.
- `ImplementsStore`: `ImplementsFileStore`, one lemma per action. `WriteData` maps to `Appear` if
  the file on the disk has the block, and to a stutter otherwise; then `SaveMap` maps to
  a `Return` whose bytes appear with it. A failed or interrupted write maps to `CutShort`,
  which breaks the store exactly when the write allocated a first block, since then,
  and only then, the file has no block on the disk.

Both were checked by `ssfs_implements_store` first, and `RefInv` on the same instance.
Every property that the passing runs of this section check is proved.

## 4. The filesystem on several threads

`make test` and the Makefile's own hint mount without `-s`, so that `fuse_main`
runs handlers on several threads. `SSFSThreads` has the same disk, and what the
threads share: `bdir`, `bmap`, and `fpos`, the file offset of `disk_fd`. A thread
(`th[t]`) has a request, a phase, and the locals of its handler. `Seek` is the
`lseek` of `readBlock` and `writeBlock`, and one action per caller is the transfer
that follows it (`LoadDir`, `SaveDir`, `LoadMap`, `SaveMap`, `ReadData`, `WriteData`,
`ReadRoot`, `ReadFile`); what a handler does in memory between two system calls is
one action per branch. `Admits` is external: the locks of Linux's FUSE client,
which send one write or truncation of a file at a time, and one creation. In the
same way as `CreateSaves` is violated, `do_write` can read its first block back as
`EOF_BLOCK` (`wild = "index"`).

The model ends (`wild`) at a transfer that follows another thread's seek, at a map
read from a block of file data, and where `EOF_BLOCK` is an index: what the code
does next is no longer a matter of blocks.

| Run | What it shows |
|---|---|
| `threads_one` | With one thread, `SSFSThreads` implements `SSFS` (`ImplementsSSFS`): a handler is atomic up to its block writes, and the caches and the offset that one request leaves, also a failed one, never show in the next. `StraysOnlyOnLostMap`: no transfer misses and `EOF_BLOCK` is never followed. So what is said in section 3 is true of the code under `-s`. |
| `threads_two` | Two threads that create and write two files on two data blocks, with crashes: every request returns, though the other thread reloads and extends the map that the loop of `do_write` follows, and though the list may have become a cycle. |
| `threads_offset` | **Violated.** Two requests of any kind: one seeks between the other's seek and its transfer. |
| `threads_lost_create` | **Violated**, without a misdirected transfer: a lookup reloads `bdir` between `do_create`'s change and its save, and the file is not there afterwards. |

Bounds. One thread: three data blocks, two files, offsets that fill the disk, all
six kinds of request. Two threads: two data blocks for two files, and writes that
follow five links. No list has that many, so that a write extends its file until it
has the last block or the other writer does, and fails; that loses allocations, and
closes lists into cycles of at most three links through block 0, which later writes
go round before they write. (Writes that fit are in `threads_one`.) Requests are of
the kinds that change the map (`Kinds`), without symmetry. Fairness: weak fairness of every thread's handler,
which waits for nothing; none of requests and crashes.

A handler's run in memory is one step here, where the build may interleave two
threads at every access. The violations need no finer steps; `RequestsReturn` does
not depend on them, since each iteration counts `blkoffs` down whatever it reads.
No other property is claimed of several threads.

### Proofs

`SSFSThreadsProofs` has, from `BlockMapAssumption` and `FsAssumption`:

- `ThreadsTypeCorrect`: `TypeOK`, for any set of threads. It is inductive as it is.
- `OneThreadInStep`, for one thread: `InStep` says what each phase of a handler may
  rely on. The offset is at the block that the next transfer is for (`SeekHolds`);
  `bdir` equals the directory on the disk from `LoadDir` on, except between a change
  and its save (`DirIsCached`, `SaveIsPending`); the entry that will be created is
  new (`NameIsNew`); `bmap` is loaded and the entry begun before the loop
  (`WriteIsReady`); the block read is the one on the disk (`BlockIsRead`); a thread at
  rest has no locals (`IdleIsClean`). With two threads each of these is false, and
  `threads_offset` and `threads_lost_create` are two ways to break them.
- `OneThreadIsSerial`: one thread implements `SSFS` (`ImplementsSSFS`), step by step.
  Seeks, loads and reads map to stutters; `SaveDir` maps to `Create`, `Truncate` or
  `WriteBegin`, and the transfers of `do_write` to its later steps. It needs
  `InStep`, and one offset, since in `SSFS` a truncation names one.
- `OneThreadStrays`: `StraysOnlyOnLostMap`, on the same hypotheses. That
  `EOF_BLOCK` is never an index is `EntriesConsistent` of `SSFS`: the refinement hands
  `DiskInvariant` over, and it need not be proved again on the larger state.

`TypeOK` is an invariant of the run `threads_one`, where the refinement and
`StraysOnlyOnLostMap` were checked before they were proved. `RequestsReturn` stays
with TLC: it is liveness.

## 5. The shell

### The list

`ShellList` has a heap of cells (`heap.succ`, `heap.pred`, `heap.data`, NULL in a
cell that is free), the callers' pointers (`list`) and the lists that are being
freed. `NewList`, `AppendRing` and `DeleteList` are `new_list`, `append` and
`delete_list`: they make the assignments of the code in its order, since the cells
they name may be the same. The functions of `list.h` are actions; `free_list` is
one action per cell, so that other calls come between. A caller has one pointer
to a list and gives it up with `free_list`. `malloc` returns any free cell and does
not fail (`new_list` does not look whether it did).

`DataLists` is what a caller is promised: sequences. `insert_before` puts its datum
last, because the pointer does not move and the list is a ring; that is what the
code does, and nothing in the repository calls it.

### The search path

`SearchPath` is the list's caller in this shell. `init_search_path` runs once, one
action per round of its loop (`CutDir`, `LastDir`), on the list of `ShellList` and a
copy of `PATH` (`buf`) in which each cut writes a null. Data are then indices of that
copy. `EmptyPath` is a `PATH` without characters, `Unset` none at all, which crashes
in `strlen` before the check for it. Nothing reads the list later in this commit, so
that any other use of `list.h` (`Callers`) is an alternative to it and not its
successor. `PathSpec` is the specification of the run below, and it
implements `ShellList`'s.

### The reader, the tokenizer and the parser

`ShellParse` reads a line one `getchar` at a time, then takes one token per step.
Characters are the nine kinds that the code tells apart, and `stale`, which stands
for whatever an earlier line left in a buffer. `GetToken(T)` is `gettoken` when it
returns a type in `T`; `Word`, `Redirect`, `InputFile`, `OutputFile`, `NoFileName`,
`Separator` and `LineEnd` are the cases of `parse_line`. The model ends (`overrun`)
when a pointer goes past `argv`. `source` is a history variable.

### Runs

| Run | What it shows |
|---|---|
| `shell_list` | Two lists on four cells of two data, in any order of calls: `LinksInverse`, `ListsAllocated`, `CellsInOneList` (no ring is split, merged with another, or lost), `ImplementsDataLists`; `FreeReturns`. And one list used by `init_search_path` on every `PATH` of up to three characters, which can have four directories: `PathKept`, at each round the directories in the list and what is still to be cut are `PATH`. |
| `shell_parse` | `InsideLine`: the tokenizer, which has no bound, is always stopped by this line's newline. `TokensFit`: `token_buf` is never exceeded, and why: a token never takes more than twice the characters it consumes. `ArgumentsAreTokens`. `ParseReturns`. |
| `shell_args` | **Violated.** A command of `MAX_ARG + 1` words fills `argv`, and the token that ends it is already stored past its end. |

Bounds. Four cells: rings of one and two, where the names of an assignment
coincide, and longer ones, and two lists that compete for freed cells. The parser:
`MAXBUF = 6`, so that lines of up to four characters fit, every such line and
longer ones that do not, one after the other; `MAX_ARG = 2`; one kind of character
(`&`) that the code treats as it does `|` is left out. Fairness: weak fairness of
`parse_line`, and of each `free_list`, which wait for nothing; none of the user.
`shell_parse` does not check deadlock: it ends at the end of input and at an overrun;
nor does `shell_list`, since `init_search_path` ends.

### Proofs

`ShellParseProofs`: `AlwaysInsideLine`, `TokensAlwaysFit` and `ParserTypeCorrect`, for
all sizes of the buffers and all inputs. The invariant has `TypeOK`, both properties,
and that `fetch_line` starts at the beginning of the line (`FromTheStart`);
`TokensFit` needs `InsideLine`, since the bound counts what was consumed of this line.
`ArgumentsAlwaysTokens` needs one fact more (`ArgumentsHeld`): the string at an
argument, with its null, is behind `token` already, where no later token is stored.

`ShellListProofs`: `LinksAlwaysInverse`, `ListsAlwaysAllocated`, `CellsAlwaysInOneList`
and `ListTypeCorrect`, for any heap and any number of lists. They are not inductive
without more: freeing a cell of one list leaves another's pointer alone only because
their rings are apart. `RingsApart` says so without following links: some
assignment of the cells to lists is constant along `succ` and right about the
pointers. The lemmas `NewListLinks`, `AppendLinks` and `DeleteLinks` say what the
three primitives do to any heap that is made of rings. `CellsInOneList` needs that
a ring is whole, which is a statement about sets: one that is closed under `succ` and
holds a cell of a list holds all of them. `PathListSound` carries all of it over to `init_search_path`, for every `PATH`:
each of its rounds is a step of `ShellList` (`PathSteps`), because its scan stays inside
the copy (`PathInv`).

`ListsImplement`: `ShellList` implements `DataLists`. The mapping is `Contents`, a walk
along `succ` from the caller's pointer. The invariant, `RingsHeld`, is that each list has a
sequence of its cells, each followed by the next and the last by the first, without
a cell in two of them (`InRings`); the sequences are not in the state, and
`RingsApart` alone does not say in which order a walk comes by. `WalkIs` says that a walk
visits that sequence, from counting: it is cut off after as many steps as there are
cells, and a ring has no more. Then the heap is left behind. What `append` and
`delete_list` do to the links (`AppendInserts`, `DeleteDeletes`) is one of four things they
do to a sequence (`RingInsertedLast`, `RingInsertedAfter`, `RingWithoutFirst`,
`RingWithoutSecond`), the first two with the arguments of `append` in either order, and a list
whose cells are not touched keeps its own (`OneChanges`). `HeapAssumption` says that
the heap is finite, without which the cut-off means nothing.

`PathAlwaysKept`: `PathKept`, for a `PATH` of any length. `KeptInv` says of the copy that what
is behind `dir_start` is still `PATH`, that a null is before it, and that the strings of
the pointers in the list, a colon behind each, are `PATH` up to there. It needs
`ListsImplement`'s lemmas, since a round appends to what the list holds
(`InsertDirMakes`), and that the null it writes cuts none of the earlier
strings (`StringStays`). `FlattenAppend`, one more string behind the others, is a statement
about a recursive function of the library, by least counterexamples again.
`EmptyString`, the literal `""` that is put into an empty list, is no pointer into the copy
(`PathAssumption`).

Only model-checked: `FreeReturns`, and `ParseReturns` of the parser, which are liveness.

## 6. The allocator's blocks

`BlockList` has the list's head, the program break, and the two fields of every
header (`next`, `is_free`), which stay in the heap when a block is merged away. A
block's `next` is an address, as in the code, and a list ends at exactly the break.
`Blocks`, the blocks that a walk visits, is defined without recursion, like `Chain`
in section 3. `Allocate` is `new_block` (with the first block becoming the head),
`SplitHeaders` `split_block`, `FindBlock` `find_block`, `MergeBlocks` and `Merge`
`merge_blocks`, `Reset` `reset`, whose `sbrk` may fail. `malloc`, `free` and
`realloc` are empty in this commit: `Take`, `Shrink` and `Release` are external, and
use the primitives as their comments ask (a size smaller than the block's, a block
of the list). `split_block` leaves the mark of its block alone: it is `Take`, the caller, that
marks it in use. `live` is a history variable: who holds what.

Run `block_list`: five headers' worth of heap, where blocks have none, one or two
units of data, and rests of a split that are just large enough or just not.
`Tiled`, `AllocationsKept` (each pointer handed out is found again, in use, with its
size), `MergesAll`; `MergeEnds` under weak fairness of the loop. It does not check
deadlock: a heap whose break is at its limit when `reset` fails is of no use.

`BlockListProofs` proves `HeapTypeCorrect` and `AlwaysTiled` for every alignment, header size and heap,
from `SizesFit`: no size asked for makes `new_block`'s sums wrap or look negative to
`sbrk`. Without it the theorem is false: `size + META_SIZE` wraps, and `new_block`
returns a header without data, or gives back the end of the last block. The
invariant, `HeapInv`, has some set of addresses that holds the list, and
`merge_blocks`'s block, and is closed under `next`: the list itself is not
inductive, as `merge_blocks` changes it. That blocks do not overlap follows from a
least counterexample (`ListInOrder`, with `LeastNumber`).

`AllocationsAlwaysKept` and `AlwaysMergesAll` come from a second invariant (`KeptInv`),
on top of the first: `merge_blocks`'s block is one that a walk visits, and no two
blocks before it are free neighbours. What every step needs is how `Blocks`
changes: by the new block, by the rest of a split, or by the one merged away, which
is free and so nobody's.

Only model-checked: `MergeEnds`, which is liveness.

## 7. The machine

### Modules

- `Isa` is what both versions define alike: words, the instruction's fields, and which
  addresses the page table has. Widths are parameters, as numbers of values.
- `Machine` is `run` of `c/machine.c`, one action per kind of instruction, and
  `ZigMachine` that of `zig/src/main.zig`, where `Panic` is whatever the checks of a
  Debug build find. They are written apart, each from its own source: the C version
  wraps where the Zig version checks.
- `MachineVersions` starts the two with the same program and runs them in step;
  `Factorial` is `fac.s`; `MachineProperties` has the properties.

Memory. `pagefault` is not written in this commit, and the first access stops either
machine. What is modelled is the machine as it will be once it is: `mem` is a
function of virtual addresses, which is what `translate` needs of page replacement (after
`pagefault(p)`, the words of page `p` are those last written to it). An address outside
the page table is undefined behaviour in C (`stray`) and a panic in Zig.

What they start with. The C version clears register 0 and has zeros in its memory, which is
static (machine.c:65-68); its other registers hold anything. The Zig version leaves all
registers and its memory undefined (main.zig:16, 112-115), and register 0 can never be
written afterwards. So a start is a program and, for each machine on its own, what
happens to be there. Three history variables follow it: `regsApart` and `wordsApart`,
the registers and words that were different at the start and that the program has not
written since, and `guessed`, whether an instruction has used one of them
(`RegistersRead`, `WordsRead`).

### Run

`vm_versions`, with machines that run `fac.s` and every operation on its own.

- `VersionsAgree`: as long as the Zig version has not panicked, the C version is inside
  the page table and the program has not guessed, the two are at the same instruction
  with the same status, and differ at most in what was apart from the start.
- `PanicsExplained`: a panic comes with a guess, with the C version leaving the page table
  or meeting an illegal instruction, then, before or at the next fetch, or at a `seqi` of a
  number wider than 16 bits, which the Zig version cannot compare and the C version can.
- `FactorialRight`, `JumpsReturn`, `FactorialHalts`: `fac.s` on the C version. It halts
  with `n!` cut to a word and the stack as it was, never stores into itself, and each
  jump through a register goes behind a call, for every argument whose stack fits.

Bounds. Eight registers, constants of seven bits and words of 18, so that a product of
`fac.s` wraps within the arguments tried; 16 pages of four words: the program, and a
stack from 47 down that fits arguments to 10. 11 is run too: its calls
overwrite the program (`StackFits` is false of it), and 0, which never meets its end.
Each program is started with four finds of the Zig version: what the C version has, but
for other words in its memory, or for register 0, or neither; and the pattern of a Debug
build in everything.
Single operations have operands at the edges of constants and words, and one address
that the Zig version takes for 0 because `translate` cuts the page's number
(`PageNumbers`). Fairness: weak fairness of `Next`; the loop of `run` waits for nothing.
Deadlock is not checked: machines stop.

### Proofs

`MachineProofs` proves `MachineTypeCorrect`, `VersionsAlwaysAgree` and
`PanicsAlwaysExplained`, for every width, page table, program and start, from
`IsaAssumption` and `StartsAssumption`. The one assumption that is not a matter of types
is that twice the addresses and a constant stay below a word: no small sum wraps to
an address, which 32-bit words and a table of 2048 pages give with room to spare.
`VersionsAgree` with `TypeOK` is inductive. `NoGuess` says that an instruction that guesses
nothing reads the same in both machines, and `ReadsAndWrites` what it reads and writes.
`SameStep` compares the two versions action by action, on such an instruction; where their arithmetic differs (`IsInt`, `CanIncrement`,
`JumpsTo`), the numbers at which it does are either panics or strays.
`PanicsExplained` follows from `VersionsAgree`: `PanicStep` goes through what a Debug build checks; `Residues` says that a word that is
negative as a number, or was, is no address.

`FactorialAlwaysRight` and `JumpsAlwaysReturn` are about the runs of one program, for every
argument, stack and width. The invariant, `FacInv`, is an assertion at each of the 26
instructions, of three kinds: `Before` and `After` in main, and `InFac`, some call of `fac`
for `k`, `n - k` calls deep, that has not returned. That call is `Entering`, at its
`LastCall`, `Recurring` or `Returning`, and `SavedAbove` holds what the calls above it and main
have saved: `n - k` return addresses and parameters at addresses that only `k` and `n`
determine (`StackAt`). Depth is thus a number and not a structure, and no induction over the
recursion is needed: `FacReturn` steps from `k` to `k + 1`, or to main. `FacFetch` says which
instruction is executed at each address, as the program in memory is the one that was read;
`Executed` what the C version does with an instruction of given fields, and
`ExecutedSmall` that no number up to the end of memory is cut. The frames stay apart from each other
and from the program by `FrameNumbers`: this is where `StackFits` is needed. That the
product is the factorial is `FacWordIs`, from the recursion of `FacWord`, which has to be shown to
define it (a least counterexample); `ProductIs` says that the product computed in two halves,
in the model, is the low word of the product. `FactorialAssumption` says that the top of the stack
fits the constant of the instruction that loads it, and memory, as 1024 does.
The run checked `FacInv` before it was proved.

Only model-checked: `FactorialHalts`, which is liveness.

## 8. What is proved, and what is only model-checked

Every invariant, action property and refinement that a passing run checks is also a
theorem, for every value of the constants that the assumptions admit. Left to TLC
are the five liveness properties (`RequestsReturn`, `FreeReturns`, `ParseReturns`,
`MergeEnds`, `FactorialHalts`): the proof system has no rules for fairness and
`ENABLED`. They hold for the instances in the runs and are not claimed beyond them.
Where the models have recursive functions (`Walk`, `BlockSeq`, `FacWord`,
`FlattenSeq`), what is proved of them comes from least counterexamples.

## 9. What is not modelled, and why

- Handlers that change nothing, attributes and time stamps: no state.
- What `do_read` returns: in this commit the first block whatever the offset, which
  its own comment announces.
- I/O errors of the disk file: `readBlock` and `writeBlock` return them and no
  handler looks.
- Stubs (`do_rename`, `do_unlink`, `run_program`, `malloc`, `free`, `realloc`, page
  replacement in both versions of the machine): there is no behaviour to model, and
  their comments say so. `calloc` is a check of a product before `malloc`.
- `rdoff`, which prints part of a file through the mounted filesystem; the tester of
  lab5_mm, which loads an allocator and times it; lab2_sig; tests and builds: input and
  output, without state of their own.

Where the models or their writing show the code to differ from what is said of it,
and no run is spent on it:

- `do_write` cuts a request at the end of the block that its offset is in (ssfs.c:219) and
  returns the full size, so that a caller takes for written what was not; its own comments
  announce both (ssfs.c:171-174, 266-269). `FileStore` promises the bytes that are written.
- `do_write` keeps its offset in blocks in 16 bits (ssfs.c:215): a write 65536 blocks
  into a file goes to its first block. `BlkOffs` cuts as the code does, and `OffsetsFit` leaves
  such offsets out of the refinement.
- `do_truncate` sets every length to 0, whatever it is asked for (ssfs.c:316;
  fs-test.py:88 expects the length).
- A semicolon starts an argument (sh.c:125), though the type `SEMICOLON` exists and
  shell-test.py:82 uses one.
- Without `PATH` the shell crashes in `strlen` (sh.c:273), ahead of the check (sh.c:283) that
  means to treat it as an empty one.
- The registers of the Zig machine are undefined (main.zig:16): a Debug build fills them
  with `0xAA`, so that `fac.s`, which adds to register 0, starts with a wrong stack
  pointer there and panics at its first store (a guess, in `vm_versions`).
- `new_swap_page` numbers swap pages from 0 in C and from 1 in Zig (main.zig:133), where the
  last one is outside the swap. Nothing calls it yet.
- `make_instr` cuts an operand that does not fit its field in C, and the Zig version
  refuses it; `Lines` are the ones that both read.
