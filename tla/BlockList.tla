------------------------------ MODULE BlockList ------------------------------
(***************************************************************************)
(* The list of blocks under the allocator of lab5_mm (ll-mm.c).             *)
(*                                                                          *)
(* A block is a header and the data behind it.  The headers are in the heap *)
(* itself, at the addresses of the blocks, and a header that no block has   *)
(* any more stays where it is.  malloc, free and realloc are an assignment  *)
(* and empty in this commit: Allocate, Take, Shrink and Release are what    *)
(* the comments of the file say that they use the primitives for, with the  *)
(* preconditions that these state.                                          *)
(***************************************************************************)
EXTENDS Integers

CONSTANTS
    ALIGNMENT, \* of blocks and of their data (16 on a 64-bit machine)
    META_SIZE, \* bytes in a header (16)
    Start,     \* the program break at first
    Limit,     \* the highest break that the system allows
    SIZE_MAX,  \* the largest size_t
    Sizes,     \* the sizes that callers ask for
    NONE       \* no allocation

NULL == 0

ASSUME BlockListAssumption ==
    /\ ALIGNMENT \in Nat \ {0}
    /\ META_SIZE \in Nat \ {0} /\ META_SIZE % ALIGNMENT = 0
    /\ Start \in Nat \ {0} /\ Start % ALIGNMENT = 0
    /\ Limit \in Nat /\ Start <= Limit
    /\ SIZE_MAX \in Nat
    /\ Sizes \in SUBSET (0 .. SIZE_MAX)
    /\ NONE \notin Sizes

VARIABLES
    first,   \* the head of the list, or NULL
    brk,     \* the program break
    next,    \* in the header at an address: where the next block is
    is_free, \* in the header at an address
    pc,      \* whether merge_blocks runs
    pb,      \* its block
    from,    \* history: the block that it began at
    live     \* history: what callers hold, the size asked for by block

vars == <<first, brk, next, is_free, pc, pb, from, live>>

merging == <<pc, pb, from>>

Addrs == {a \in Start .. Limit : a % ALIGNMENT = 0}

TypeOK ==
    /\ first \in Addrs \cup {NULL}
    /\ brk \in Addrs
    /\ next \in [Addrs -> Addrs \cup {NULL}]
    /\ is_free \in [Addrs -> BOOLEAN]
    /\ pc \in {"idle", "merge"}
    /\ pb \in Addrs \cup {NULL} /\ from \in Addrs \cup {NULL}
    /\ live \in [Addrs -> Sizes \cup {NONE}]

-----------------------------------------------------------------------------
(* Sizes.                                                                   *)

\* Arithmetic of size_t, and the same bits as a signed number.
Wrap(n)   == n % (SIZE_MAX + 1)
Signed(n) == IF 2 * n > SIZE_MAX THEN n - (SIZE_MAX + 1) ELSE n

\* Mutant of AlignedSize: sizes are not rounded.
AlignedSizeExact(sz) == sz

\* aligned_size
AlignedSize(sz) == LET up == Wrap(sz + ALIGNMENT - 1) IN up - (up % ALIGNMENT)

\* What a block of size bytes takes, in new_block and split_block.
BlockSize(size) == AlignedSize(Wrap(size + META_SIZE))

\* block_data_size
DataSize(b) == next[b] - b - META_SIZE

-----------------------------------------------------------------------------
(* The list.                                                                *)

\* The loops "for (pb = first; pb != sbrk(0); pb = pb->next)" visit what every set
\* has that holds first and, with a block, the next one.
Closed(f, nx, end) ==
    {S \in SUBSET Addrs : /\ f \notin {NULL, end} => f \in S
                          /\ \A c \in S : nx[c] # end => nx[c] \in S}
InAll(F) == {b \in Addrs : \A S \in F : b \in S}
Blocks   == InAll(Closed(first, next, brk))

\* find_block: a block, or NULL.
FindBlock(ptr) == IF ptr - META_SIZE \in Blocks THEN ptr - META_SIZE ELSE NULL

\* Mutant of SplitHeaders: the second block starts where the data ends.
SplitHeadersUnaligned(b, size, flags) ==
    LET at == b + META_SIZE + size
    IN  IF DataSize(b) - BlockSize(size) >= 0
        THEN /\ next' = [next EXCEPT ![at] = next[b], ![b] = at]
             /\ is_free' = [flags EXCEPT ![at] = TRUE]
        ELSE is_free' = flags /\ UNCHANGED next

\* split_block, in a heap where is_free is flags: the rest of block b, when a header
\* fits in it, becomes a block of its own, and free.
SplitHeaders(b, size, flags) ==
    LET at == b + BlockSize(size)
    IN  IF DataSize(b) - BlockSize(size) >= 0
        THEN /\ next' = [next EXCEPT ![at] = next[b], ![b] = at]
             /\ is_free' = [flags EXCEPT ![at] = TRUE]
        ELSE is_free' = flags /\ UNCHANGED next

-----------------------------------------------------------------------------
(* What allocation functions do.  Idle: merge_blocks has returned.          *)

Idle == pc = "idle"

\* new_block at the break, when sbrk allows it; the first block heads the list.
Allocate(size) ==
    LET end == brk + Signed(BlockSize(size))
    IN  /\ Idle
        /\ end \in Start .. Limit
        /\ brk' = end
        /\ next' = [next EXCEPT ![brk] = end]
        /\ is_free' = [is_free EXCEPT ![brk] = FALSE]
        /\ first' = IF first = NULL THEN brk ELSE first
        /\ live' = [live EXCEPT ![brk] = size]
        /\ UNCHANGED merging

\* A free block that is large enough is used again, and split if it is larger.
Take(b, size) ==
    LET used == [is_free EXCEPT ![b] = FALSE]
    IN  /\ Idle /\ is_free[b] /\ size <= DataSize(b)
        /\ IF size < DataSize(b) THEN SplitHeaders(b, size, used)
           ELSE is_free' = used /\ UNCHANGED next
        /\ live' = [live EXCEPT ![b] = size]
        /\ UNCHANGED <<first, brk, merging>>

\* A block in use is split, for a caller who needs less of it.
Shrink(b, size) ==
    /\ Idle /\ live[b] # NONE /\ size < DataSize(b)
    /\ SplitHeaders(b, size, is_free)
    /\ live' = [live EXCEPT ![b] = size]
    /\ UNCHANGED <<first, brk, merging>>

\* A caller gives back the pointer that it got; its block is found and is free.
Release(b) ==
    LET found == FindBlock(b + META_SIZE)
    IN  /\ Idle /\ live[b] # NONE
        /\ found # NULL
        /\ is_free' = [is_free EXCEPT ![found] = TRUE]
        /\ live' = [live EXCEPT ![b] = NONE]
        /\ UNCHANGED <<first, brk, next, merging>>

-----------------------------------------------------------------------------
(* merge_blocks, one action per iteration.                                  *)

MergeBlocks(b) ==
    /\ Idle /\ b \in Blocks
    /\ pc' = "merge" /\ pb' = b /\ from' = b
    /\ UNCHANGED <<first, brk, next, is_free, live>>

\* Mutant of MergeNext: the next block may be in use.
MergeNextUsed ==
    /\ pc = "merge" /\ next[pb] # brk
    /\ is_free[pb]
    /\ next' = [next EXCEPT ![pb] = next[next[pb]]]
    /\ UNCHANGED <<first, brk, is_free, live, merging>>

\* Mutant of MergeNext: it goes on to the block after.
MergeNextOnce ==
    /\ pc = "merge" /\ next[pb] # brk
    /\ is_free[pb] /\ is_free[next[pb]]
    /\ next' = [next EXCEPT ![pb] = next[next[pb]]]
    /\ IF next[next[pb]] = brk THEN pc' = "idle" /\ pb' = NULL /\ from' = NULL
       ELSE pb' = next[next[pb]] /\ UNCHANGED <<pc, from>>
    /\ UNCHANGED <<first, brk, is_free, live>>

MergeNext ==
    /\ pc = "merge" /\ next[pb] # brk
    /\ is_free[pb] /\ is_free[next[pb]]
    /\ next' = [next EXCEPT ![pb] = next[next[pb]]]
    /\ UNCHANGED <<first, brk, is_free, live, merging>>

\* Mutant of MoveNext: it stays.
MoveNextStays ==
    /\ pc = "merge" /\ next[pb] # brk
    /\ ~(is_free[pb] /\ is_free[next[pb]])
    /\ UNCHANGED vars

MoveNext ==
    /\ pc = "merge" /\ next[pb] # brk
    /\ ~(is_free[pb] /\ is_free[next[pb]])
    /\ pb' = next[pb]
    /\ UNCHANGED <<first, brk, next, is_free, live, pc, from>>

MergeReturns ==
    /\ pc = "merge" /\ next[pb] = brk
    /\ pc' = "idle" /\ pb' = NULL /\ from' = NULL
    /\ UNCHANGED <<first, brk, next, is_free, live>>

-----------------------------------------------------------------------------

\* The heap is given back, or sbrk fails and only the list is forgotten.
Reset(end) ==
    /\ Idle /\ first # NULL
    /\ brk' = end
    /\ first' = NULL
    /\ live' = [b \in Addrs |-> NONE]
    /\ UNCHANGED <<next, is_free, merging>>

Init ==
    /\ first = NULL /\ brk = Start
    /\ next = [a \in Addrs |-> NULL] /\ is_free = [a \in Addrs |-> FALSE]
    /\ pc = "idle" /\ pb = NULL /\ from = NULL
    /\ live = [b \in Addrs |-> NONE]

Merge == MergeNext \/ MoveNext \/ MergeReturns

Next ==
    \/ \E size \in Sizes : Allocate(size) \/ \E b \in Blocks : Take(b, size) \/ Shrink(b, size)
    \/ \E b \in Addrs : Release(b) \/ MergeBlocks(b)
    \/ \E end \in {first, brk} : Reset(end)
    \/ Merge

Spec == Init /\ [][Next]_vars

\* merge_blocks waits for nothing.
FairSpec == Spec /\ WF_vars(Merge)

=============================================================================
