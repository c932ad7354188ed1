------------------------- MODULE BlockListProperties -------------------------
(***************************************************************************)
(* What the list of blocks is for: to divide the heap, and to keep what the *)
(* callers hold apart.                                                      *)
(***************************************************************************)
EXTENDS BlockList

\* The blocks tile the heap from first to the break: each has room for its header,
\* ends in the heap and where the next one starts, the last ends at the break, and
\* no two overlap.  So every loop over the list goes up through the heap, meets its
\* end "pb == sbrk(0)", and counts each byte once.
Tiled ==
    /\ first # NULL => first \in Blocks
    /\ \A b \in Blocks :
          /\ b + META_SIZE <= next[b] /\ next[b] <= brk
          /\ next[b] = brk \/ next[b] \in Blocks
          /\ \A c \in Blocks : b < c => next[b] <= c

\* A caller's block is found by its pointer, is not free, and has the bytes that
\* the caller asked for, whatever was split or merged around it.
AllocationsKept ==
    \A b \in Addrs : live[b] # NONE =>
        /\ FindBlock(b + META_SIZE) = b
        /\ ~ is_free[b]
        /\ live[b] <= DataSize(b)

\* merge_blocks merges every run of free blocks from where it began: behind it no
\* two neighbours are free.
MergesAll ==
    pc = "merge" => \A b \in Blocks :
        from <= b /\ b < pb => ~(is_free[b] /\ next[b] # brk /\ is_free[next[b]])

\* Its loop, which follows headers that it rewrites, ends.
MergeEnds == pc = "merge" ~> pc = "idle"

=============================================================================
