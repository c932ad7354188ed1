------------------------- MODULE ShellListProperties -------------------------
(***************************************************************************)
(* What the rings of list.c are: sequences, and nothing lost between them.  *)
(***************************************************************************)
EXTENDS ShellList, FiniteSets, Sequences

\* A walk is cut off when it has visited every cell.
ASSUME HeapAssumption == IsFiniteSet(Cells)

Linked(h) ==
    \A c \in Allocated(h) :
        /\ h.succ[c] \in Allocated(h) /\ h.pred[c] \in Allocated(h)
        /\ h.pred[h.succ[c]] = c /\ h.succ[h.pred[c]] = c

\* succ and pred are inverse of each other on the allocated cells, and never
\* leave them: every ring can be walked both ways, and what a pointer leads to
\* has not been freed.
LinksInverse == Linked(heap)

\* No caller's pointer dangles.
ListsAllocated == \A l \in Lists : list[l] # NULL => list[l] \in Allocated(heap)

\* length()'s walk: the cells it visits from c, in order, up to c again; cut off
\* where a ring would have come back.
Walk(c) ==
    LET n == Cardinality(Cells)
        p[k \in 1 .. (n + 1)] == IF k = 1 THEN c
                                 ELSE IF p[k - 1] \in Cells THEN heap.succ[p[k - 1]] ELSE NULL
        length == CHOOSE k \in 1 .. n :
                     /\ k = n \/ p[k + 1] \in {c, NULL}
                     /\ \A j \in 1 .. (k - 1) : p[j + 1] \notin {c, NULL}
    IN  [k \in 1 .. length |-> p[k]]

\* The cells that a list's pointer leads to: those in every set of cells that has
\* the first one, and with a cell its successor.
Closed(h, S) == \A c \in S : h.succ[c] \in S
Ring(l) ==
    IF list[l] = NULL THEN {}
    ELSE {c \in Allocated(heap) :
            \A S \in SUBSET Allocated(heap) : Closed(heap, S) /\ list[l] \in S => c \in S}

\* Every cell on the heap is in the ring of exactly one list: joining and cutting
\* rings never splits one, merges two lists, or drops a cell that nobody can free.
CellsInOneList ==
    /\ Allocated(heap) = UNION {Ring(l) : l \in Lists}
    /\ \A l, m \in Lists : l # m => Ring(l) \cap Ring(m) = {}

Contents ==
    [l \in Lists |-> IF list[l] = NULL THEN <<>>
                     ELSE [k \in DOMAIN Walk(list[l]) |-> heap.data[Walk(list[l])[k]]]]

Abstract == INSTANCE DataLists WITH lists <- Contents

\* What a caller finds from its pointer on is the sequence that its calls build,
\* and no call on one list changes another.
ImplementsDataLists == Abstract!Spec

\* free_list's loop, which waits for the first cell to be its own successor, ends.
FreeReturns == \A l \in Lists : l \in freeing ~> l \notin freeing

=============================================================================
