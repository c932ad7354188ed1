------------------------------ MODULE ShellList ------------------------------
(***************************************************************************)
(* The lists of lab1_shell (list.c): rings of cells on the heap, threaded   *)
(* by succ and pred.  A caller keeps a pointer to the first cell, or NULL.  *)
(*                                                                          *)
(* Each operator below makes the assignments of its function in the         *)
(* function's order, because the cells that they name may be the same.      *)
(***************************************************************************)
EXTENDS Naturals

CONSTANTS Cells, \* what malloc can return
          NULL,
          Lists, \* the variables in which callers keep lists
          Data   \* what they put in them

ASSUME ListAssumption == NULL \notin Cells /\ Lists # {}

VARIABLES
    heap,   \* the cells: three functions, NULL in a cell that is not allocated
    list,   \* the callers' pointers
    freeing \* the lists in whose free_list the program is

vars == <<heap, list, freeing>>

Heaps == [succ : [Cells -> Cells \cup {NULL}],
          pred : [Cells -> Cells \cup {NULL}],
          data : [Cells -> Data \cup {NULL}]]

Allocated(h) == {c \in Cells : h.succ[c] # NULL}

TypeOK ==
    /\ heap \in Heaps
    /\ list \in [Lists -> Cells \cup {NULL}]
    /\ freeing \in SUBSET {l \in Lists : list[l] # NULL}

-----------------------------------------------------------------------------
(* The functions of list.c.                                                 *)

\* new_list: p is a ring of its own.
NewList(h, p, d) ==
    [succ |-> [h.succ EXCEPT ![p] = p],
     pred |-> [h.pred EXCEPT ![p] = p],
     data |-> [h.data EXCEPT ![p] = d]]

\* Mutant of AppendRing: the back pointers are exchanged through the new link.
AppendRingPredLate(h, a, b) ==
    LET s1 == [h.succ EXCEPT ![h.pred[a]] = b]
        s2 == [s1 EXCEPT ![h.pred[b]] = a]
        p1 == [h.pred EXCEPT ![a] = h.pred[b]]
        p2 == [p1 EXCEPT ![b] = p1[a]]
    IN  [succ |-> s2, pred |-> p2, data |-> h.data]

\* append, and the same lines in insert_last: the ring of b is cut open before
\* b and put before a.
AppendRing(h, a, b) ==
    LET s1  == [h.succ EXCEPT ![h.pred[a]] = b]
        s2  == [s1 EXCEPT ![h.pred[b]] = a]
        tmp == h.pred[a]
        p1  == [h.pred EXCEPT ![a] = h.pred[b]]
        p2  == [p1 EXCEPT ![b] = tmp]
    IN  [succ |-> s2, pred |-> p2, data |-> h.data]

\* delete_list: the neighbours of p are joined, and p is freed.
DeleteList(h, p) ==
    LET s1 == [h.succ EXCEPT ![h.pred[p]] = h.succ[p]]
        p1 == [h.pred EXCEPT ![s1[p]] = h.pred[p]]
    IN  [succ |-> [s1 EXCEPT ![p] = NULL],
         pred |-> [p1 EXCEPT ![p] = NULL],
         data |-> [h.data EXCEPT ![p] = NULL]]

-----------------------------------------------------------------------------
(* What callers do.                                                         *)

\* A list that the program may use, and a cell that malloc returns.
Usable(l) == l \notin freeing
Fresh(p)  == p \in Cells \ Allocated(heap)

\* Each insertion into no list starts one.
Start(l, d) ==
    \E p \in Cells :
        /\ Usable(l) /\ Fresh(p) /\ list[l] = NULL
        /\ heap' = NewList(heap, p, d)
        /\ list' = [list EXCEPT ![l] = p]
        /\ UNCHANGED freeing

InsertLast(l, d) ==
    \E p \in Cells :
        /\ Usable(l) /\ Fresh(p) /\ list[l] # NULL
        /\ heap' = AppendRing(NewList(heap, p, d), list[l], p)
        /\ UNCHANGED <<list, freeing>>

\* The list is put behind the new cell; the caller's pointer stays.
InsertBefore(l, d) ==
    \E p \in Cells :
        /\ Usable(l) /\ Fresh(p) /\ list[l] # NULL
        /\ heap' = AppendRing(NewList(heap, p, d), p, list[l])
        /\ UNCHANGED <<list, freeing>>

\* The new cell is put before the second one.
InsertAfter(l, d) ==
    \E p \in Cells :
        /\ Usable(l) /\ Fresh(p) /\ list[l] # NULL
        /\ LET h == NewList(heap, p, d)
           IN  heap' = AppendRing(h, h.succ[list[l]], p)
        /\ UNCHANGED <<list, freeing>>

\* Mutant of RemoveFirst: the last cell of a list leaves a dangling pointer.
RemoveFirstDangling(l) ==
    /\ Usable(l) /\ list[l] # NULL
    /\ list' = [list EXCEPT ![l] = heap.succ[list[l]]]
    /\ heap' = DeleteList(heap, list[l])
    /\ UNCHANGED freeing

RemoveFirst(l) ==
    /\ Usable(l) /\ list[l] # NULL
    /\ list' = [list EXCEPT ![l] = IF list[l] = heap.succ[list[l]] THEN NULL
                                   ELSE heap.succ[list[l]]]
    /\ heap' = DeleteList(heap, list[l])
    /\ UNCHANGED freeing

\* Mutant of StartFree: no list is freed, too.
StartFreeNull(l) ==
    /\ Usable(l)
    /\ freeing' = freeing \cup {l}
    /\ UNCHANGED <<heap, list>>

\* free_list, one action per cell.
StartFree(l) ==
    /\ Usable(l) /\ list[l] # NULL
    /\ freeing' = freeing \cup {l}
    /\ UNCHANGED <<heap, list>>

\* Mutant of FreeNext: the loop walks the ring and frees nothing.
FreeNextWalks(l) ==
    /\ l \in freeing
    /\ list[l] # heap.succ[list[l]]
    /\ list' = [list EXCEPT ![l] = heap.succ[list[l]]]
    /\ UNCHANGED <<heap, freeing>>

\* Mutant of FreeNext: the loop frees the list's own cell.
FreeNextHead(l) ==
    /\ l \in freeing
    /\ list[l] # heap.succ[list[l]]
    /\ heap' = DeleteList(heap, list[l])
    /\ UNCHANGED <<list, freeing>>

FreeNext(l) ==
    /\ l \in freeing
    /\ list[l] # heap.succ[list[l]]
    /\ heap' = DeleteList(heap, heap.succ[list[l]])
    /\ UNCHANGED <<list, freeing>>

FreeLast(l) ==
    /\ l \in freeing
    /\ list[l] = heap.succ[list[l]]
    /\ heap' = DeleteList(heap, list[l])
    /\ list' = [list EXCEPT ![l] = NULL]
    /\ freeing' = freeing \ {l}

-----------------------------------------------------------------------------

\* No list yet, as init_search_path begins.
Init ==
    /\ heap = [succ |-> [c \in Cells |-> NULL],
               pred |-> [c \in Cells |-> NULL],
               data |-> [c \in Cells |-> NULL]]
    /\ list = [l \in Lists |-> NULL]
    /\ freeing = {}

Insert(l, d) == Start(l, d) \/ InsertLast(l, d) \/ InsertBefore(l, d) \/ InsertAfter(l, d)
Remove(l)    == RemoveFirst(l) \/ StartFree(l) \/ FreeNext(l) \/ FreeLast(l)

Next == \E l \in Lists : Remove(l) \/ \E d \in Data : Insert(l, d)

Spec == Init /\ [][Next]_vars

\* free_list runs on once it is called.
FairSpec == Spec /\ \A l \in Lists : WF_vars(FreeNext(l) \/ FreeLast(l))

=============================================================================
