------------------------------ MODULE DataLists ------------------------------
(***************************************************************************)
(* What list.h of lab1_shell promises: lists of data, each a sequence.      *)
(* A list that a caller frees loses its elements one at a time.             *)
(***************************************************************************)
EXTENDS Naturals, Sequences

CONSTANTS Lists, \* the lists that callers keep
          Data   \* what they put in them

VARIABLES
    lists,  \* from lists to sequences of data
    freeing \* the lists that are being freed

vars == <<lists, freeing>>

Init == lists = [l \in Lists |-> <<>>] /\ freeing = {}

\* A call on list l that changes it to s.
Becomes(l, s) ==
    /\ l \notin freeing
    /\ lists' = [lists EXCEPT ![l] = s]
    /\ UNCHANGED freeing

InsertLast(l, d) == Becomes(l, Append(lists[l], d))

\* Before the first element, in a list that is a ring: last.
InsertBefore(l, d) == Becomes(l, Append(lists[l], d))

InsertAfter(l, d) ==
    Becomes(l, IF lists[l] = <<>> THEN <<d>>
               ELSE <<Head(lists[l]), d>> \o Tail(lists[l]))

RemoveFirst(l) == lists[l] # <<>> /\ Becomes(l, Tail(lists[l]))

StartFree(l) ==
    /\ lists[l] # <<>>
    /\ freeing' = freeing \cup {l}
    /\ UNCHANGED lists

\* The element after the first goes, or the first when it is the only one.
FreeOne(l) ==
    /\ l \in freeing
    /\ IF Len(lists[l]) > 1
       THEN /\ lists' = [lists EXCEPT ![l] = <<Head(@)>> \o Tail(Tail(@))]
            /\ UNCHANGED freeing
       ELSE /\ lists' = [lists EXCEPT ![l] = <<>>]
            /\ freeing' = freeing \ {l}

Next == \E l \in Lists :
    \/ \E d \in Data : InsertLast(l, d) \/ InsertBefore(l, d) \/ InsertAfter(l, d)
    \/ RemoveFirst(l) \/ StartFree(l) \/ FreeOne(l)

Spec == Init /\ [][Next]_vars

=============================================================================
