---------------------------- MODULE ShellListProofs ----------------------------
(***************************************************************************)
(* Proofs, for every heap and any number of lists, that the rings of list.c *)
(* stay rings, one for each list, that no caller is left with a freed cell, *)
(* that no cell is lost, that the rings in order are the sequences list.h   *)
(* promises, and that init_search_path loses nothing of PATH.               *)
(***************************************************************************)
EXTENDS SearchPath, WellFoundedInduction, FiniteSetTheorems, SequenceTheorems, TLAPS

\* Every set of natural numbers that is not empty has a least element.
LEMMA LeastNumber ==
    ASSUME NEW T \in SUBSET Nat, NEW k \in T
    PROVE  \E l \in T : \A j \in T : l <= j
<1>1. PICK l \in T : \A j \in T : <<j, l>> \notin OpToRel(<, Nat)
  BY NatLessThanWellFounded, WFMin
<1>2. ASSUME NEW j \in T
      PROVE  ~(j < l)
  BY <1>1 DEF OpToRel
<1>3. QED
  BY <1>2

\* An assignment of the cells to lists under which no link leads from one list's
\* ring to another's, and all the cells of a list can be reached from each.
Apart(own, h) == \A c \in Allocated(h) : own[h.succ[c]] = own[c]
Whole(own, h) ==
    \A S \in SUBSET Allocated(h) : Closed(h, S) =>
        \A c \in S, d \in Allocated(h) : own[c] = own[d] => d \in S
Owners ==
    {own \in [Cells -> Lists] :
        /\ Apart(own, heap) /\ Whole(own, heap)
        /\ \A l \in Lists : list[l] # NULL => own[list[l]] = l
        /\ \A c \in Allocated(heap) : list[own[c]] # NULL}
RingsApart == Owners # {}

\* Cell c is in the ring of list l.
InRing(l, c) == \A own \in Owners : own[c] = l

ListInv == TypeOK /\ LinksInverse /\ ListsAllocated /\ RingsApart

-----------------------------------------------------------------------------
(* What the functions of list.c do to rings.                                *)

\* A new cell is a ring, and nothing else changes.
LEMMA NewListLinks ==
    ASSUME NEW h \in Heaps, NEW p \in Cells \ Allocated(h), NEW d \in Data, Linked(h)
    PROVE  /\ NewList(h, p, d) \in Heaps
           /\ Allocated(NewList(h, p, d)) = Allocated(h) \cup {p}
           /\ Linked(NewList(h, p, d))
           /\ NewList(h, p, d).succ[p] = p
           /\ \A c \in Allocated(h) : NewList(h, p, d).succ[c] = h.succ[c]
<1> DEFINE g == NewList(h, p, d)
<1>1. g \in Heaps
  BY DEF NewList, Heaps
<1>2. /\ g.succ[p] = p /\ g.pred[p] = p
      /\ \A c \in Cells \ {p} : g.succ[c] = h.succ[c] /\ g.pred[c] = h.pred[c]
  BY DEF NewList, Heaps
<1>3. Allocated(g) = Allocated(h) \cup {p}
  BY <1>2, ListAssumption DEF Allocated
<1>4. Linked(g)
  <2> SUFFICES ASSUME NEW c \in Allocated(g)
               PROVE  /\ g.succ[c] \in Allocated(g) /\ g.pred[c] \in Allocated(g)
                      /\ g.pred[g.succ[c]] = c /\ g.succ[g.pred[c]] = c
    BY DEF Linked
  <2>1. CASE c = p
    BY <1>2, <1>3, <2>1
  <2>2. CASE c # p
    <3>1. c \in Allocated(h)
      BY <1>3, <2>2
    <3>2. /\ h.succ[c] \in Allocated(h) /\ h.pred[c] \in Allocated(h)
          /\ h.pred[h.succ[c]] = c /\ h.succ[h.pred[c]] = c
      BY <3>1 DEF Linked
    <3>3. h.succ[c] \in Cells \ {p} /\ h.pred[c] \in Cells \ {p} /\ c \in Cells \ {p}
      BY <2>2, <3>1, <3>2 DEF Allocated
    <3>4. QED
      BY <1>2, <1>3, <3>2, <3>3
  <2>3. QED
    BY <2>1, <2>2
<1>5. QED
  BY <1>1, <1>2, <1>3, <1>4 DEF Allocated

\* Two rings are joined (or one is cut in two): no cell is lost or gained, and a
\* cell's new successor is one of the two cells or its old one.
LEMMA AppendLinks ==
    ASSUME NEW h \in Heaps, NEW a \in Allocated(h), NEW b \in Allocated(h), Linked(h)
    PROVE  /\ AppendRing(h, a, b) \in Heaps
           /\ Allocated(AppendRing(h, a, b)) = Allocated(h)
           /\ Linked(AppendRing(h, a, b))
           /\ \A c \in Allocated(h) :
                 AppendRing(h, a, b).succ[c] = IF c = h.pred[b] THEN a
                                               ELSE IF c = h.pred[a] THEN b ELSE h.succ[c]
<1> DEFINE g == AppendRing(h, a, b)
           s2 == [[h.succ EXCEPT ![h.pred[a]] = b] EXCEPT ![h.pred[b]] = a]
           p2 == [[h.pred EXCEPT ![a] = h.pred[b]] EXCEPT ![b] = h.pred[a]]
<1>1. g = [succ |-> s2, pred |-> p2, data |-> h.data]
  BY DEF AppendRing
<1>2. /\ h.pred[a] \in Allocated(h) /\ h.pred[b] \in Allocated(h)
      /\ h.succ[h.pred[a]] = a /\ h.succ[h.pred[b]] = b
  BY DEF Linked
<1>3. \A c \in Allocated(h) : c \in Cells /\ c # NULL
  BY ListAssumption DEF Allocated
<1>4. /\ h.succ \in [Cells -> Cells \cup {NULL}] /\ h.pred \in [Cells -> Cells \cup {NULL}]
      /\ h.data \in [Cells -> Data \cup {NULL}]
  BY DEF Heaps
<1>5. s2 \in [Cells -> Cells \cup {NULL}] /\ p2 \in [Cells -> Cells \cup {NULL}]
  BY <1>2, <1>3, <1>4
<1>6. g \in Heaps
  BY <1>1, <1>4, <1>5 DEF Heaps
<1>7. \A c \in Cells :
         /\ s2[c] = IF c = h.pred[b] THEN a ELSE IF c = h.pred[a] THEN b ELSE h.succ[c]
         /\ p2[c] = IF c = b THEN h.pred[a] ELSE IF c = a THEN h.pred[b] ELSE h.pred[c]
  BY <1>2, <1>3, <1>4
<1>8. g.succ = s2 /\ g.pred = p2
  BY <1>1
<1> HIDE DEF g, s2, p2
<1>9. Allocated(g) = Allocated(h)
  BY <1>2, <1>3, <1>7, <1>8 DEF Allocated
<1>10. Linked(g)
  <2> SUFFICES ASSUME NEW c \in Allocated(h)
               PROVE  /\ s2[c] \in Allocated(h) /\ p2[c] \in Allocated(h)
                      /\ p2[s2[c]] = c /\ s2[p2[c]] = c
    BY <1>8, <1>9 DEF Linked
  <2>1. /\ h.succ[c] \in Allocated(h) /\ h.pred[c] \in Allocated(h)
        /\ h.pred[h.succ[c]] = c /\ h.succ[h.pred[c]] = c
    BY DEF Linked
  <2>2. s2[c] \in Allocated(h) /\ p2[c] \in Allocated(h)
    BY <1>2, <1>3, <1>7, <2>1
  <2>3. p2[s2[c]] = c
    BY <1>2, <1>3, <1>7, <2>1
  <2>4. s2[p2[c]] = c
    BY <1>2, <1>3, <1>7, <2>1
  <2>5. QED
    BY <2>2, <2>3, <2>4
<1>11. QED
  BY <1>3, <1>6, <1>7, <1>8, <1>9, <1>10 DEF g

\* A cell leaves its ring and the heap; the others keep their order.
LEMMA DeleteLinks ==
    ASSUME NEW h \in Heaps, NEW p \in Allocated(h), Linked(h)
    PROVE  /\ DeleteList(h, p) \in Heaps
           /\ Allocated(DeleteList(h, p)) = Allocated(h) \ {p}
           /\ Linked(DeleteList(h, p))
           /\ \A c \in Allocated(h) \ {p} :
                 DeleteList(h, p).succ[c] = IF c = h.pred[p] THEN h.succ[p] ELSE h.succ[c]
<1> DEFINE g == DeleteList(h, p)
           s1 == [h.succ EXCEPT ![h.pred[p]] = h.succ[p]]
           s2 == [s1 EXCEPT ![p] = NULL]
           p2 == [[h.pred EXCEPT ![s1[p]] = h.pred[p]] EXCEPT ![p] = NULL]
           d2 == [h.data EXCEPT ![p] = NULL]
<1>1. g = [succ |-> s2, pred |-> p2, data |-> d2]
  BY DEF DeleteList
<1>2. /\ h.succ[p] \in Allocated(h) /\ h.pred[p] \in Allocated(h)
      /\ h.pred[h.succ[p]] = p /\ h.succ[h.pred[p]] = p
  BY DEF Linked
<1>3. \A c \in Allocated(h) : c \in Cells /\ c # NULL
  BY ListAssumption DEF Allocated
<1>4. /\ h.succ \in [Cells -> Cells \cup {NULL}] /\ h.pred \in [Cells -> Cells \cup {NULL}]
      /\ h.data \in [Cells -> Data \cup {NULL}]
  BY DEF Heaps
<1>5. s1[p] = h.succ[p]
  BY <1>2, <1>3, <1>4
<1>6. /\ s2 \in [Cells -> Cells \cup {NULL}] /\ p2 \in [Cells -> Cells \cup {NULL}]
      /\ d2 \in [Cells -> Data \cup {NULL}]
  BY <1>2, <1>3, <1>4
<1>7. g \in Heaps
  BY <1>1, <1>6 DEF Heaps
<1>8. \A c \in Cells :
         /\ s2[c] = IF c = p THEN NULL ELSE IF c = h.pred[p] THEN h.succ[p] ELSE h.succ[c]
         /\ p2[c] = IF c = p THEN NULL ELSE IF c = h.succ[p] THEN h.pred[p] ELSE h.pred[c]
  BY <1>2, <1>3, <1>4, <1>5
<1>9. g.succ = s2 /\ g.pred = p2
  BY <1>1
<1> HIDE DEF g, s1, s2, p2, d2
<1>10. Allocated(g) = Allocated(h) \ {p}
  BY <1>2, <1>3, <1>8, <1>9 DEF Allocated
<1>11. Linked(g)
  <2> SUFFICES ASSUME NEW c \in Allocated(h) \ {p}
               PROVE  /\ s2[c] \in Allocated(h) \ {p} /\ p2[c] \in Allocated(h) \ {p}
                      /\ p2[s2[c]] = c /\ s2[p2[c]] = c
    BY <1>9, <1>10 DEF Linked
  <2>1. /\ h.succ[c] \in Allocated(h) /\ h.pred[c] \in Allocated(h)
        /\ h.pred[h.succ[c]] = c /\ h.succ[h.pred[c]] = c
    BY DEF Linked
  <2>2. s2[c] \in Allocated(h) \ {p} /\ p2[c] \in Allocated(h) \ {p}
    BY <1>2, <1>3, <1>8, <2>1
  <2>3. p2[s2[c]] = c
    BY <1>2, <1>3, <1>8, <2>1
  <2>4. s2[p2[c]] = c
    BY <1>2, <1>3, <1>8, <2>1
  <2>5. QED
    BY <2>2, <2>3, <2>4
<1>12. QED
  BY <1>3, <1>7, <1>8, <1>9, <1>10, <1>11 DEF g

-----------------------------------------------------------------------------
(* What the callers' operations do to all the rings.                        *)

\* A list's own cell is in its ring, and so is the next.
LEMMA RingFromList ==
    ASSUME ListInv, NEW l \in Lists, list[l] # NULL
    PROVE  /\ list[l] \in Allocated(heap) /\ heap.succ[list[l]] \in Allocated(heap)
           /\ InRing(l, list[l]) /\ InRing(l, heap.succ[list[l]])
BY DEF ListInv, ListsAllocated, LinksInverse, Linked, InRing, Owners, Apart

\* No list yet: a new cell becomes the ring of list l.
LEMMA Starts ==
    ASSUME ListInv, NEW l \in Lists, NEW p \in Cells \ Allocated(heap), NEW d \in Data,
           list[l] = NULL,
           heap' = NewList(heap, p, d), list' = [list EXCEPT ![l] = p], UNCHANGED freeing
    PROVE  ListInv'
<1>1. /\ heap \in Heaps /\ list \in [Lists -> Cells \cup {NULL}] /\ freeing \in SUBSET Lists
      /\ Linked(heap) /\ p # NULL /\ freeing \in SUBSET {m \in Lists : list[m] # NULL}
  BY ListAssumption DEF ListInv, TypeOK, LinksInverse
<1>2. /\ heap' \in Heaps /\ Allocated(heap') = Allocated(heap) \cup {p} /\ Linked(heap')
      /\ heap'.succ[p] = p /\ \A c \in Allocated(heap) : heap'.succ[c] = heap.succ[c]
  BY <1>1, NewListLinks
<1>3. TypeOK' /\ LinksInverse'
  BY <1>1, <1>2 DEF ListInv, TypeOK, LinksInverse
<1>4. ListsAllocated'
  BY <1>1, <1>2 DEF ListInv, ListsAllocated
<1>5. RingsApart'
  <2>1. PICK own \in Owners : TRUE
    BY DEF ListInv, RingsApart
  <2> DEFINE new == [own EXCEPT ![p] = l]
  <2>2. /\ own \in [Cells -> Lists] /\ Apart(own, heap) /\ Whole(own, heap)
        /\ \A m \in Lists : list[m] # NULL => own[list[m]] = m
        /\ \A c \in Allocated(heap) : list[own[c]] # NULL
    BY <2>1 DEF Owners
  <2>3. /\ new \in [Cells -> Lists] /\ new[p] = l
        /\ \A c \in Allocated(heap) : c # p /\ new[c] = own[c] /\ own[c] # l
    BY <2>2 DEF Allocated
  <2> HIDE DEF new
  <2>4. \A c \in Allocated(heap) : heap.succ[c] \in Allocated(heap)
    BY <1>1 DEF Linked
  <2>5. Apart(new, heap')
    BY <1>2, <2>2, <2>3, <2>4 DEF Apart
  <2>6. \A m \in Lists : list'[m] # NULL => new[list'[m]] = m
    BY <1>1, <2>2, <2>3 DEF ListInv, ListsAllocated
  <2>7. Whole(new, heap')
    <3> SUFFICES ASSUME NEW S \in SUBSET Allocated(heap'), Closed(heap', S),
                        NEW c \in S, NEW e \in Allocated(heap'), new[c] = new[e]
                 PROVE  e \in S
      BY DEF Whole
    <3>1. Closed(heap, S \ {p})
      BY <1>2, <2>3, <2>4 DEF Closed
    <3>2. S \ {p} \in SUBSET Allocated(heap)
      BY <1>2
    <3>3. CASE c = p
      BY <1>2, <2>3, <3>3
    <3>4. CASE c # p
      <4>1. c \in S \ {p} /\ c \in Allocated(heap) /\ e # p /\ e \in Allocated(heap)
        BY <1>2, <2>3, <3>4
      <4>2. own[c] = own[e]
        BY <2>3, <4>1
      <4>3. QED
        BY <2>2, <3>1, <3>2, <4>1, <4>2 DEF Whole
    <3>5. QED
      BY <3>3, <3>4
  <2>8. \A c \in Allocated(heap') : list'[new[c]] # NULL
    BY <1>1, <1>2, <2>2, <2>3
  <2>9. QED
    BY <2>3, <2>5, <2>6, <2>7, <2>8 DEF RingsApart, Owners
<1>6. QED
  BY <1>3, <1>4, <1>5 DEF ListInv

\* A new cell is joined to a cell q of the ring of list l.
LEMMA Joins ==
    ASSUME ListInv, NEW l \in Lists, NEW p \in Cells \ Allocated(heap), NEW d \in Data,
           NEW q \in Allocated(heap), InRing(l, q),
           NEW a \in {p, q}, NEW b \in {p, q} \ {a},
           heap' = AppendRing(NewList(heap, p, d), a, b), UNCHANGED <<list, freeing>>
    PROVE  ListInv'
<1>0. PICK h : h = NewList(heap, p, d)
  OBVIOUS
<1>1. /\ heap \in Heaps /\ list \in [Lists -> Cells \cup {NULL}] /\ freeing \in SUBSET Lists
      /\ Linked(heap)
  BY DEF ListInv, TypeOK, LinksInverse
<1>2. /\ h \in Heaps /\ Allocated(h) = Allocated(heap) \cup {p} /\ Linked(h)
      /\ h.succ[p] = p /\ \A c \in Allocated(heap) : h.succ[c] = heap.succ[c]
  BY <1>0, <1>1, NewListLinks
<1>3. a \in Allocated(h) /\ b \in Allocated(h) /\ heap' = AppendRing(h, a, b)
  BY <1>0, <1>2
<1>4. /\ heap' \in Heaps /\ Allocated(heap') = Allocated(h) /\ Linked(heap')
      /\ \A c \in Allocated(h) : heap'.succ[c] = IF c = h.pred[b] THEN a
                                 ELSE IF c = h.pred[a] THEN b ELSE h.succ[c]
  <2>0. h \in Heaps /\ Linked(h) /\ a \in Allocated(h) /\ b \in Allocated(h)
    BY <1>2, <1>3
  <2>1. /\ AppendRing(h, a, b) \in Heaps
        /\ Allocated(AppendRing(h, a, b)) = Allocated(h)
        /\ Linked(AppendRing(h, a, b))
        /\ \A c \in Allocated(h) :
              AppendRing(h, a, b).succ[c] = IF c = h.pred[b] THEN a
                                            ELSE IF c = h.pred[a] THEN b ELSE h.succ[c]
    BY ONLY <2>0, AppendLinks
  <2>2. QED
    BY <1>3, <2>1
<1>5. TypeOK' /\ LinksInverse' /\ ListsAllocated'
  BY <1>1, <1>2, <1>4 DEF ListInv, TypeOK, LinksInverse, ListsAllocated
<1>6. RingsApart'
  <2>1. PICK own \in Owners : TRUE
    BY DEF ListInv, RingsApart
  <2> DEFINE new == [own EXCEPT ![p] = l]
  <2>2. /\ own \in [Cells -> Lists] /\ Apart(own, heap) /\ Whole(own, heap) /\ own[q] = l
        /\ \A m \in Lists : list[m] # NULL => own[list[m]] = m
        /\ \A c \in Allocated(heap) : list[own[c]] # NULL
    BY <2>1 DEF Owners, InRing
  <2>3. /\ new \in [Cells -> Lists] /\ new[p] = l
        /\ \A c \in Allocated(heap) : c # p /\ new[c] = own[c]
    BY <2>2 DEF Allocated
  <2> HIDE DEF new
  <2>4. \A c \in Allocated(h) : new[h.succ[c]] = new[c]
    BY <1>1, <1>2, <2>2, <2>3 DEF Apart, Linked
  <2>5. new[a] = l /\ new[b] = l
    BY <2>2, <2>3
  <2>6. /\ h.pred[a] \in Allocated(h) /\ h.pred[b] \in Allocated(h)
        /\ h.succ[h.pred[a]] = a /\ h.succ[h.pred[b]] = b
    BY <1>2, <1>3 DEF Linked
  <2>7. new[h.pred[a]] = l /\ new[h.pred[b]] = l
    BY <2>4, <2>5, <2>6
  <2>8. Apart(new, heap')
    BY <1>4, <2>4, <2>5, <2>7 DEF Apart
  <2>9. \A m \in Lists : list'[m] # NULL => new[list'[m]] = m
    BY <1>1, <2>2, <2>3 DEF ListInv, ListsAllocated
  <2>10. PICK z \in Allocated(heap) : heap.succ[z] = q /\ heap.pred[q] = z
    BY <1>1 DEF Linked
  <2>11. /\ h.pred[p] = p /\ h.pred[q] = z
         /\ p \in Allocated(heap') /\ p # q /\ z # p /\ q # p
    BY <1>2, <1>4, <2>3, <2>10 DEF Linked
  <2>12. /\ heap'.succ[p] = q /\ heap'.succ[z] = p
         /\ \A c \in Allocated(heap) \ {z} : heap'.succ[c] = heap.succ[c]
    BY <1>2, <1>4, <2>3, <2>10, <2>11
  <2>13. own[z] = l
    BY <2>2, <2>10 DEF Apart
  <2>14. Whole(new, heap')
    <3> SUFFICES ASSUME NEW S \in SUBSET Allocated(heap'), Closed(heap', S),
                        NEW c \in S, NEW e \in Allocated(heap'), new[c] = new[e]
                 PROVE  e \in S
      BY DEF Whole
    <3>1. S \ {p} \in SUBSET Allocated(heap)
      BY <1>2, <1>4
    <3>2. Closed(heap, S \ {p})
      <4> SUFFICES ASSUME NEW y \in S \ {p}
                   PROVE  heap.succ[y] \in S \ {p}
        BY DEF Closed
      <4>1. y \in Allocated(heap) /\ heap.succ[y] \in Allocated(heap) /\ heap.succ[y] # p
        BY <1>1, <2>3, <3>1 DEF Linked
      <4>2. CASE y = z
        BY <2>10, <2>11, <2>12, <4>2 DEF Closed
      <4>3. CASE y # z
        BY <2>12, <4>1, <4>3 DEF Closed
      <4>4. QED
        BY <4>2, <4>3
    <3>3. PICK y \in S \ {p} : own[y] = new[c]
      <4>1. CASE c = p
        BY <2>2, <2>3, <2>11, <2>12, <4>1 DEF Closed
      <4>2. CASE c # p
        BY <2>3, <3>1, <4>2
      <4>3. QED
        BY <4>1, <4>2
    <3>4. \A f \in Allocated(heap) : own[f] = new[c] => f \in S
      BY <2>2, <3>1, <3>2, <3>3 DEF Whole
    <3>5. CASE e = p
      <4>1. z \in S
        BY <2>3, <2>10, <2>13, <3>4, <3>5
      <4>2. QED
        BY <2>12, <3>5, <4>1 DEF Closed
    <3>6. CASE e # p
      BY <1>2, <1>4, <2>3, <3>4, <3>6
    <3>7. QED
      BY <3>5, <3>6
  <2>15. \A c \in Allocated(heap') : list'[new[c]] # NULL
    <3>1. list[l] # NULL
      BY <2>2
    <3>2. QED
      BY <1>2, <1>4, <2>2, <2>3, <3>1
  <2>16. QED
    BY <2>3, <2>8, <2>9, <2>14, <2>15 DEF RingsApart, Owners
<1>7. QED
  BY <1>5, <1>6 DEF ListInv

\* A cell leaves the ring of list l, whose pointer is then elsewhere in the ring,
\* or NULL when the ring was this cell.
LEMMA Leaves ==
    ASSUME ListInv, NEW l \in Lists, NEW p \in Allocated(heap), InRing(l, p),
           heap' = DeleteList(heap, p),
           NEW x \in Cells \cup {NULL}, list' = [list EXCEPT ![l] = x],
           x # NULL => x \in Allocated(heap) \ {p} /\ InRing(l, x),
           x = NULL => heap.succ[p] = p,
           freeing' \in SUBSET freeing, l \in freeing' => x # NULL
    PROVE  ListInv'
<1>1. /\ heap \in Heaps /\ list \in [Lists -> Cells \cup {NULL}] /\ freeing \in SUBSET Lists
      /\ Linked(heap)
  BY DEF ListInv, TypeOK, LinksInverse
<1>2. /\ heap' \in Heaps /\ Allocated(heap') = Allocated(heap) \ {p} /\ Linked(heap')
      /\ \A c \in Allocated(heap) \ {p} :
            heap'.succ[c] = IF c = heap.pred[p] THEN heap.succ[p] ELSE heap.succ[c]
  BY <1>1, DeleteLinks
<1>3. TypeOK' /\ LinksInverse'
  BY <1>1, <1>2 DEF ListInv, TypeOK, LinksInverse
<1>4. PICK own \in Owners : TRUE
  BY DEF ListInv, RingsApart
<1>5. /\ own \in [Cells -> Lists] /\ Apart(own, heap) /\ Whole(own, heap) /\ own[p] = l
      /\ \A m \in Lists : list[m] # NULL => own[list[m]] = m
      /\ \A c \in Allocated(heap) : list[own[c]] # NULL
      /\ x # NULL => own[x] = l
  BY <1>4 DEF Owners, InRing
<1>6. \A m \in Lists \ {l} : list'[m] = list[m] /\ list[m] # p
  BY <1>1, <1>5, ListAssumption DEF Allocated
<1>7. list'[l] = x
  BY <1>1
<1>8. ListsAllocated'
  BY <1>2, <1>6, <1>7 DEF ListInv, ListsAllocated
<1>9. /\ heap.pred[p] \in Allocated(heap) /\ heap.succ[heap.pred[p]] = p
  BY <1>1 DEF Linked
<1>10. Apart(own, heap')
  BY <1>2, <1>5, <1>9 DEF Apart
<1>11. Whole(own, heap')
  <2> SUFFICES ASSUME NEW S \in SUBSET Allocated(heap'), Closed(heap', S),
                      NEW c \in S, NEW e \in Allocated(heap'), own[c] = own[e]
               PROVE  e \in S
    BY DEF Whole
  <2>1. S \cup {p} \in SUBSET Allocated(heap) /\ S \in SUBSET Allocated(heap) /\ p \notin S
    BY <1>2
  <2>2. e \in Allocated(heap) /\ e # p
    BY <1>2
  <2>3. CASE heap.pred[p] \in S
    <3>1. heap.succ[p] \in S
      BY <1>2, <2>1, <2>3 DEF Closed
    <3>2. Closed(heap, S \cup {p})
      BY <1>2, <1>9, <2>1, <3>1 DEF Closed
    <3>3. QED
      BY <1>5, <2>1, <2>2, <3>2 DEF Whole
  <2>4. CASE heap.pred[p] \notin S
    <3>1. Closed(heap, S)
      BY <1>2, <2>1, <2>4 DEF Closed
    <3>2. QED
      BY <1>5, <2>1, <2>2, <3>1 DEF Whole
  <2>5. QED
    BY <2>3, <2>4
<1>12. \A c \in Allocated(heap') : list'[own[c]] # NULL
  <2> SUFFICES ASSUME NEW c \in Allocated(heap')
               PROVE  list'[own[c]] # NULL
    OBVIOUS
  <2>1. c \in Allocated(heap) /\ c # p /\ own[c] \in Lists
    BY <1>2, <1>5 DEF Allocated
  <2>2. CASE own[c] # l
    BY <1>5, <1>6, <2>1, <2>2
  <2>3. CASE own[c] = l
    <3>1. heap.succ[p] # p
      <4> SUFFICES ASSUME heap.succ[p] = p
                   PROVE  FALSE
        OBVIOUS
      <4>1. Closed(heap, {p}) /\ {p} \in SUBSET Allocated(heap)
        BY DEF Closed
      <4>2. c \in {p}
        BY <1>5, <2>1, <2>3, <4>1 DEF Whole
      <4>3. QED
        BY <2>1, <4>2
    <3>2. QED
      BY <1>7, <2>3, <3>1
  <2>4. QED
    BY <2>2, <2>3
<1>13. RingsApart'
  BY <1>5, <1>6, <1>7, <1>10, <1>11, <1>12 DEF RingsApart, Owners
<1>14. QED
  BY <1>3, <1>8, <1>13 DEF ListInv

-----------------------------------------------------------------------------

LEMMA ListInvInit == Init => ListInv
<1> SUFFICES ASSUME Init
             PROVE  ListInv
  OBVIOUS
<1>1. Allocated(heap) = {}
  BY DEF Init, Allocated
<1>2. TypeOK
  BY DEF Init, TypeOK, Heaps
<1>3. LinksInverse /\ ListsAllocated
  BY <1>1 DEF Init, LinksInverse, Linked, ListsAllocated
<1>4. RingsApart
  <2>1. PICK l \in Lists : TRUE
    BY ListAssumption
  <2>2. [c \in Cells |-> l] \in Owners
    BY <1>1 DEF Init, Owners, Apart, Whole
  <2>3. QED
    BY <2>2 DEF RingsApart
<1>5. QED
  BY <1>2, <1>3, <1>4 DEF ListInv

LEMMA ListInvStep == ListInv /\ [Next]_vars => ListInv'
<1> SUFFICES ASSUME ListInv, [Next]_vars
             PROVE  ListInv'
  OBVIOUS
<1>1. CASE UNCHANGED vars
  BY <1>1 DEF vars, ListInv, TypeOK, LinksInverse, Linked, Allocated, ListsAllocated,
              RingsApart, Owners, Apart, Whole, Closed
<1>2. ASSUME NEW l \in Lists, NEW d \in Data, Insert(l, d)
      PROVE  ListInv'
  <2>1. CASE Start(l, d)
    BY <2>1, Starts DEF Start, Fresh
  <2>2. CASE InsertLast(l, d)
    BY <2>2, Joins, RingFromList DEF InsertLast, Fresh
  <2>3. CASE InsertBefore(l, d)
    BY <2>3, Joins, RingFromList DEF InsertBefore, Fresh
  <2>4. CASE InsertAfter(l, d)
    <3>1. PICK p \in Cells \ Allocated(heap) :
             /\ list[l] # NULL
             /\ heap' = AppendRing(NewList(heap, p, d), NewList(heap, p, d).succ[list[l]], p)
             /\ UNCHANGED <<list, freeing>>
      BY <2>4 DEF InsertAfter, Fresh
    <3>2. list[l] \in Allocated(heap)
      BY <3>1, RingFromList
    <3>3. NewList(heap, p, d).succ[list[l]] = heap.succ[list[l]]
      BY <3>2, NewListLinks DEF ListInv, TypeOK, LinksInverse
    <3>4. QED
      BY <3>1, <3>3, Joins, RingFromList
  <2>5. QED
    BY <1>2, <2>1, <2>2, <2>3, <2>4 DEF Insert
<1>3. ASSUME NEW l \in Lists, Remove(l)
      PROVE  ListInv'
  <2>0. list \in [Lists -> Cells \cup {NULL}] /\ (l \in freeing => list[l] # NULL)
    BY DEF ListInv, TypeOK
  <2>1. CASE RemoveFirst(l)
    <3> DEFINE x == IF list[l] = heap.succ[list[l]] THEN NULL ELSE heap.succ[list[l]]
    <3>1. /\ list[l] # NULL /\ l \notin freeing /\ freeing' = freeing
          /\ heap' = DeleteList(heap, list[l]) /\ list' = [list EXCEPT ![l] = x]
      BY <2>1 DEF RemoveFirst, Usable
    <3>2. /\ list[l] \in Allocated(heap) /\ heap.succ[list[l]] \in Allocated(heap)
          /\ InRing(l, list[l]) /\ InRing(l, heap.succ[list[l]])
      BY <3>1, RingFromList
    <3>3. /\ x \in Cells \cup {NULL}
          /\ x # NULL => x \in Allocated(heap) \ {list[l]} /\ InRing(l, x)
          /\ x = NULL => heap.succ[list[l]] = list[l]
      BY <3>2, ListAssumption DEF Allocated
    <3> HIDE DEF x
    <3>4. QED
      BY <3>1, <3>2, <3>3, Leaves
  <2>2. CASE StartFree(l)
    <3>1. /\ list[l] # NULL /\ freeing' = freeing \cup {l} /\ UNCHANGED <<heap, list>>
      BY <2>2 DEF StartFree
    <3>2. TypeOK'
      BY <3>1 DEF ListInv, TypeOK
    <3>3. QED
      BY <3>1, <3>2 DEF ListInv, LinksInverse, Linked, Allocated, ListsAllocated,
                        RingsApart, Owners, Apart, Whole, Closed
  <2>3. CASE FreeNext(l)
    <3>1. /\ l \in freeing /\ list[l] # heap.succ[list[l]]
          /\ heap' = DeleteList(heap, heap.succ[list[l]]) /\ UNCHANGED <<list, freeing>>
      BY <2>3 DEF FreeNext
    <3>2. /\ list[l] \in Allocated(heap) /\ heap.succ[list[l]] \in Allocated(heap)
          /\ InRing(l, list[l]) /\ InRing(l, heap.succ[list[l]])
      BY <2>0, <3>1, RingFromList
    <3>3. list' = [list EXCEPT ![l] = list[l]] /\ list[l] \in Cells
      BY <2>0, <3>1, <3>2 DEF Allocated
    <3>4. QED
      BY <2>0, <3>1, <3>2, <3>3, Leaves
  <2>4. CASE FreeLast(l)
    <3>1. /\ l \in freeing /\ heap' = DeleteList(heap, list[l])
          /\ heap.succ[list[l]] = list[l]
          /\ list' = [list EXCEPT ![l] = NULL] /\ freeing' = freeing \ {l}
      BY <2>4 DEF FreeLast
    <3>2. list[l] \in Allocated(heap) /\ InRing(l, list[l])
      BY <2>0, <3>1, RingFromList
    <3>3. QED
      BY <3>1, <3>2, Leaves
  <2>5. QED
    BY <1>3, <2>1, <2>2, <2>3, <2>4 DEF Remove
<1>4. QED
  BY <1>1, <1>2, <1>3 DEF Next

LEMMA ListInvariant == Spec => []ListInv
<1>1. Init => ListInv
  BY ListInvInit
<1>2. ListInv /\ [Next]_vars => ListInv'
  BY ListInvStep
<1>3. QED
  BY <1>1, <1>2, PTL DEF Spec

\* The rings stay rings: succ and pred are inverse of each other on the cells that
\* are allocated, whatever the lists and the order of the calls.
THEOREM LinksAlwaysInverse == Spec => []LinksInverse
BY ListInvariant, PTL DEF ListInv

\* No call frees a cell that another list's pointer still names.
THEOREM ListsAlwaysAllocated == Spec => []ListsAllocated
BY ListInvariant, PTL DEF ListInv

\* The cells in the ring of a list are those that it owns.
LEMMA OwnersRings ==
    ASSUME ListInv, NEW own \in Owners, NEW l \in Lists
    PROVE  Ring(l) = {c \in Allocated(heap) : own[c] = l}
<1> DEFINE S == {c \in Allocated(heap) : own[c] = l}
<1>1. /\ own \in [Cells -> Lists] /\ Apart(own, heap) /\ Whole(own, heap)
      /\ list[l] # NULL => own[list[l]] = l
      /\ \A c \in Allocated(heap) : list[own[c]] # NULL
  BY DEF Owners
<1>2. CASE list[l] = NULL
  BY <1>1, <1>2 DEF Ring
<1>3. CASE list[l] # NULL
  <2>1. list[l] \in S
    BY <1>1, <1>3 DEF ListInv, ListsAllocated
  <2>2. Closed(heap, S) /\ S \in SUBSET Allocated(heap)
    BY <1>1 DEF Closed, Apart, ListInv, LinksInverse, Linked
  <2>3. Ring(l) \subseteq S
    BY <1>3, <2>1, <2>2 DEF Ring
  <2>4. ASSUME NEW c \in S, NEW T \in SUBSET Allocated(heap), Closed(heap, T), list[l] \in T
        PROVE  c \in T
    BY <1>1, <1>3, <2>4 DEF Whole
  <2>5. S \subseteq Ring(l)
    BY <1>3, <2>4 DEF Ring
  <2>6. QED
    BY <2>3, <2>5
<1>4. QED
  BY <1>2, <1>3

LEMMA OneList == ListInv => CellsInOneList
<1> SUFFICES ASSUME ListInv
             PROVE  CellsInOneList
  OBVIOUS
<1>1. PICK own \in Owners : TRUE
  BY DEF ListInv, RingsApart
<1>2. \A l \in Lists : Ring(l) = {c \in Allocated(heap) : own[c] = l}
  BY OwnersRings
<1>3. \A c \in Allocated(heap) : own[c] \in Lists
  BY DEF Owners, Allocated
<1>4. Allocated(heap) = UNION {Ring(l) : l \in Lists}
  BY <1>2, <1>3
<1>5. \A l, m \in Lists : l # m => Ring(l) \cap Ring(m) = {}
  BY <1>2
<1>6. QED
  BY <1>4, <1>5 DEF CellsInOneList

\* Joining and cutting rings never splits one, merges two lists, or drops a cell
\* that nobody can free.
THEOREM CellsAlwaysInOneList == Spec => []CellsInOneList
BY ListInvariant, OneList, PTL

\* The heap, the lists and the frees under way keep their types.
THEOREM ListTypeCorrect == Spec => []TypeOK
BY ListInvariant, PTL DEF ListInv

-----------------------------------------------------------------------------
(* The rings in order.                                                      *)

\* The cells of a ring in order, each followed by the next and the last by the first.
InOrder(h, s) ==
    /\ s \in Seq(Allocated(h)) /\ Len(s) > 0
    /\ \A i, j \in 1 .. Len(s) : s[i] = s[j] => i = j
    /\ \A k \in 1 .. Len(s) : h.succ[s[k]] = IF k = Len(s) THEN s[1] ELSE s[k + 1]

\* A walk goes from a cell to its successor.
LEMMA WalkSteps ==
    ASSUME NEW c
    PROVE  \E p : /\ p[1] = c
                  /\ \A k \in 2 .. (Cardinality(Cells) + 1) :
                        p[k - 1] \in Cells => p[k] = heap.succ[p[k - 1]]
                  /\ Walk(c) = LET length == CHOOSE k \in 1 .. Cardinality(Cells) :
                                      /\ k = Cardinality(Cells) \/ p[k + 1] \in {c, NULL}
                                      /\ \A j \in 1 .. (k - 1) : p[j + 1] \notin {c, NULL}
                               IN  [k \in 1 .. length |-> p[k]]
<1> DEFINE N            == Cardinality(Cells)
           After(x)     == IF x \in Cells THEN heap.succ[x] ELSE NULL
           IsWalk(f, n) == f = [k \in 1 .. (n + 1) |-> IF k = 1 THEN c ELSE After(f[k - 1])]
           T            == {n \in Nat : ~\E f : IsWalk(f, n)}
           p            == CHOOSE f : IsWalk(f, N)
<1>1. N \in Nat
  BY HeapAssumption, FS_CardinalityType
<1> HIDE DEF N
<1>2. \E f : IsWalk(f, N)
  <2> SUFFICES ASSUME N \in T
               PROVE  FALSE
    BY <1>1
  <2> HIDE DEF After
  <2>1. PICK l \in T : \A j \in T : l <= j
    <3>1. T \in SUBSET Nat
      OBVIOUS
    <3> HIDE DEF T
    <3>2. QED
      BY <3>1, LeastNumber
  <2>2. CASE l = 0
    <3>1. IsWalk([k \in 1 .. 1 |-> c], 0)
      OBVIOUS
    <3>2. QED
      BY <2>2, <3>1
  <2>3. CASE l # 0
    <3>1. l \in Nat /\ l - 1 \in Nat
      BY <2>1, <2>3
    <3>2. l - 1 \notin T
      <4> HIDE DEF T
      <4>1. QED
        BY <2>1, <3>1
    <3>3. PICK f : IsWalk(f, l - 1)
      BY <3>1, <3>2
    <3> DEFINE g == [k \in 1 .. (l + 1) |-> IF k < l + 1 THEN f[k] ELSE After(f[l])]
    <3>4. ASSUME NEW k \in 1 .. (l + 1)
          PROVE  g[k] = IF k = 1 THEN c ELSE After(g[k - 1])
      BY <2>3, <3>1, <3>3
    <3>5. IsWalk(g, l)
      BY <3>4
    <3>6. QED
      BY <3>5
  <2>4. QED
    BY <2>2, <2>3
<1>3. IsWalk(p, N)
  BY <1>2
<1>4. Walk(c) = LET length == CHOOSE k \in 1 .. N :
                         /\ k = N \/ p[k + 1] \in {c, NULL}
                         /\ \A j \in 1 .. (k - 1) : p[j + 1] \notin {c, NULL}
                IN  [k \in 1 .. length |-> p[k]]
  BY DEF Walk, N
<1> HIDE DEF p, After
<1>5. p[1] = c
  BY <1>1, <1>3
<1>6. ASSUME NEW k \in 2 .. (N + 1)
      PROVE  p[k] = After(p[k - 1])
  BY <1>1, <1>3
<1>7. \A k \in 2 .. (N + 1) : p[k - 1] \in Cells => p[k] = heap.succ[p[k - 1]]
  BY <1>6 DEF After
<1>8. QED
  BY <1>4, <1>5, <1>7 DEF N

\* There are no more cells in a ring than there are cells.
LEMMA RingLength ==
    ASSUME NEW h, NEW s, InOrder(h, s)
    PROVE  Len(s) \in 1 .. Cardinality(Cells) /\ Cardinality(Cells) \in Nat
<1>1. /\ IsFiniteSet(Cells) /\ Cardinality(Cells) \in Nat /\ Len(s) \in Nat /\ Len(s) > 0
      /\ s \in Seq(Cells)
  BY HeapAssumption, FS_CardinalityType DEF InOrder, Allocated
<1>2. s \in [1 .. Len(s) -> Cells]
  BY <1>1
<1>3. IsFiniteSet(1 .. Len(s)) /\ Cardinality(1 .. Len(s)) = Len(s)
  <2>1. 1 \in Int /\ Len(s) \in Int /\ ~(1 > Len(s)) /\ Len(s) - 1 + 1 = Len(s)
    BY <1>1
  <2>2. QED
    BY <2>1, FS_Interval
<1>4. ~(Cardinality(Cells) < Len(s))
  <2> SUFFICES ASSUME Cardinality(Cells) < Len(s)
               PROVE  FALSE
    OBVIOUS
  <2>1. \E x, y \in 1 .. Len(s) : x # y /\ s[x] = s[y]
    BY <1>1, <1>2, <1>3, FS_PigeonHole
  <2>2. QED
    BY <2>1 DEF InOrder
<1>5. QED
  BY <1>1, <1>4

\* From a cell of a ring on a walk visits the ring.
LEMMA WalkIs ==
    ASSUME NEW s, InOrder(heap, s)
    PROVE  Walk(s[1]) = s
<1> DEFINE N == Cardinality(Cells)
           L == Len(s)
           c == s[1]
<1>1. L \in 1 .. N /\ N \in Nat
  BY RingLength
<1>2. /\ s \in Seq(Cells) /\ \A k \in 1 .. L : s[k] \in Cells /\ s[k] # NULL
      /\ \A i, j \in 1 .. L : s[i] = s[j] => i = j
      /\ \A k \in 1 .. L : heap.succ[s[k]] = IF k = L THEN c ELSE s[k + 1]
  BY ListAssumption DEF InOrder, Allocated
<1> HIDE DEF N, L, c
<1>3. PICK p : /\ p[1] = c
               /\ \A k \in 2 .. (N + 1) : p[k - 1] \in Cells => p[k] = heap.succ[p[k - 1]]
               /\ Walk(c) = LET length == CHOOSE k \in 1 .. N :
                                   /\ k = N \/ p[k + 1] \in {c, NULL}
                                   /\ \A j \in 1 .. (k - 1) : p[j + 1] \notin {c, NULL}
                            IN  [k \in 1 .. length |-> p[k]]
  BY WalkSteps DEF N
<1> DEFINE T == {k \in Nat : k \in 1 .. L /\ p[k] # s[k]}
<1>4. ASSUME NEW k \in T PROVE FALSE
  <2>1. PICK l \in T : \A j \in T : l <= j
    <3>1. T \in SUBSET Nat
      OBVIOUS
    <3> HIDE DEF T
    <3>2. QED
      BY <1>4, <3>1, LeastNumber
  <2>2. l \in 1 .. L /\ p[l] # s[l] /\ l # 1
    BY <1>3, <2>1 DEF c
  <2>3. l - 1 \in 1 .. L /\ l - 1 \in Nat /\ ~(l <= l - 1) /\ l \in 2 .. (N + 1) /\ (l - 1) + 1 = l
        /\ l - 1 # L
    BY <1>1, <2>2
  <2>4. p[l - 1] = s[l - 1]
    BY <2>1, <2>3
  <2>5. p[l] = heap.succ[s[l - 1]] /\ heap.succ[s[l - 1]] = s[l]
    BY <1>2, <1>3, <2>3, <2>4
  <2>6. QED
    BY <2>2, <2>5
<1>5. \A k \in 1 .. L : p[k] = s[k]
  BY <1>1, <1>4
<1> HIDE DEF T
<1> DEFINE Ends(k) == /\ k = N \/ p[k + 1] \in {c, NULL}
                      /\ \A j \in 1 .. (k - 1) : p[j + 1] \notin {c, NULL}
<1>6. \A j \in 1 .. (L - 1) : p[j + 1] \notin {c, NULL}
  <2> SUFFICES ASSUME NEW j \in 1 .. (L - 1)
               PROVE  p[j + 1] \notin {c, NULL}
    OBVIOUS
  <2>1. j + 1 \in 1 .. L /\ 1 \in 1 .. L /\ j + 1 # 1
    BY <1>1
  <2>2. p[j + 1] = s[j + 1]
    BY <1>5, <2>1
  <2>3. s[j + 1] # s[1]
    BY <1>2, <2>1
  <2>4. QED
    BY <1>2, <2>1, <2>2, <2>3 DEF c
<1>7. L # N => p[L + 1] = c
  <2> SUFFICES ASSUME L # N
               PROVE  p[L + 1] = c
    OBVIOUS
  <2>1. L + 1 \in 2 .. (N + 1) /\ (L + 1) - 1 = L /\ L \in 1 .. L
    BY <1>1
  <2>2. p[L] = s[L]
    BY <1>5, <2>1
  <2>3. QED
    BY <1>2, <1>3, <2>1, <2>2
<1>8. L \in 1 .. N /\ Ends(L)
  BY <1>1, <1>6, <1>7
<1>9. ASSUME NEW k \in 1 .. N, Ends(k)
      PROVE  k = L
  <2>1. ~(k < L)
    <3> SUFFICES ASSUME k < L
                 PROVE  FALSE
      OBVIOUS
    <3>1. k \in 1 .. (L - 1) /\ k # N
      BY <1>1
    <3>2. QED
      BY <1>6, <1>9, <3>1
  <2>2. ~(L < k)
    <3> SUFFICES ASSUME L < k
                 PROVE  FALSE
      OBVIOUS
    <3>1. L \in 1 .. (k - 1) /\ L # N
      BY <1>1
    <3>2. QED
      BY <1>7, <1>9, <3>1
  <2>3. QED
    BY <1>1, <2>1, <2>2
<1>10. (CHOOSE k \in 1 .. N : Ends(k)) = L
  BY <1>8, <1>9
<1>11. Walk(c) = [k \in 1 .. L |-> p[k]]
  BY <1>3, <1>10
<1>12. Walk(c) = [k \in 1 .. L |-> s[k]]
  BY <1>5, <1>11
<1>13. s = [k \in 1 .. L |-> s[k]]
  BY <1>2 DEF L
<1>14. QED
  BY <1>12, <1>13 DEF c

\* What the calls make of a sequence.
InsertedLast(s, e)  == Append(s, e)
InsertedAfter(s, e) == <<Head(s), e>> \o Tail(s)
WithoutFirst(s)     == Tail(s)
WithoutSecond(s)    == <<Head(s)>> \o Tail(Tail(s))

\* What each makes of s.
LEMMA LastShape ==
    ASSUME NEW S, NEW s \in Seq(S), NEW e \in S, Len(s) > 0
    PROVE  /\ InsertedLast(s, e) \in Seq(S) /\ Len(InsertedLast(s, e)) = Len(s) + 1
           /\ \A k \in 1 .. (Len(s) + 1) :
                 InsertedLast(s, e)[k] = IF k = Len(s) + 1 THEN e ELSE s[k]
<1>1. Len(s) \in Nat
  OBVIOUS
<1>2. QED
  BY <1>1, AppendProperties DEF InsertedLast

LEMMA AfterShape ==
    ASSUME NEW S, NEW s \in Seq(S), NEW e \in S, Len(s) > 0
    PROVE  /\ InsertedAfter(s, e) \in Seq(S) /\ Len(InsertedAfter(s, e)) = Len(s) + 1
           /\ \A k \in 1 .. (Len(s) + 1) :
                 InsertedAfter(s, e)[k] = IF k = 1 THEN s[1] ELSE IF k = 2 THEN e ELSE s[k - 1]
<1>1. Len(s) \in Nat \ {0} /\ s # <<>> /\ s[1] \in S /\ Head(s) = s[1]
  OBVIOUS
<1>2. /\ Tail(s) \in Seq(S) /\ Len(Tail(s)) = Len(s) - 1
      /\ \A k \in 1 .. (Len(s) - 1) : Tail(s)[k] = s[k + 1]
  BY <1>1, HeadTailProperties
<1> DEFINE t == <<s[1], e>>
           r == Tail(s)
           L == Len(s)
<1>3. t \in Seq(S) /\ Len(t) = 2 /\ t[1] = s[1] /\ t[2] = e
  BY <1>1
<1>4. r \in Seq(S) /\ Len(r) = L - 1 /\ L \in Nat \ {0} /\ \A k \in 1 .. (L - 1) : r[k] = s[k + 1]
  BY <1>1, <1>2
<1>5. InsertedAfter(s, e) = t \o r
  BY <1>1 DEF InsertedAfter
<1> HIDE DEF t, r, L
<1>6. /\ t \o r \in Seq(S) /\ Len(t \o r) = Len(t) + Len(r)
      /\ \A k \in 1 .. (Len(t) + Len(r)) : (t \o r)[k] = IF k <= Len(t) THEN t[k] ELSE r[k - Len(t)]
  BY <1>3, <1>4, ConcatProperties
<1>7. ASSUME NEW k \in 1 .. (L + 1)
      PROVE  (t \o r)[k] = IF k = 1 THEN s[1] ELSE IF k = 2 THEN e ELSE s[k - 1]
  <2>1. CASE k > 2
    <3>1. k - 2 \in 1 .. (L - 1) /\ (k - 2) + 1 = k - 1
      BY <1>4, <2>1
    <3>2. QED
      BY <1>3, <1>4, <1>6, <2>1, <3>1
  <2>2. CASE k <= 2
    BY <1>3, <1>4, <1>6, <2>2
  <2>3. QED
    <3>1. k > 2 \/ k <= 2
      BY <1>4
    <3>2. QED
      BY Zenon, <2>1, <2>2, <3>1
<1>8. QED
  <2>1. Len(t) + Len(r) = L + 1
    BY <1>3, <1>4
  <2>2. Len(t \o r) = L + 1 /\ t \o r \in Seq(S)
    BY <1>6, <2>1
  <2>3. QED
    BY <1>5, <1>7, <2>2 DEF L

LEMMA FirstShape ==
    ASSUME NEW S, NEW s \in Seq(S), Len(s) > 0
    PROVE  /\ WithoutFirst(s) \in Seq(S) /\ Len(WithoutFirst(s)) = Len(s) - 1
           /\ \A k \in 1 .. (Len(s) - 1) : WithoutFirst(s)[k] = s[k + 1]
<1>1. Len(s) \in Nat \ {0} /\ s # <<>> /\ s[1] \in S /\ Head(s) = s[1]
  OBVIOUS
<1>2. /\ Tail(s) \in Seq(S) /\ Len(Tail(s)) = Len(s) - 1
      /\ \A k \in 1 .. (Len(s) - 1) : Tail(s)[k] = s[k + 1]
  BY <1>1, HeadTailProperties
<1>3. QED
  BY <1>2 DEF WithoutFirst

LEMMA SecondShape ==
    ASSUME NEW S, NEW s \in Seq(S), Len(s) > 1
    PROVE  /\ WithoutSecond(s) \in Seq(S) /\ Len(WithoutSecond(s)) = Len(s) - 1
           /\ \A k \in 1 .. (Len(s) - 1) :
                 WithoutSecond(s)[k] = IF k = 1 THEN s[1] ELSE s[k + 1]
<1>1. Len(s) \in Nat \ {0} /\ s # <<>> /\ s[1] \in S /\ Head(s) = s[1]
  OBVIOUS
<1>2. /\ Tail(s) \in Seq(S) /\ Len(Tail(s)) = Len(s) - 1
      /\ \A k \in 1 .. (Len(s) - 1) : Tail(s)[k] = s[k + 1]
  BY <1>1, HeadTailProperties
<1> DEFINE t == <<s[1]>>
           q == Tail(s)
           r == Tail(q)
           L == Len(s)
<1>3. t \in Seq(S) /\ Len(t) = 1 /\ t[1] = s[1]
  BY <1>1
<1>4. q \in Seq(S) /\ Len(q) = L - 1 /\ q # <<>> /\ \A k \in 1 .. (L - 1) : q[k] = s[k + 1]
  BY <1>1, <1>2
<1>5. WithoutSecond(s) = t \o r
  BY <1>1 DEF WithoutSecond
<1>6. L \in Nat /\ L > 1
  BY <1>1
<1> HIDE DEF t, q, L
<1>7. r \in Seq(S) /\ Len(r) = L - 2 /\ \A k \in 1 .. (L - 2) : r[k] = q[k + 1]
  BY <1>4, <1>6, HeadTailProperties
<1> HIDE DEF r
<1>8. \A k \in 1 .. (L - 2) : r[k] = s[k + 2]
  <2> SUFFICES ASSUME NEW k \in 1 .. (L - 2) PROVE r[k] = s[k + 2]
    OBVIOUS
  <2>1. k + 1 \in 1 .. (L - 1) /\ (k + 1) + 1 = k + 2
    BY <1>6
  <2>2. QED
    BY <1>4, <1>7, <2>1
<1>9. /\ t \o r \in Seq(S) /\ Len(t \o r) = Len(t) + Len(r)
      /\ \A k \in 1 .. (Len(t) + Len(r)) : (t \o r)[k] = IF k <= Len(t) THEN t[k] ELSE r[k - Len(t)]
  <2>1. t \in Seq(S) /\ r \in Seq(S)
    BY <1>3, <1>7
  <2>2. QED
    BY ONLY <2>1, ConcatProperties
<1>10. ASSUME NEW k \in 1 .. (L - 1)
      PROVE  (t \o r)[k] = IF k = 1 THEN s[1] ELSE s[k + 1]
  <2>1. CASE k > 1
    <3>1. k - 1 \in 1 .. (L - 2) /\ (k - 1) + 2 = k + 1
      BY <1>6, <2>1
    <3>2. QED
      BY <1>3, <1>6, <1>7, <1>8, <1>9, <2>1, <3>1
  <2>2. CASE k <= 1
    BY <1>3, <1>6, <1>7, <1>9, <2>2
  <2>3. QED
    <3>1. k > 1 \/ k <= 1
      BY <1>6
    <3>2. QED
      BY Zenon, <2>1, <2>2, <3>1
<1>11. QED
  BY <1>3, <1>5, <1>6, <1>7, <1>9, <1>10 DEF L

\* A new cell p is put before cell q.
Inserts(h, g, p, q, e) ==
    /\ g \in Heaps /\ Allocated(g) = Allocated(h) \cup {p} /\ p \notin Allocated(h)
    /\ g.succ[p] = q /\ g.data[p] = e
    /\ \A c \in Allocated(h) : /\ g.succ[c] = IF h.succ[c] = q THEN p ELSE h.succ[c]
                               /\ g.data[c] = h.data[c]

\* Cell p is taken out.
Deletes(h, g, p) ==
    /\ g \in Heaps /\ Allocated(g) = Allocated(h) \ {p} /\ p \in Allocated(h)
    /\ \A c \in Allocated(h) \ {p} : /\ g.succ[c] = IF h.succ[c] = p THEN h.succ[p] ELSE h.succ[c]
                                     /\ g.data[c] = h.data[c]

\* append puts a cell that is a ring of its own before another, whichever of the two it
\* is called with first.
LEMMA AppendInserts ==
    ASSUME NEW h \in Heaps, Linked(h), NEW p \in Cells \ Allocated(h), NEW q \in Allocated(h),
           NEW e \in Data, NEW a \in {p, q}, NEW b \in {p, q} \ {a}
    PROVE  Inserts(h, AppendRing(NewList(h, p, e), a, b), p, q, e)
<1> DEFINE n == NewList(h, p, e)
           g == AppendRing(n, a, b)
<1>1. /\ n \in Heaps /\ Allocated(n) = Allocated(h) \cup {p} /\ Linked(n)
      /\ n.succ[p] = p /\ \A c \in Allocated(h) : n.succ[c] = h.succ[c]
  BY NewListLinks
<1>2. n.data = [h.data EXCEPT ![p] = e] /\ g.data = n.data
  BY DEF NewList, AppendRing
<1> HIDE DEF n
<1>3. a \in Allocated(n) /\ b \in Allocated(n)
  BY <1>1
<1>4. /\ g \in Heaps /\ Allocated(g) = Allocated(n)
      /\ \A c \in Allocated(n) :
            g.succ[c] = IF c = n.pred[b] THEN a ELSE IF c = n.pred[a] THEN b ELSE n.succ[c]
  BY <1>1, <1>3, AppendLinks
<1> HIDE DEF g
<1>5. p # q /\ p \notin Allocated(h) /\ p \in Allocated(n) /\ q \in Allocated(n) /\ q \in Cells
  BY <1>1 DEF Allocated
<1>6. n.pred[p] = p /\ n.succ[n.pred[q]] = q /\ n.pred[q] \in Allocated(n) /\ n.pred[q] # p
  BY <1>1, <1>5 DEF Linked
<1>7. \A c \in Allocated(h) : c = n.pred[q] <=> h.succ[c] = q
  BY <1>1, <1>5, <1>6 DEF Linked
<1>8. g.succ[p] = q
  BY <1>4, <1>5, <1>6
<1>9. \A c \in Allocated(h) : c # p /\ c \in Allocated(n) /\ c \in Cells
  BY <1>1, <1>5 DEF Allocated
<1>10. \A c \in Allocated(h) : g.succ[c] = IF h.succ[c] = q THEN p ELSE h.succ[c]
  BY <1>1, <1>4, <1>5, <1>6, <1>7, <1>9
<1>11. g.data[p] = e /\ \A c \in Allocated(h) : g.data[c] = h.data[c]
  BY <1>2, <1>9 DEF Heaps
<1>12. QED
  BY <1>1, <1>4, <1>5, <1>8, <1>10, <1>11 DEF Inserts, g, n

\* delete takes a cell out.
LEMMA DeleteDeletes ==
    ASSUME NEW h \in Heaps, Linked(h), NEW p \in Allocated(h)
    PROVE  Deletes(h, DeleteList(h, p), p)
<1> DEFINE g == DeleteList(h, p)
<1>1. /\ g \in Heaps /\ Allocated(g) = Allocated(h) \ {p}
      /\ \A c \in Allocated(h) \ {p} :
            g.succ[c] = IF c = h.pred[p] THEN h.succ[p] ELSE h.succ[c]
  BY DeleteLinks
<1>2. \A c \in Allocated(h) : c = h.pred[p] <=> h.succ[c] = p
  BY DEF Linked
<1>3. \A c \in Allocated(h) \ {p} : g.data[c] = h.data[c]
  BY DEF DeleteList, Heaps, Allocated
<1> HIDE DEF g
<1>4. QED
  BY <1>1, <1>2, <1>3 DEF Deletes, g

\* The cells of a sequence.
CellsOf(s) == {s[k] : k \in 1 .. Len(s)}

\* A ring that a call does not touch stays.
LEMMA RingStays ==
    ASSUME NEW h, NEW g, NEW s, InOrder(h, s),
           \A c \in CellsOf(s) : c \in Allocated(g) /\ g.succ[c] = h.succ[c]
    PROVE  InOrder(g, s)
<1>1. \A k \in 1 .. Len(s) : s[k] \in Allocated(g) /\ g.succ[s[k]] = h.succ[s[k]]
  BY DEF CellsOf
<1>2. s \in Seq(Allocated(g))
  <2>1. s \in Seq(Allocated(h))
    BY DEF InOrder
  <2>2. QED
    BY <1>1, <2>1
<1>3. QED
  BY <1>1, <1>2 DEF InOrder

\* Links inside a ring.
LEMMA RingLinks ==
    ASSUME NEW h, NEW s, InOrder(h, s)
    PROVE  /\ Len(s) \in Nat \ {0} /\ s \in Seq(Allocated(h))
           /\ \A k \in 1 .. Len(s) : /\ s[k] \in Allocated(h) /\ s[k] \in CellsOf(s)
                                     /\ h.succ[s[k]] \in CellsOf(s)
           /\ \A k \in 1 .. Len(s) : h.succ[s[k]] = s[1] <=> k = Len(s)
           /\ Len(s) > 1 => \A k \in 1 .. Len(s) : h.succ[s[k]] = s[2] <=> k = 1
<1>1. /\ Len(s) \in Nat \ {0} /\ s \in Seq(Allocated(h))
      /\ \A i, j \in 1 .. Len(s) : s[i] = s[j] => i = j
      /\ \A k \in 1 .. Len(s) : h.succ[s[k]] = IF k = Len(s) THEN s[1] ELSE s[k + 1]
  BY DEF InOrder
<1>2. \A k \in 1 .. Len(s) : k + 1 \in 1 .. Len(s) \/ k = Len(s)
  BY <1>1
<1>3. 1 \in 1 .. Len(s) /\ (Len(s) > 1 => 2 \in 1 .. Len(s))
  BY <1>1
<1>4. \A k \in 1 .. Len(s) : s[k] \in Allocated(h) /\ s[k] \in CellsOf(s)
  BY <1>1 DEF CellsOf
<1>5. \A k \in 1 .. Len(s) : h.succ[s[k]] \in CellsOf(s)
  BY <1>1, <1>2, <1>3 DEF CellsOf
<1>6. \A k \in 1 .. Len(s) : h.succ[s[k]] = s[1] <=> k = Len(s)
  <2> SUFFICES ASSUME NEW k \in 1 .. Len(s), k # Len(s)
               PROVE  h.succ[s[k]] # s[1]
    BY <1>1
  <2>1. k + 1 \in 1 .. Len(s) /\ k + 1 # 1
    BY <1>1, <1>2
  <2>2. QED
    BY <1>1, <1>3, <2>1
<1>7. Len(s) > 1 => \A k \in 1 .. Len(s) : h.succ[s[k]] = s[2] <=> k = 1
  <2> SUFFICES ASSUME Len(s) > 1, NEW k \in 1 .. Len(s)
               PROVE  h.succ[s[k]] = s[2] <=> k = 1
    OBVIOUS
  <2>1. CASE k = Len(s)
    BY <1>1, <1>3, <2>1
  <2>2. CASE k # Len(s)
    <3>1. k + 1 \in 1 .. Len(s) /\ (k + 1 = 2 <=> k = 1) /\ h.succ[s[k]] = s[k + 1]
      BY <1>1, <1>2, <2>2
    <3>2. QED
      BY <1>1, <1>3, <3>1
  <2>3. QED
    BY <2>1, <2>2
<1>8. QED
  BY <1>1, <1>4, <1>5, <1>6, <1>7

\* A cell that is not followed by itself is followed by the second.
LEMMA SecondCell ==
    ASSUME NEW h, NEW s, InOrder(h, s), h.succ[s[1]] # s[1]
    PROVE  Len(s) > 1 /\ h.succ[s[1]] = s[2]
<1> DEFINE L == Len(s)
<1>1. /\ L \in Nat \ {0}
      /\ \A k \in 1 .. L : h.succ[s[k]] = IF k = L THEN s[1] ELSE s[k + 1]
  BY RingLinks DEF InOrder
<1> HIDE DEF L
<1>2. 1 \in 1 .. L /\ 1 + 1 = 2 /\ (1 = L \/ L > 1)
  BY <1>1
<1>3. h.succ[s[1]] = IF 1 = L THEN s[1] ELSE s[2]
  BY <1>1, <1>2
<1>4. QED
  BY <1>2, <1>3 DEF L

\* A new cell before the first is the last of the ring.
LEMMA RingInsertedLast ==
    ASSUME NEW h, NEW g, NEW s, NEW p, NEW e, InOrder(h, s), Inserts(h, g, p, s[1], e)
    PROVE  InOrder(g, InsertedLast(s, p))
<1> DEFINE L == Len(s)
           t == InsertedLast(s, p)
<1>1. /\ L \in Nat \ {0} /\ s \in Seq(Allocated(h))
      /\ \A k \in 1 .. L : s[k] \in Allocated(h)
      /\ \A i, j \in 1 .. L : s[i] = s[j] => i = j
      /\ \A k \in 1 .. L : h.succ[s[k]] = IF k = L THEN s[1] ELSE s[k + 1]
      /\ \A k \in 1 .. L : h.succ[s[k]] = s[1] <=> k = L
  BY RingLinks DEF InOrder
<1>2. s \in Seq(Allocated(g)) /\ p \in Allocated(g) /\ p \notin Allocated(h)
  BY <1>1 DEF Inserts
<1>3. /\ t \in Seq(Allocated(g)) /\ Len(t) = L + 1
      /\ \A k \in 1 .. (L + 1) : t[k] = IF k = L + 1 THEN p ELSE s[k]
  <2>1. Len(s) > 0 /\ s \in Seq(Allocated(g)) /\ p \in Allocated(g)
    BY <1>1, <1>2
  <2>2. /\ InsertedLast(s, p) \in Seq(Allocated(g)) /\ Len(InsertedLast(s, p)) = Len(s) + 1
        /\ \A k \in 1 .. (Len(s) + 1) :
              InsertedLast(s, p)[k] = IF k = Len(s) + 1 THEN p ELSE s[k]
    BY ONLY <2>1, LastShape
  <2>3. QED
    BY <2>2
<1> HIDE DEF L, t
<1>4. \A i, j \in 1 .. (L + 1) : t[i] = t[j] => i = j
  BY <1>1, <1>2, <1>3
<1>5. /\ \A c \in Allocated(h) : g.succ[c] = IF h.succ[c] = s[1] THEN p ELSE h.succ[c]
      /\ g.succ[p] = s[1]
  BY DEF Inserts
<1>6. ASSUME NEW k \in 1 .. (L + 1)
      PROVE  g.succ[t[k]] = IF k = L + 1 THEN t[1] ELSE t[k + 1]
  <2>1. t[1] = s[1] /\ t[L + 1] = p
    BY <1>1, <1>3
  <2>2. CASE k = L + 1
    BY <1>3, <1>5, <2>1, <2>2
  <2>3. CASE k = L
    <3>1. k \in 1 .. L /\ k # L + 1 /\ t[k] = s[k]
      BY <1>1, <1>3, <2>3
    <3>2. g.succ[s[k]] = p
      BY <1>1, <1>5, <2>3, <3>1
    <3>3. QED
      BY <2>1, <2>3, <3>1, <3>2
  <2>4. CASE k # L + 1 /\ k # L
    <3>1. k \in 1 .. L /\ k + 1 \in 1 .. (L + 1) /\ k + 1 # L + 1
      BY <1>1, <2>4
    <3>2. t[k] = s[k] /\ t[k + 1] = s[k + 1]
      BY <1>3, <2>4, <3>1
    <3>3. g.succ[s[k]] = s[k + 1]
      BY <1>1, <1>5, <2>4, <3>1
    <3>4. QED
      BY <2>4, <3>2, <3>3
  <2>5. QED
    BY <2>2, <2>3, <2>4
<1>7. QED
  BY <1>1, <1>3, <1>4, <1>6 DEF InOrder, t

\* A new cell before the second, or before the first when there is no other, is the
\* second.
LEMMA RingInsertedAfter ==
    ASSUME NEW h, NEW g, NEW s, NEW p, NEW e, InOrder(h, s), Inserts(h, g, p, h.succ[s[1]], e)
    PROVE  InOrder(g, InsertedAfter(s, p))
<1> DEFINE L == Len(s)
           t == InsertedAfter(s, p)
           q == h.succ[s[1]]
<1>1. /\ L \in Nat \ {0} /\ s \in Seq(Allocated(h))
      /\ \A k \in 1 .. L : s[k] \in Allocated(h)
      /\ \A i, j \in 1 .. L : s[i] = s[j] => i = j
      /\ \A k \in 1 .. L : h.succ[s[k]] = IF k = L THEN s[1] ELSE s[k + 1]
      /\ \A k \in 1 .. L : h.succ[s[k]] = s[1] <=> k = L
      /\ L > 1 => \A k \in 1 .. L : h.succ[s[k]] = s[2] <=> k = 1
  BY RingLinks DEF InOrder
<1>2. s \in Seq(Allocated(g)) /\ p \in Allocated(g) /\ p \notin Allocated(h)
  BY <1>1 DEF Inserts
<1>3. /\ t \in Seq(Allocated(g)) /\ Len(t) = L + 1
      /\ \A k \in 1 .. (L + 1) : t[k] = IF k = 1 THEN s[1] ELSE IF k = 2 THEN p ELSE s[k - 1]
  <2>1. Len(s) > 0 /\ s \in Seq(Allocated(g)) /\ p \in Allocated(g)
    BY <1>1, <1>2
  <2>2. /\ InsertedAfter(s, p) \in Seq(Allocated(g)) /\ Len(InsertedAfter(s, p)) = Len(s) + 1
        /\ \A k \in 1 .. (Len(s) + 1) :
              InsertedAfter(s, p)[k] = IF k = 1 THEN s[1] ELSE IF k = 2 THEN p ELSE s[k - 1]
    BY ONLY <2>1, AfterShape
  <2>3. QED
    BY <2>2
<1>4. \A c \in Allocated(h) : g.succ[c] = IF h.succ[c] = q THEN p ELSE h.succ[c]
  BY DEF Inserts
<1>5. g.succ[p] = q
  BY DEF Inserts
<1>6. q = (IF L = 1 THEN s[1] ELSE s[2]) /\ \A k \in 1 .. L : h.succ[s[k]] = q <=> k = 1
  <2>1. 1 \in 1 .. L /\ L \in Nat \ {0} /\ (L = 1 \/ L > 1) /\ 1 + 1 = 2
    <3> HIDE DEF L
    <3>1. QED
      BY <1>1
  <2>2. q = IF 1 = L THEN s[1] ELSE s[1 + 1]
    BY <1>1, <2>1
  <2>3. CASE L = 1
    <3>1. q = s[1]
      BY <2>2, <2>3
    <3>2. QED
      BY <1>1, <2>3, <3>1
  <2>4. CASE L > 1
    <3>1. q = s[2]
      BY <2>1, <2>2, <2>4
    <3> HIDE DEF q
    <3>2. QED
      BY <1>1, <2>4, <3>1
  <2>5. QED
    BY <2>1, <2>3, <2>4
<1> HIDE DEF L, t, q
<1>7. \A k \in 1 .. L : g.succ[s[k]] = IF k = 1 THEN p ELSE IF k = L THEN s[1] ELSE s[k + 1]
  BY <1>1, <1>4, <1>6
<1>8. \A i, j \in 1 .. (L + 1) : t[i] = t[j] => i = j
  <2> SUFFICES ASSUME NEW i \in 1 .. (L + 1), NEW j \in 1 .. (L + 1), t[i] = t[j]
               PROVE  i = j
    OBVIOUS
  <2>1. \A k \in 1 .. (L + 1) : k > 2 => k - 1 \in 1 .. L /\ k - 1 # 1
    BY <1>1
  <2>2. 1 \in 1 .. L /\ s[1] # p /\ \A k \in 1 .. L : s[k] # p
    BY <1>1, <1>2
  <2>3. \A k \in 1 .. (L + 1) :
           \/ k = 1 /\ t[k] = s[1]
           \/ k = 2 /\ t[k] = p
           \/ k > 2 /\ t[k] = s[k - 1]
    BY <1>1, <1>3
  <2>4. CASE i > 2 /\ j > 2
    <3>1. s[i - 1] = s[j - 1] /\ i - 1 \in 1 .. L /\ j - 1 \in 1 .. L
      BY <2>1, <2>3, <2>4
    <3>2. i - 1 = j - 1
      BY <1>1, <3>1
    <3>3. QED
      BY <3>2
  <2>5. CASE ~(i > 2) \/ ~(j > 2)
    BY <1>1, <2>1, <2>2, <2>3, <2>5
  <2>6. QED
    BY <2>4, <2>5
<1>9. ASSUME NEW k \in 1 .. (L + 1)
      PROVE  g.succ[t[k]] = IF k = L + 1 THEN t[1] ELSE t[k + 1]
  <2>0. 1 \in 1 .. L /\ 1 \in 1 .. (L + 1) /\ 2 \in 1 .. (L + 1)
    BY <1>1
  <2>1. t[1] = s[1] /\ t[2] = p /\ 1 \in 1 .. L
    BY <1>3, <2>0
  <2>2. CASE k = 1
    BY <1>1, <1>7, <2>1, <2>2
  <2>3. CASE k = 2
    <3>1. CASE L = 1
      BY <1>1, <1>5, <1>6, <2>1, <2>3, <3>1
    <3>2. CASE L # 1
      <4>1. 3 \in 1 .. (L + 1) /\ 3 - 1 = 2 /\ 2 + 1 = 3
        BY <1>1, <3>2
      <4>2. t[3] = s[2]
        BY <1>3, <4>1
      <4>3. QED
        BY <1>1, <1>5, <1>6, <2>1, <2>3, <3>2, <4>1, <4>2
    <3>3. QED
      BY <3>1, <3>2
  <2>4. CASE k > 2
    <3>1. k - 1 \in 1 .. L /\ k - 1 # 1 /\ (k - 1) + 1 = k /\ k # 1 /\ k # 2
      BY <1>1, <2>4
    <3>2. t[k] = s[k - 1]
      BY <1>3, <3>1
    <3>3. g.succ[s[k - 1]] = IF k - 1 = L THEN s[1] ELSE s[k]
      BY <1>7, <3>1
    <3>4. CASE k = L + 1
      BY <1>1, <2>1, <3>2, <3>3, <3>4
    <3>5. CASE k # L + 1
      <4>1. k + 1 \in 1 .. (L + 1) /\ (k + 1) - 1 = k /\ k + 1 # 1 /\ k + 1 # 2 /\ k - 1 # L
        BY <1>1, <2>4, <3>5
      <4>2. t[k + 1] = s[k]
        BY <1>3, <4>1
      <4>3. QED
        BY <3>2, <3>3, <3>5, <4>1, <4>2
    <3>6. QED
      BY <3>4, <3>5
  <2>5. QED
    BY <1>1, <2>2, <2>3, <2>4
<1>10. QED
  BY <1>1, <1>3, <1>8, <1>9 DEF InOrder, t, L

\* Without its first cell.
LEMMA RingWithoutFirst ==
    ASSUME NEW h, NEW g, NEW s, InOrder(h, s), Len(s) > 1, Deletes(h, g, s[1])
    PROVE  InOrder(g, WithoutFirst(s))
<1> DEFINE L == Len(s)
           t == WithoutFirst(s)
<1>1. /\ L \in Nat /\ L > 1 /\ s \in Seq(Allocated(h))
      /\ \A k \in 1 .. L : s[k] \in Allocated(h)
      /\ \A i, j \in 1 .. L : s[i] = s[j] => i = j
      /\ \A k \in 1 .. L : h.succ[s[k]] = IF k = L THEN s[1] ELSE s[k + 1]
      /\ \A k \in 1 .. L : h.succ[s[k]] = s[1] <=> k = L
  BY RingLinks DEF InOrder
<1>2. /\ t \in Seq(Allocated(h)) /\ Len(t) = L - 1
      /\ \A k \in 1 .. (L - 1) : t[k] = s[k + 1]
  <2>1. Len(s) > 0 /\ s \in Seq(Allocated(h)) /\ s[1] \in Allocated(h)
    BY <1>1
  <2>2. /\ WithoutFirst(s) \in Seq(Allocated(h)) /\ Len(WithoutFirst(s)) = Len(s) - 1
        /\ \A k \in 1 .. (Len(s) - 1) : WithoutFirst(s)[k] = s[k + 1]
    BY ONLY <2>1, FirstShape
  <2>3. QED
    BY <2>2
<1>3. /\ Allocated(g) = Allocated(h) \ {s[1]}
      /\ \A c \in Allocated(h) \ {s[1]} : g.succ[c] = IF h.succ[c] = s[1] THEN h.succ[s[1]] ELSE h.succ[c]
  BY DEF Deletes
<1> HIDE DEF L, t
<1>4. \A k \in 1 .. (L - 1) : k + 1 \in 1 .. L /\ k + 1 # 1
  BY <1>1
<1>5. \A k \in 1 .. (L - 1) : t[k] # s[1]
  BY <1>1, <1>2, <1>4
<1>6. t \in Seq(Allocated(g))
  BY <1>1, <1>2, <1>3, <1>5
<1>7. \A i, j \in 1 .. (L - 1) : t[i] = t[j] => i = j
  <2> SUFFICES ASSUME NEW i \in 1 .. (L - 1), NEW j \in 1 .. (L - 1), t[i] = t[j]
               PROVE  i = j
    OBVIOUS
  <2>1. s[i + 1] = s[j + 1] /\ i + 1 \in 1 .. L /\ j + 1 \in 1 .. L
    BY <1>2, <1>4
  <2>2. i + 1 = j + 1
    BY <1>1, <2>1
  <2>3. QED
    BY <2>2
<1>8. ASSUME NEW k \in 1 .. (L - 1)
      PROVE  g.succ[t[k]] = IF k = L - 1 THEN t[1] ELSE t[k + 1]
  <2>1. t[k] = s[k + 1] /\ k + 1 \in 1 .. L /\ s[k + 1] \in Allocated(h) \ {s[1]}
    BY <1>1, <1>2, <1>4, <1>5
  <2>2. t[1] = s[2] /\ h.succ[s[1]] = s[2]
    <3>1. 1 \in 1 .. (L - 1) /\ 1 \in 1 .. L /\ 1 # L /\ 1 + 1 = 2
      BY <1>1
    <3>2. QED
      BY <1>1, <1>2, <3>1
  <2>3. CASE k = L - 1
    <3>1. k + 1 = L
      BY <1>1, <2>3
    <3>2. QED
      BY <1>1, <1>3, <2>1, <2>2, <2>3, <3>1
  <2>4. CASE k # L - 1
    <3>1. k + 1 # L /\ k + 1 \in 1 .. (L - 1)
      BY <1>1, <2>4
    <3>2. t[k + 1] = s[(k + 1) + 1]
      BY <1>2, <3>1
    <3>3. QED
      BY <1>1, <1>3, <2>1, <2>4, <3>1, <3>2
  <2>5. QED
    BY <2>3, <2>4
<1>9. QED
  BY <1>1, <1>2, <1>6, <1>7, <1>8 DEF InOrder, t

\* Without its second cell.
LEMMA RingWithoutSecond ==
    ASSUME NEW h, NEW g, NEW s, InOrder(h, s), Len(s) > 1, Deletes(h, g, s[2])
    PROVE  InOrder(g, WithoutSecond(s))
<1> DEFINE L == Len(s)
           t == WithoutSecond(s)
<1>1. /\ L \in Nat /\ L > 1 /\ s \in Seq(Allocated(h))
      /\ \A k \in 1 .. L : s[k] \in Allocated(h)
      /\ \A i, j \in 1 .. L : s[i] = s[j] => i = j
      /\ \A k \in 1 .. L : h.succ[s[k]] = IF k = L THEN s[1] ELSE s[k + 1]
      /\ \A k \in 1 .. L : h.succ[s[k]] = s[2] <=> k = 1
  BY RingLinks DEF InOrder
<1>2. /\ t \in Seq(Allocated(h)) /\ Len(t) = L - 1
      /\ \A k \in 1 .. (L - 1) : t[k] = IF k = 1 THEN s[1] ELSE s[k + 1]
  <2>1. Len(s) > 0 /\ Len(s) > 1 /\ s \in Seq(Allocated(h)) /\ s[1] \in Allocated(h)
    BY <1>1
  <2>2. /\ WithoutSecond(s) \in Seq(Allocated(h)) /\ Len(WithoutSecond(s)) = Len(s) - 1
        /\ \A k \in 1 .. (Len(s) - 1) : WithoutSecond(s)[k] = IF k = 1 THEN s[1] ELSE s[k + 1]
    BY ONLY <2>1, SecondShape
  <2>3. QED
    BY <2>2
<1>3. /\ Allocated(g) = Allocated(h) \ {s[2]}
      /\ \A c \in Allocated(h) \ {s[2]} : g.succ[c] = IF h.succ[c] = s[2] THEN h.succ[s[2]] ELSE h.succ[c]
  BY DEF Deletes
<1> HIDE DEF L, t
<1>4. /\ \A k \in 1 .. (L - 1) : k # 1 => k + 1 \in 1 .. L /\ k + 1 # 1 /\ k + 1 # 2
      /\ 1 \in 1 .. L /\ 2 \in 1 .. L
  BY <1>1
<1>5. \A k \in 1 .. (L - 1) : t[k] # s[2]
  BY <1>1, <1>2, <1>4
<1>6. t \in Seq(Allocated(g))
  BY <1>1, <1>2, <1>3, <1>5
<1>7. \A i, j \in 1 .. (L - 1) : t[i] = t[j] => i = j
  BY <1>1, <1>2, <1>4
<1>8. ASSUME NEW k \in 1 .. (L - 1)
      PROVE  g.succ[t[k]] = IF k = L - 1 THEN t[1] ELSE t[k + 1]
  <2>1. t[1] = s[1] /\ 1 \in 1 .. (L - 1)
    BY <1>1, <1>2
  <2>2. h.succ[s[2]] = IF 2 = L THEN s[1] ELSE s[3]
    BY <1>1, <1>4
  <2>3. CASE k = 1
    <3>1. g.succ[s[1]] = h.succ[s[2]]
      BY <1>1, <1>3, <1>4
    <3>2. CASE L = 2
      BY <2>1, <2>2, <2>3, <3>1, <3>2
    <3>3. CASE L # 2
      <4>1. 2 \in 1 .. (L - 1) /\ 2 + 1 = 3
        BY <1>1, <3>3
      <4>2. t[2] = s[3]
        BY <1>2, <4>1
      <4>3. QED
        BY <1>1, <2>1, <2>2, <2>3, <3>1, <3>3, <4>2
    <3>4. QED
      BY <3>2, <3>3
  <2>4. CASE k # 1
    <3>1. t[k] = s[k + 1] /\ k + 1 \in 1 .. L /\ k + 1 # 1 /\ k + 1 # 2
      BY <1>2, <1>4, <2>4
    <3>2. s[k + 1] \in Allocated(h) \ {s[2]}
      BY <1>1, <1>4, <3>1
    <3>3. g.succ[s[k + 1]] = IF k + 1 = L THEN s[1] ELSE s[(k + 1) + 1]
      BY <1>1, <1>3, <3>1, <3>2
    <3>4. CASE k = L - 1
      BY <1>1, <2>1, <3>1, <3>3, <3>4
    <3>5. CASE k # L - 1
      <4>1. k + 1 # L /\ k + 1 \in 1 .. (L - 1)
        BY <1>1, <3>5
      <4>2. t[k + 1] = s[(k + 1) + 1]
        BY <1>2, <3>1, <4>1
      <4>3. QED
        BY <3>1, <3>3, <3>5, <4>1, <4>2
    <3>6. QED
      BY <3>4, <3>5
  <2>5. QED
    BY <2>3, <2>4
<1>9. QED
  BY <1>1, <1>2, <1>6, <1>7, <1>8 DEF InOrder, t

-----------------------------------------------------------------------------
(* The sequences that the lists stand for.                                  *)

DataOf(h, s)  == [k \in 1 .. Len(s) |-> h.data[s[k]]]
FirstOf(s)    == IF s = <<>> THEN NULL ELSE s[1]

\* The cells of each list in order, none of them in two lists.
InRings(seq, h, ls) ==
    /\ seq \in [Lists -> Seq(Cells)]
    /\ \A l \in Lists : /\ ls[l] = FirstOf(seq[l])
                        /\ seq[l] = <<>> \/ InOrder(h, seq[l])
    /\ \A l, m \in Lists : l # m => CellsOf(seq[l]) \cap CellsOf(seq[m]) = {}

AllData(h, seq) == [l \in Lists |-> DataOf(h, seq[l])]

\* The data of a list is as long as its ring.
LEMMA DataShape ==
    ASSUME NEW h \in Heaps, NEW s \in Seq(Cells)
    PROVE  /\ DataOf(h, s) \in Seq(Data \cup {NULL}) /\ Len(DataOf(h, s)) = Len(s)
           /\ \A k \in 1 .. Len(s) : DataOf(h, s)[k] = h.data[s[k]]
<1>1. h.data \in [Cells -> Data \cup {NULL}] /\ Len(s) \in Nat /\ \A k \in 1 .. Len(s) : s[k] \in Cells
  BY DEF Heaps
<1>2. \A k \in 1 .. Len(s) : h.data[s[k]] \in Data \cup {NULL}
  BY <1>1
<1>3. QED
  BY <1>1, <1>2 DEF DataOf

\* What a caller finds from its pointer on is the data of its cells in order.
ContentsRight == \A seq : InRings(seq, heap, list) => Contents = AllData(heap, seq)

\* The walk from the first cell visits the ring in order.
LEMMA ContentsAre == ContentsRight
<1> SUFFICES ASSUME NEW seq, InRings(seq, heap, list), NEW l \in Lists
             PROVE  Contents[l] = DataOf(heap, seq[l])
  BY DEF ContentsRight, Contents, AllData
<1>1. /\ seq[l] \in Seq(Cells) /\ list[l] = FirstOf(seq[l])
      /\ seq[l] = <<>> \/ InOrder(heap, seq[l])
  BY DEF InRings
<1>2. CASE seq[l] = <<>>
  <2>1. list[l] = NULL
    BY <1>1, <1>2 DEF FirstOf
  <2>2. Contents[l] = <<>>
    BY <2>1 DEF Contents
  <2>3. DataOf(heap, <<>>) = <<>>
    BY DEF DataOf
  <2>4. QED
    BY <1>2, <2>2, <2>3
<1>3. CASE seq[l] # <<>>
  <2> DEFINE s == seq[l]
  <2>1. InOrder(heap, s) /\ list[l] = s[1] /\ s \in Seq(Cells)
    BY <1>1, <1>3 DEF FirstOf
  <2>2. list[l] # NULL /\ DOMAIN s = 1 .. Len(s)
    <3>1. Len(s) \in Nat \ {0}
      BY <2>1, RingLinks
    <3>2. s[1] \in Cells
      BY <2>1, <3>1
    <3>3. QED
      BY <2>1, <3>2, ListAssumption
  <2>3. Walk(list[l]) = s
    BY <2>1, WalkIs
  <2> HIDE DEF s
  <2>4. Contents[l] = [k \in DOMAIN s |-> heap.data[s[k]]]
    BY <2>2, <2>3 DEF Contents
  <2>5. QED
    BY <2>2, <2>4 DEF DataOf, s
<1>4. QED
  BY <1>2, <1>3

Becomes(f, l, x) == [f EXCEPT ![l] = x]

\* A call changes no cell outside the ring s, and makes of it t, with no cell of
\* another ring.
Only(h, g, s, t) ==
    /\ t \in Seq(Cells) /\ (t = <<>> \/ InOrder(g, t))
    /\ \A c \in Allocated(h) :
          c \notin CellsOf(s) /\ h.succ[c] \notin CellsOf(s) =>
             c \in Allocated(g) /\ g.succ[c] = h.succ[c] /\ g.data[c] = h.data[c]
    /\ \A c \in CellsOf(t) : c \in Allocated(h) => c \in CellsOf(s)

\* A call that gives list l the ring t, and does not touch the cells of the others.
LEMMA OneChanges ==
    ASSUME NEW h, NEW g, NEW seq, NEW ls \in [Lists -> Cells \cup {NULL}], InRings(seq, h, ls),
           NEW l \in Lists, NEW t, Only(h, g, seq[l], t),
           NEW lt, lt = Becomes(ls, l, FirstOf(t))
    PROVE  /\ InRings(Becomes(seq, l, t), g, lt)
           /\ AllData(g, Becomes(seq, l, t)) = Becomes(AllData(h, seq), l, DataOf(g, t))
<1> DEFINE new == Becomes(seq, l, t)
<1>0. /\ t \in Seq(Cells) /\ (t = <<>> \/ InOrder(g, t))
      /\ \A c \in Allocated(h) :
            c \notin CellsOf(seq[l]) /\ h.succ[c] \notin CellsOf(seq[l]) =>
               c \in Allocated(g) /\ g.succ[c] = h.succ[c] /\ g.data[c] = h.data[c]
      /\ \A c \in CellsOf(t) : c \in Allocated(h) => c \in CellsOf(seq[l])
  BY DEF Only
<1>1. /\ seq \in [Lists -> Seq(Cells)]
      /\ \A m \in Lists : ls[m] = FirstOf(seq[m]) /\ (seq[m] = <<>> \/ InOrder(h, seq[m]))
      /\ \A m, n \in Lists : m # n => CellsOf(seq[m]) \cap CellsOf(seq[n]) = {}
  BY DEF InRings
<1>2. new \in [Lists -> Seq(Cells)] /\ new[l] = t /\ \A m \in Lists \ {l} : new[m] = seq[m]
  BY <1>0, <1>1 DEF Becomes
<1> HIDE DEF new
<1>3. ASSUME NEW m \in Lists \ {l}, NEW c \in CellsOf(seq[m])
      PROVE  /\ c \in Allocated(h) /\ c \in Allocated(g) /\ c \notin CellsOf(t)
             /\ g.succ[c] = h.succ[c] /\ g.data[c] = h.data[c]
  <2>1. seq[m] # <<>>
    BY <1>3 DEF CellsOf
  <2>2. InOrder(h, seq[m])
    BY <1>1, <2>1
  <2>3. c \in Allocated(h) /\ h.succ[c] \in CellsOf(seq[m])
    <3>1. PICK k \in 1 .. Len(seq[m]) : c = seq[m][k]
      BY <1>3 DEF CellsOf
    <3>2. QED
      BY <2>2, <3>1, RingLinks
  <2>4. c \notin CellsOf(seq[l]) /\ h.succ[c] \notin CellsOf(seq[l])
    BY <1>1, <1>3, <2>3
  <2>5. QED
    BY <1>0, <1>1, <1>3, <2>3, <2>4
<1>4. ASSUME NEW m \in Lists \ {l}
      PROVE  (seq[m] = <<>> \/ InOrder(g, seq[m])) /\ DataOf(g, seq[m]) = DataOf(h, seq[m])
  <2>1. CASE seq[m] = <<>>
    BY <2>1 DEF DataOf
  <2>2. CASE seq[m] # <<>>
    <3>1. InOrder(h, seq[m])
      BY <1>1, <2>2
    <3>2. InOrder(g, seq[m])
      BY <1>3, <3>1, RingStays
    <3>3. \A k \in 1 .. Len(seq[m]) : g.data[seq[m][k]] = h.data[seq[m][k]]
      BY <1>3 DEF CellsOf
    <3>4. QED
      BY <3>2, <3>3 DEF DataOf
  <2>3. QED
    BY <2>1, <2>2
<1>5. \A m \in Lists : /\ lt[m] = FirstOf(new[m])
                       /\ new[m] = <<>> \/ InOrder(g, new[m])
  BY <1>0, <1>1, <1>2, <1>4 DEF Becomes
<1>6. \A m, n \in Lists : m # n => CellsOf(new[m]) \cap CellsOf(new[n]) = {}
  <2> SUFFICES ASSUME NEW m \in Lists, NEW n \in Lists, m # n
               PROVE  CellsOf(new[m]) \cap CellsOf(new[n]) = {}
    OBVIOUS
  <2>1. CASE m = l
    BY <1>2, <1>3, <2>1
  <2>2. CASE n = l
    BY <1>2, <1>3, <2>2
  <2>3. CASE m # l /\ n # l
    BY <1>1, <1>2, <2>3
  <2>4. QED
    BY <2>1, <2>2, <2>3
<1>7. AllData(g, new) = Becomes(AllData(h, seq), l, DataOf(g, t))
  BY <1>2, <1>4 DEF AllData, Becomes
<1>8. QED
  BY <1>2, <1>5, <1>6, <1>7 DEF InRings, new

\* What the calls make of the data.
LEMMA DataLast ==
    ASSUME NEW h \in Heaps, NEW g \in Heaps, NEW s \in Seq(Cells), NEW p \in Cells, Len(s) > 0,
           \A k \in 1 .. Len(s) : g.data[s[k]] = h.data[s[k]]
    PROVE  DataOf(g, InsertedLast(s, p)) = InsertedLast(DataOf(h, s), g.data[p])
<1> DEFINE S == Data \cup {NULL}
           x == DataOf(h, s)
           t == InsertedLast(s, p)
           y == DataOf(g, t)
           z == InsertedLast(x, g.data[p])
<1>1. Len(s) \in Nat /\ g.data[p] \in S
  BY DEF Heaps
<1>2. x \in Seq(S) /\ Len(x) = Len(s) /\ \A k \in 1 .. Len(s) : x[k] = h.data[s[k]]
  BY DataShape
<1>3. t \in Seq(Cells) /\ Len(t) = Len(s) + 1
      /\ \A k \in 1 .. (Len(s) + 1) : t[k] = IF k = Len(s) + 1 THEN p ELSE s[k]
  BY LastShape
<1> HIDE DEF S, x, t
<1>4. y \in Seq(S) /\ Len(y) = Len(t) /\ \A k \in 1 .. Len(t) : y[k] = g.data[t[k]]
  BY <1>3, DataShape DEF S
<1>5. z \in Seq(S) /\ Len(z) = Len(x) + 1
      /\ \A k \in 1 .. (Len(x) + 1) : z[k] = IF k = Len(x) + 1 THEN g.data[p] ELSE x[k]
  <2>1. x \in Seq(S) /\ Len(x) > 0 /\ g.data[p] \in S
    BY <1>1, <1>2
  <2>2. QED
    BY ONLY <2>1, LastShape
<1> HIDE DEF y, z
<1>6. \A k \in 1 .. (Len(s) + 1) : k # Len(s) + 1 => k \in 1 .. Len(s)
  BY <1>1
<1>7. \A k \in 1 .. (Len(s) + 1) : y[k] = z[k]
  BY <1>2, <1>3, <1>4, <1>5, <1>6
<1>8. y = z
  <2>1. Len(y) = Len(z) /\ Len(y) = Len(s) + 1
    BY <1>2, <1>3, <1>4, <1>5
  <2>2. QED
    BY <1>4, <1>5, <1>7, <2>1, SeqEqual
<1>9. QED
  BY <1>8 DEF y, z, x, t

LEMMA DataAfter ==
    ASSUME NEW h \in Heaps, NEW g \in Heaps, NEW s \in Seq(Cells), NEW p \in Cells, Len(s) > 0,
           \A k \in 1 .. Len(s) : g.data[s[k]] = h.data[s[k]]
    PROVE  DataOf(g, InsertedAfter(s, p)) = InsertedAfter(DataOf(h, s), g.data[p])
<1> DEFINE S == Data \cup {NULL}
           x == DataOf(h, s)
           t == InsertedAfter(s, p)
           y == DataOf(g, t)
           z == InsertedAfter(x, g.data[p])
<1>1. Len(s) \in Nat /\ g.data[p] \in S
  BY DEF Heaps
<1>2. x \in Seq(S) /\ Len(x) = Len(s) /\ \A k \in 1 .. Len(s) : x[k] = h.data[s[k]]
  BY DataShape
<1>3. t \in Seq(Cells) /\ Len(t) = Len(s) + 1
      /\ \A k \in 1 .. (Len(s) + 1) : t[k] = IF k = 1 THEN s[1] ELSE IF k = 2 THEN p ELSE s[k - 1]
  BY AfterShape
<1> HIDE DEF S, x, t
<1>4. y \in Seq(S) /\ Len(y) = Len(t) /\ \A k \in 1 .. Len(t) : y[k] = g.data[t[k]]
  BY <1>3, DataShape DEF S
<1>5. z \in Seq(S) /\ Len(z) = Len(x) + 1
      /\ \A k \in 1 .. (Len(x) + 1) :
            z[k] = IF k = 1 THEN x[1] ELSE IF k = 2 THEN g.data[p] ELSE x[k - 1]
  <2>1. x \in Seq(S) /\ Len(x) > 0 /\ g.data[p] \in S
    BY <1>1, <1>2
  <2>2. QED
    BY ONLY <2>1, AfterShape
<1> HIDE DEF y, z
<1>6. 1 \in 1 .. Len(s) /\ \A k \in 1 .. (Len(s) + 1) : k # 1 => k - 1 \in 1 .. Len(s)
  BY <1>1
<1>7. ASSUME NEW k \in 1 .. (Len(s) + 1)
      PROVE  y[k] = z[k]
  <2>1. /\ y[k] = g.data[t[k]]
        /\ t[k] = IF k = 1 THEN s[1] ELSE IF k = 2 THEN p ELSE s[k - 1]
        /\ z[k] = IF k = 1 THEN x[1] ELSE IF k = 2 THEN g.data[p] ELSE x[k - 1]
    BY <1>2, <1>3, <1>4, <1>5
  <2>2. CASE k = 1
    BY <1>2, <1>6, <2>1, <2>2
  <2>3. CASE k = 2
    BY <2>1, <2>3
  <2>4. CASE k # 1 /\ k # 2
    <3>1. k - 1 \in 1 .. Len(s) /\ y[k] = g.data[s[k - 1]] /\ z[k] = x[k - 1]
      BY <1>6, <2>1, <2>4
    <3>2. QED
      BY <1>2, <3>1
  <2>5. QED
    BY <2>2, <2>3, <2>4
<1>8. y = z
  <2>1. Len(y) = Len(z) /\ Len(y) = Len(s) + 1
    BY <1>2, <1>3, <1>4, <1>5
  <2>2. QED
    BY <1>4, <1>5, <1>7, <2>1, SeqEqual
<1>9. QED
  BY <1>8 DEF y, z, x, t

LEMMA DataFirst ==
    ASSUME NEW h \in Heaps, NEW g \in Heaps, NEW s \in Seq(Cells), Len(s) > 0,
           \A k \in 2 .. Len(s) : g.data[s[k]] = h.data[s[k]]
    PROVE  DataOf(g, WithoutFirst(s)) = WithoutFirst(DataOf(h, s))
<1> DEFINE S == Data \cup {NULL}
           x == DataOf(h, s)
           t == WithoutFirst(s)
           y == DataOf(g, t)
           z == WithoutFirst(x)
<1>1. Len(s) \in Nat
  OBVIOUS
<1>2. x \in Seq(S) /\ Len(x) = Len(s) /\ \A k \in 1 .. Len(s) : x[k] = h.data[s[k]]
  BY DataShape
<1>3. t \in Seq(Cells) /\ Len(t) = Len(s) - 1 /\ \A k \in 1 .. (Len(s) - 1) : t[k] = s[k + 1]
  BY FirstShape
<1> HIDE DEF S, x, t
<1>4. y \in Seq(S) /\ Len(y) = Len(t) /\ \A k \in 1 .. Len(t) : y[k] = g.data[t[k]]
  BY <1>3, DataShape DEF S
<1>5. z \in Seq(S) /\ Len(z) = Len(x) - 1 /\ \A k \in 1 .. (Len(x) - 1) : z[k] = x[k + 1]
  <2>1. x \in Seq(S) /\ Len(x) > 0
    BY <1>1, <1>2
  <2>2. QED
    BY ONLY <2>1, FirstShape
<1> HIDE DEF y, z
<1>6. \A k \in 1 .. (Len(s) - 1) : k + 1 \in 2 .. Len(s) /\ k + 1 \in 1 .. Len(s)
  BY <1>1
<1>7. ASSUME NEW k \in 1 .. (Len(s) - 1)
      PROVE  y[k] = z[k]
  <2>1. y[k] = g.data[s[k + 1]]
    BY <1>3, <1>4
  <2>2. z[k] = h.data[s[k + 1]]
    BY <1>2, <1>5, <1>6
  <2>3. QED
    BY <1>6, <2>1, <2>2
<1>8. y = z
  <2>1. Len(y) = Len(z) /\ Len(y) = Len(s) - 1
    BY <1>2, <1>3, <1>4, <1>5
  <2>2. QED
    BY <1>4, <1>5, <1>7, <2>1, SeqEqual
<1>9. QED
  BY <1>8 DEF y, z, x, t

LEMMA DataSecond ==
    ASSUME NEW h \in Heaps, NEW g \in Heaps, NEW s \in Seq(Cells), Len(s) > 1,
           \A k \in 1 .. Len(s) : k # 2 => g.data[s[k]] = h.data[s[k]]
    PROVE  DataOf(g, WithoutSecond(s)) = WithoutSecond(DataOf(h, s))
<1> DEFINE S == Data \cup {NULL}
           x == DataOf(h, s)
           t == WithoutSecond(s)
           y == DataOf(g, t)
           z == WithoutSecond(x)
<1>1. Len(s) \in Nat
  OBVIOUS
<1>2. x \in Seq(S) /\ Len(x) = Len(s) /\ \A k \in 1 .. Len(s) : x[k] = h.data[s[k]]
  BY DataShape
<1>3. t \in Seq(Cells) /\ Len(t) = Len(s) - 1
      /\ \A k \in 1 .. (Len(s) - 1) : t[k] = IF k = 1 THEN s[1] ELSE s[k + 1]
  BY SecondShape
<1> HIDE DEF S, x, t
<1>4. y \in Seq(S) /\ Len(y) = Len(t) /\ \A k \in 1 .. Len(t) : y[k] = g.data[t[k]]
  BY <1>3, DataShape DEF S
<1>5. z \in Seq(S) /\ Len(z) = Len(x) - 1
      /\ \A k \in 1 .. (Len(x) - 1) : z[k] = IF k = 1 THEN x[1] ELSE x[k + 1]
  <2>1. x \in Seq(S) /\ Len(x) > 1
    BY <1>1, <1>2
  <2>2. QED
    BY ONLY <2>1, SecondShape
<1> HIDE DEF y, z
<1>6. /\ 1 \in 1 .. Len(s) /\ 1 # 2
      /\ \A k \in 1 .. (Len(s) - 1) : k # 1 => k + 1 \in 1 .. Len(s) /\ k + 1 # 2
  BY <1>1
<1>7. ASSUME NEW k \in 1 .. (Len(s) - 1)
      PROVE  y[k] = z[k]
  <2>1. y[k] = g.data[t[k]] /\ z[k] = IF k = 1 THEN x[1] ELSE x[k + 1]
    BY <1>2, <1>3, <1>4, <1>5
  <2>2. CASE k = 1
    <3>1. y[k] = g.data[s[1]] /\ z[k] = h.data[s[1]]
      BY <1>2, <1>3, <1>6, <2>1, <2>2
    <3>2. QED
      BY <1>6, <3>1
  <2>3. CASE k # 1
    <3>1. k + 1 \in 1 .. Len(s) /\ k + 1 # 2
      BY <1>6, <2>3
    <3>2. y[k] = g.data[s[k + 1]] /\ z[k] = h.data[s[k + 1]]
      BY <1>2, <1>3, <2>1, <2>3, <3>1
    <3>3. QED
      BY <3>1, <3>2
  <2>4. QED
    BY <2>2, <2>3
<1>8. y = z
  <2>1. Len(y) = Len(z) /\ Len(y) = Len(s) - 1
    BY <1>2, <1>3, <1>4, <1>5
  <2>2. QED
    BY <1>4, <1>5, <1>7, <2>1, SeqEqual
<1>9. QED
  BY <1>8 DEF y, z, x, t

-----------------------------------------------------------------------------
(* What the callers' operations do to the sequences.                        *)

RingsHeld == \E seq : InRings(seq, heap, list)

\* A call that changes the ring of list l changes the data of list l only.
LEMMA CallChanges ==
    ASSUME ListInv, NEW seq, InRings(seq, heap, list), NEW l \in Lists,
           NEW t, Only(heap, heap', seq[l], t), list' = Becomes(list, l, FirstOf(t))
    PROVE  RingsHeld' /\ Contents' = Becomes(Contents, l, DataOf(heap', t))
<1> DEFINE new == Becomes(seq, l, t)
<1>1. list \in [Lists -> Cells \cup {NULL}]
  BY DEF ListInv, TypeOK
<1>2. /\ InRings(new, heap', list')
      /\ AllData(heap', new) = Becomes(AllData(heap, seq), l, DataOf(heap', t))
  BY <1>1, OneChanges
<1> HIDE DEF new
<1>3. ContentsRight'
  BY ContentsAre, PTL
<1>4. Contents = AllData(heap, seq) /\ Contents' = AllData(heap', new)
  <2>1. \A s : InRings(s, heap, list) => Contents = AllData(heap, s)
    BY ContentsAre DEF ContentsRight
  <2>2. \A s : InRings(s, heap', list') => Contents' = AllData(heap', s)
    BY <1>3 DEF ContentsRight
  <2>3. QED
    BY <1>2, <2>1, <2>2
<1>5. QED
  BY <1>2, <1>4 DEF RingsHeld

\* The ring of a list that is not empty.
LEMMA ListRing ==
    ASSUME ListInv, NEW seq, InRings(seq, heap, list), NEW l \in Lists, list[l] # NULL
    PROVE  /\ seq[l] \in Seq(Cells) /\ InOrder(heap, seq[l]) /\ Len(seq[l]) \in Nat \ {0}
           /\ seq[l][1] = list[l] /\ list[l] \in CellsOf(seq[l])
           /\ heap.succ[list[l]] \in CellsOf(seq[l])
           /\ \A k \in 1 .. Len(seq[l]) : seq[l][k] \in Allocated(heap) /\ seq[l][k] \in CellsOf(seq[l])
           /\ Contents[l] = DataOf(heap, seq[l])
           /\ Contents[l] \in Seq(Data \cup {NULL}) /\ Len(Contents[l]) = Len(seq[l])
           /\ heap \in Heaps /\ Linked(heap) /\ list \in [Lists -> Cells \cup {NULL}]
<1>1. heap \in Heaps /\ Linked(heap) /\ list \in [Lists -> Cells \cup {NULL}]
  BY DEF ListInv, TypeOK, LinksInverse
<1>2. seq[l] \in Seq(Cells) /\ InOrder(heap, seq[l]) /\ seq[l][1] = list[l]
  BY DEF InRings, FirstOf
<1>3. /\ Len(seq[l]) \in Nat \ {0} /\ 1 \in 1 .. Len(seq[l])
      /\ \A k \in 1 .. Len(seq[l]) : /\ seq[l][k] \in Allocated(heap) /\ seq[l][k] \in CellsOf(seq[l])
                                     /\ heap.succ[seq[l][k]] \in CellsOf(seq[l])
  BY <1>2, RingLinks
<1>4. Contents[l] = DataOf(heap, seq[l])
  BY ContentsAre DEF ContentsRight, AllData
<1>5. Contents[l] \in Seq(Data \cup {NULL}) /\ Len(Contents[l]) = Len(seq[l])
  BY <1>1, <1>2, <1>4, DataShape
<1>6. QED
  BY <1>1, <1>2, <1>3, <1>4, <1>5

\* A list with no ring is empty.
LEMMA ListEmpty ==
    ASSUME ListInv, NEW seq, InRings(seq, heap, list), NEW l \in Lists, list[l] = NULL
    PROVE  seq[l] = <<>> /\ CellsOf(seq[l]) = {} /\ Contents[l] = <<>>
<1>1. seq[l] = <<>>
  <2> SUFFICES ASSUME InOrder(heap, seq[l]), seq[l] \in Seq(Cells), NULL = FirstOf(seq[l])
               PROVE  FALSE
    BY DEF InRings
  <2>1. 1 \in 1 .. Len(seq[l]) /\ seq[l] # <<>>
    BY RingLinks
  <2>2. seq[l][1] \in Cells
    BY <2>1
  <2>3. QED
    BY <2>1, <2>2, ListAssumption DEF FirstOf
<1>2. QED
  BY <1>1 DEF CellsOf, Contents

\* The first call on an empty list.
LEMMA StartMakes ==
    ASSUME ListInv, RingsHeld, NEW l \in Lists, NEW d \in Data, Start(l, d)
    PROVE  RingsHeld' /\ Contents[l] = <<>> /\ Contents' = Becomes(Contents, l, <<d>>)
<1>1. PICK seq : InRings(seq, heap, list)
  BY DEF RingsHeld
<1>2. PICK p \in Cells \ Allocated(heap) :
         /\ list[l] = NULL /\ heap' = NewList(heap, p, d) /\ list' = [list EXCEPT ![l] = p]
  BY DEF Start, Fresh
<1>3. seq[l] = <<>> /\ CellsOf(seq[l]) = {} /\ Contents[l] = <<>>
  BY <1>1, <1>2, ListEmpty
<1>4. heap \in Heaps /\ Linked(heap) /\ heap.data \in [Cells -> Data \cup {NULL}]
  BY DEF ListInv, TypeOK, LinksInverse, Heaps
<1>5. /\ heap' \in Heaps /\ Allocated(heap') = Allocated(heap) \cup {p} /\ heap'.succ[p] = p
      /\ \A c \in Allocated(heap) : heap'.succ[c] = heap.succ[c]
  BY <1>2, <1>4, NewListLinks
<1>6. heap'.data = [heap.data EXCEPT ![p] = d]
  BY <1>2 DEF NewList
<1>7. heap'.data[p] = d /\ \A c \in Allocated(heap) : heap'.data[c] = heap.data[c]
  BY <1>2, <1>4, <1>6 DEF Allocated
<1> DEFINE t == <<p>>
<1>8. t \in Seq(Cells) /\ t \in Seq(Allocated(heap')) /\ Len(t) = 1 /\ t[1] = p /\ t # <<>>
  BY <1>2, <1>5
<1>9. FirstOf(t) = p /\ CellsOf(t) = {p} /\ DataOf(heap', t) = <<d>>
  BY <1>7, <1>8 DEF FirstOf, CellsOf, DataOf
<1> HIDE DEF t
<1>10. InOrder(heap', t)
  BY <1>5, <1>8 DEF InOrder
<1>11. RingsHeld' /\ Contents' = Becomes(Contents, l, DataOf(heap', t))
  <2>1. list' = Becomes(list, l, FirstOf(t))
    BY <1>2, <1>9 DEF Becomes
  <2>2. Only(heap, heap', seq[l], t)
    BY <1>2, <1>5, <1>7, <1>8, <1>9, <1>10 DEF Only
  <2>3. QED
    BY <1>1, <2>1, <2>2, CallChanges
<1>12. QED
  BY <1>3, <1>9, <1>11

\* A call puts a new cell in the ring of list l, and the first stays the first.
LEMMA CallInserts ==
    ASSUME ListInv, NEW seq, InRings(seq, heap, list), NEW l \in Lists, list[l] # NULL,
           NEW p, NEW d, NEW q \in CellsOf(seq[l]), Inserts(heap, heap', p, q, d), list' = list,
           NEW t, InOrder(heap', t), t[1] = list[l],
           \A k \in 1 .. Len(t) : t[k] = p \/ t[k] \in CellsOf(seq[l])
    PROVE  RingsHeld' /\ Contents' = Becomes(Contents, l, DataOf(heap', t))
<1>1. /\ list \in [Lists -> Cells \cup {NULL}] /\ p \notin Allocated(heap)
      /\ \A c \in Allocated(heap) :
            /\ c \in Allocated(heap') /\ heap'.data[c] = heap.data[c]
            /\ heap.succ[c] # q => heap'.succ[c] = heap.succ[c]
  BY DEF ListInv, TypeOK, Inserts
<1>2. Len(t) \in Nat \ {0} /\ t \in Seq(Allocated(heap'))
  BY RingLinks
<1>3. t \in Seq(Cells) /\ t # <<>>
  BY <1>2 DEF Allocated
<1>4. \A c \in CellsOf(t) : c \in Allocated(heap) => c \in CellsOf(seq[l])
  BY <1>1 DEF CellsOf
<1>5. Only(heap, heap', seq[l], t)
  BY <1>1, <1>3, <1>4 DEF Only
<1>6. list' = Becomes(list, l, FirstOf(t))
  BY <1>1, <1>3 DEF Becomes, FirstOf
<1>7. QED
  BY <1>5, <1>6, CallChanges

\* A call takes a cell out of the ring of list l.
LEMMA CallDeletes ==
    ASSUME ListInv, NEW seq, InRings(seq, heap, list), NEW l \in Lists,
           NEW p \in CellsOf(seq[l]), Deletes(heap, heap', p),
           NEW t \in Seq(Cells), t = <<>> \/ InOrder(heap', t),
           list' = Becomes(list, l, FirstOf(t)),
           \A k \in 1 .. Len(t) : t[k] \in CellsOf(seq[l])
    PROVE  RingsHeld' /\ Contents' = Becomes(Contents, l, DataOf(heap', t))
<1>1. \A c \in Allocated(heap) \ {p} :
         /\ c \in Allocated(heap') /\ heap'.data[c] = heap.data[c]
         /\ heap.succ[c] # p => heap'.succ[c] = heap.succ[c]
  BY DEF Deletes
<1>2. \A c \in CellsOf(t) : c \in CellsOf(seq[l])
  BY DEF CellsOf
<1>3. Only(heap, heap', seq[l], t)
  BY <1>1, <1>2 DEF Only
<1>4. QED
  BY <1>3, CallChanges

\* The lines of append, in the order of the two callers.
LEMMA LastMakes ==
    ASSUME ListInv, RingsHeld, NEW l \in Lists, NEW d \in Data,
           InsertLast(l, d) \/ InsertBefore(l, d)
    PROVE  /\ RingsHeld' /\ Contents[l] # <<>>
           /\ Contents' = Becomes(Contents, l, InsertedLast(Contents[l], d))
<1>1. PICK seq : InRings(seq, heap, list)
  BY DEF RingsHeld
<1> DEFINE s == seq[l]
<1>2. PICK p \in Cells, a \in Cells, b \in Cells :
         /\ p \notin Allocated(heap) /\ a \in {p, list[l]} /\ b \in {p, list[l]} \ {a} /\ list[l] # NULL /\ list' = list /\ heap' = AppendRing(NewList(heap, p, d), a, b)
  <2>1. PICK p \in Cells \ Allocated(heap) :
           /\ list[l] # NULL /\ list' = list
           /\ \/ heap' = AppendRing(NewList(heap, p, d), list[l], p)
              \/ heap' = AppendRing(NewList(heap, p, d), p, list[l])
    BY DEF InsertLast, InsertBefore, Fresh
  <2>2. list[l] # p /\ list[l] \in Cells
    BY <2>1, RingFromList DEF Allocated
  <2>3. QED
    BY <2>1, <2>2
<1>3. /\ s \in Seq(Cells) /\ InOrder(heap, s) /\ Len(s) \in Nat \ {0} /\ s[1] = list[l]
      /\ list[l] \in CellsOf(s) /\ heap \in Heaps /\ Linked(heap)
      /\ \A k \in 1 .. Len(s) : s[k] \in Allocated(heap) /\ s[k] \in CellsOf(s)
      /\ Contents[l] = DataOf(heap, s) /\ Len(Contents[l]) = Len(s)
  BY <1>1, <1>2, ListRing
<1> DEFINE t == InsertedLast(s, p)
<1>4. Inserts(heap, heap', p, s[1], d)
  <2>1. list[l] \in Allocated(heap)
    BY <1>2, RingFromList
  <2>2. QED
    BY <1>2, <1>3, <2>1, AppendInserts
<1>5. InOrder(heap', t)
  BY <1>3, <1>4, RingInsertedLast
<1>6. /\ heap' \in Heaps /\ heap'.data[p] = d
      /\ \A k \in 1 .. Len(s) : heap'.data[s[k]] = heap.data[s[k]]
  BY <1>3, <1>4 DEF Inserts
<1>7. DataOf(heap', t) = InsertedLast(Contents[l], d)
  BY <1>2, <1>3, <1>6, DataLast
<1>8. t[1] = list[l] /\ \A k \in 1 .. Len(t) : t[k] = p \/ t[k] \in CellsOf(s)
  <2> HIDE DEF s
  <2>1. /\ Len(t) = Len(s) + 1
        /\ \A k \in 1 .. (Len(s) + 1) : t[k] = IF k = Len(s) + 1 THEN p ELSE s[k]
    BY <1>2, <1>3, LastShape
  <2> HIDE DEF t
  <2>2. 1 \in 1 .. (Len(s) + 1) /\ 1 # Len(s) + 1
        /\ \A k \in 1 .. (Len(s) + 1) : k # Len(s) + 1 => k \in 1 .. Len(s)
    BY <1>3
  <2>3. QED
    BY <1>3, <2>1, <2>2
<1> HIDE DEF t
<1>9. RingsHeld' /\ Contents' = Becomes(Contents, l, DataOf(heap', t))
  BY <1>1, <1>2, <1>3, <1>4, <1>5, <1>8, CallInserts
<1>10. Contents[l] # <<>>
  BY <1>3
<1>11. QED
  BY <1>7, <1>9, <1>10

\* insert_after puts its cell behind the first.
LEMMA AfterMakes ==
    ASSUME ListInv, RingsHeld, NEW l \in Lists, NEW d \in Data, InsertAfter(l, d)
    PROVE  /\ RingsHeld' /\ Contents[l] # <<>>
           /\ Contents' = Becomes(Contents, l, InsertedAfter(Contents[l], d))
<1>1. PICK seq : InRings(seq, heap, list)
  BY DEF RingsHeld
<1> DEFINE s == seq[l]
<1>2. PICK p \in Cells \ Allocated(heap) :
         /\ list[l] # NULL /\ list' = list
         /\ heap' = AppendRing(NewList(heap, p, d), NewList(heap, p, d).succ[list[l]], p)
  BY DEF InsertAfter, Fresh
<1>3. /\ s \in Seq(Cells) /\ InOrder(heap, s) /\ Len(s) \in Nat \ {0} /\ s[1] = list[l]
      /\ heap.succ[list[l]] \in CellsOf(s) /\ heap \in Heaps /\ Linked(heap)
      /\ \A k \in 1 .. Len(s) : s[k] \in Allocated(heap) /\ s[k] \in CellsOf(s)
      /\ Contents[l] = DataOf(heap, s) /\ Len(Contents[l]) = Len(s)
  BY <1>1, <1>2, ListRing
<1> DEFINE t == InsertedAfter(s, p)
           q == heap.succ[s[1]]
<1>4. Inserts(heap, heap', p, q, d)
  <2>1. list[l] \in Allocated(heap) /\ q \in Allocated(heap)
    BY <1>2, <1>3, RingFromList
  <2>2. NewList(heap, p, d).succ[list[l]] = q
    BY <1>2, <1>3, <2>1, NewListLinks
  <2>3. q # p
    BY <2>1
  <2> HIDE DEF q
  <2>4. heap' = AppendRing(NewList(heap, p, d), q, p)
    BY <1>2, <2>2
  <2>5. QED
    BY <1>3, <2>1, <2>3, <2>4, AppendInserts
<1>5. InOrder(heap', t)
  BY <1>3, <1>4, RingInsertedAfter
<1>6. /\ heap' \in Heaps /\ heap'.data[p] = d
      /\ \A k \in 1 .. Len(s) : heap'.data[s[k]] = heap.data[s[k]]
  BY <1>3, <1>4 DEF Inserts
<1>7. DataOf(heap', t) = InsertedAfter(Contents[l], d)
  BY <1>2, <1>3, <1>6, DataAfter
<1>8. t[1] = list[l] /\ \A k \in 1 .. Len(t) : t[k] = p \/ t[k] \in CellsOf(s)
  <2> HIDE DEF s
  <2>1. /\ Len(t) = Len(s) + 1
        /\ \A k \in 1 .. (Len(s) + 1) : t[k] = IF k = 1 THEN s[1] ELSE IF k = 2 THEN p ELSE s[k - 1]
    BY <1>2, <1>3, AfterShape
  <2> HIDE DEF t
  <2>2. 1 \in 1 .. (Len(s) + 1) /\ 1 \in 1 .. Len(s)
        /\ \A k \in 1 .. (Len(s) + 1) : k # 1 => k - 1 \in 1 .. Len(s)
    BY <1>3
  <2>3. QED
    BY <1>3, <2>1, <2>2
<1> HIDE DEF t
<1>9. RingsHeld' /\ Contents' = Becomes(Contents, l, DataOf(heap', t))
  BY <1>1, <1>2, <1>3, <1>4, <1>5, <1>8, CallInserts
<1>10. Contents[l] # <<>>
  BY <1>3
<1>11. QED
  BY <1>7, <1>9, <1>10

\* The last cell of a ring goes: no ring is left.
LEMMA OnlyCellGoes ==
    ASSUME ListInv, NEW seq, InRings(seq, heap, list), NEW l \in Lists, list[l] # NULL,
           heap.succ[list[l]] = list[l], heap' = DeleteList(heap, list[l]),
           list' = Becomes(list, l, NULL)
    PROVE  RingsHeld' /\ Len(Contents[l]) = 1 /\ Contents' = Becomes(Contents, l, <<>>)
<1> DEFINE s == seq[l]
<1>1. /\ s \in Seq(Cells) /\ InOrder(heap, s) /\ Len(s) \in Nat \ {0} /\ s[1] = list[l]
      /\ list[l] \in CellsOf(s) /\ heap \in Heaps /\ Linked(heap)
      /\ Len(Contents[l]) = Len(s)
  BY ListRing
<1>2. Len(Contents[l]) = 1
  <2>1. \A k \in 1 .. Len(s) : heap.succ[s[k]] = s[1] <=> k = Len(s)
    BY <1>1, RingLinks
  <2> HIDE DEF s
  <2>2. 1 \in 1 .. Len(s)
    BY <1>1
  <2>3. QED
    BY <1>1, <2>1, <2>2
<1>3. Deletes(heap, heap', list[l])
  <2>1. list[l] \in Allocated(heap)
    BY RingFromList
  <2>2. QED
    BY <1>1, <2>1, DeleteDeletes
<1>4. FirstOf(<<>>) = NULL /\ DataOf(heap', <<>>) = <<>> /\ <<>> \in Seq(Cells) /\ Len(<<>>) = 0
  BY DEF FirstOf, DataOf
<1> HIDE DEF s
<1>5. RingsHeld' /\ Contents' = Becomes(Contents, l, DataOf(heap', <<>>))
  <2>1. list' = Becomes(list, l, FirstOf(<<>>))
    BY <1>4
  <2>2. \A k \in 1 .. Len(<<>>) : <<>>[k] \in CellsOf(seq[l])
    BY <1>4
  <2>3. QED
    BY <1>1, <1>3, <1>4, <2>1, <2>2, CallDeletes DEF s
<1>6. QED
  BY <1>2, <1>4, <1>5

\* remove_first takes the first cell.
LEMMA RemoveMakes ==
    ASSUME ListInv, RingsHeld, NEW l \in Lists, RemoveFirst(l)
    PROVE  /\ RingsHeld' /\ Contents[l] # <<>>
           /\ Contents' = Becomes(Contents, l, WithoutFirst(Contents[l]))
<1>1. PICK seq : InRings(seq, heap, list)
  BY DEF RingsHeld
<1> DEFINE s == seq[l]
<1>2. /\ list[l] # NULL /\ heap' = DeleteList(heap, list[l])
      /\ list' = Becomes(list, l, IF list[l] = heap.succ[list[l]] THEN NULL ELSE heap.succ[list[l]])
  BY DEF RemoveFirst, Becomes
<1>3. /\ s \in Seq(Cells) /\ InOrder(heap, s) /\ Len(s) \in Nat \ {0} /\ s[1] = list[l]
      /\ list[l] \in CellsOf(s) /\ heap \in Heaps /\ Linked(heap)
      /\ \A k \in 1 .. Len(s) : s[k] \in Allocated(heap) /\ s[k] \in CellsOf(s)
      /\ Contents[l] = DataOf(heap, s) /\ Len(Contents[l]) = Len(s)
      /\ Contents[l] \in Seq(Data \cup {NULL})
  BY <1>1, <1>2, ListRing
<1>4. Contents[l] # <<>>
  BY <1>3
<1>5. CASE list[l] = heap.succ[list[l]]
  <2>1. /\ RingsHeld' /\ Len(Contents[l]) = 1 /\ Contents' = Becomes(Contents, l, <<>>)
    BY <1>1, <1>2, <1>5, OnlyCellGoes
  <2>2. WithoutFirst(Contents[l]) = <<>>
    <3> DEFINE x == Contents[l]
    <3>1. x \in Seq(Data \cup {NULL}) /\ Len(x) = 1 /\ Len(x) > 0
      BY <1>3, <2>1
    <3> HIDE DEF x
    <3>2. WithoutFirst(x) \in Seq(Data \cup {NULL}) /\ Len(WithoutFirst(x)) = Len(x) - 1
      BY ONLY <3>1, FirstShape
    <3>3. QED
      BY <3>1, <3>2 DEF x
  <2>3. QED
    BY <1>4, <2>1, <2>2
<1>6. CASE list[l] # heap.succ[list[l]]
  <2> DEFINE t == WithoutFirst(s)
  <2>1. Deletes(heap, heap', s[1])
    <3>1. list[l] \in Allocated(heap)
      BY <1>2, RingFromList
    <3>2. QED
      BY <1>2, <1>3, <3>1, DeleteDeletes
  <2>2. heap.succ[s[1]] = s[2]
    BY <1>3, <1>6, SecondCell
  <2>3. Len(s) > 1
    BY <1>3, <1>6, SecondCell
  <2>4. InOrder(heap', t)
    BY <1>3, <2>1, <2>3, RingWithoutFirst
  <2>5. t \in Seq(Cells) /\ Len(t) = Len(s) - 1 /\ \A k \in 1 .. (Len(s) - 1) : t[k] = s[k + 1]
    BY <1>3, FirstShape
  <2>6. DataOf(heap', t) = WithoutFirst(Contents[l])
    <3>1. \A c \in Allocated(heap) \ {s[1]} : heap'.data[c] = heap.data[c]
      BY <2>1 DEF Deletes
    <3>2. \A k \in 2 .. Len(s) : s[k] \in Allocated(heap) /\ s[k] # s[1]
      BY <1>3 DEF InOrder
    <3>3. \A k \in 2 .. Len(s) : heap'.data[s[k]] = heap.data[s[k]]
      BY <3>1, <3>2
    <3>4. heap' \in Heaps
      BY <2>1 DEF Deletes
    <3>5. QED
      BY <1>3, <3>3, <3>4, DataFirst
  <2> HIDE DEF s, t
  <2>7. t[1] = s[2] /\ t # <<>> /\ \A k \in 1 .. Len(t) : t[k] \in CellsOf(s)
    <3>1. 1 \in 1 .. (Len(s) - 1) /\ \A k \in 1 .. (Len(s) - 1) : k + 1 \in 1 .. Len(s)
      BY <1>3, <2>3
    <3>2. QED
      BY <1>3, <2>3, <2>5, <3>1
  <2>8. list' = Becomes(list, l, FirstOf(t))
    <3>1. FirstOf(t) = heap.succ[list[l]]
      BY <1>3, <2>2, <2>3, <2>7 DEF FirstOf
    <3>2. QED
      BY <1>2, <1>6, <3>1
  <2>9. s[1] \in CellsOf(seq[l]) /\ \A k \in 1 .. Len(t) : t[k] \in CellsOf(seq[l])
    BY <1>3, <2>7 DEF s
  <2>10. RingsHeld' /\ Contents' = Becomes(Contents, l, DataOf(heap', t))
    BY <1>1, <2>1, <2>4, <2>5, <2>8, <2>9, CallDeletes
  <2>11. QED
    BY <1>4, <2>6, <2>10
<1>7. QED
  BY <1>5, <1>6

\* A round of free_list takes the second cell, and the last call the first.
LEMMA FreeNextMakes ==
    ASSUME ListInv, RingsHeld, NEW l \in Lists, FreeNext(l)
    PROVE  /\ RingsHeld' /\ Len(Contents[l]) > 1
           /\ Contents' = Becomes(Contents, l, WithoutSecond(Contents[l]))
<1>1. PICK seq : InRings(seq, heap, list)
  BY DEF RingsHeld
<1> DEFINE s == seq[l]
<1>2. /\ list[l] # NULL /\ heap' = DeleteList(heap, heap.succ[list[l]]) /\ list' = list
      /\ list[l] # heap.succ[list[l]] /\ list \in [Lists -> Cells \cup {NULL}]
  BY DEF FreeNext, ListInv, TypeOK
<1>3. /\ s \in Seq(Cells) /\ InOrder(heap, s) /\ Len(s) \in Nat \ {0} /\ s[1] = list[l]
      /\ heap.succ[list[l]] \in CellsOf(s) /\ heap \in Heaps /\ Linked(heap)
      /\ \A k \in 1 .. Len(s) : s[k] \in Allocated(heap) /\ s[k] \in CellsOf(s)
      /\ Contents[l] = DataOf(heap, s) /\ Len(Contents[l]) = Len(s)
  BY <1>1, <1>2, ListRing
<1> DEFINE t == WithoutSecond(s)
<1>4. heap.succ[s[1]] = s[2] /\ Len(s) > 1
  BY <1>2, <1>3, SecondCell
<1>5. Len(s) > 1 /\ 1 \in 1 .. Len(s)
  <2> HIDE DEF s
  <2>1. QED
    BY <1>3, <1>4
<1>6. heap.succ[list[l]] = s[2] /\ 2 \in 1 .. Len(s)
  <2> HIDE DEF s
  <2>1. QED
    BY <1>3, <1>4, <1>5
<1>7. Deletes(heap, heap', s[2])
  BY <1>2, <1>3, <1>6, DeleteDeletes
<1>8. InOrder(heap', t)
  BY <1>3, <1>5, <1>7, RingWithoutSecond
<1>9. t \in Seq(Cells) /\ Len(t) = Len(s) - 1
      /\ \A k \in 1 .. (Len(s) - 1) : t[k] = IF k = 1 THEN s[1] ELSE s[k + 1]
  BY <1>3, <1>5, SecondShape
<1>10. DataOf(heap', t) = WithoutSecond(Contents[l])
  <2>1. heap' \in Heaps /\ \A c \in Allocated(heap) \ {s[2]} : heap'.data[c] = heap.data[c]
    BY <1>7 DEF Deletes
  <2>2. \A k \in 1 .. Len(s) : k # 2 => s[k] \in Allocated(heap) /\ s[k] # s[2]
    BY <1>3, <1>6 DEF InOrder
  <2>3. \A k \in 1 .. Len(s) : k # 2 => heap'.data[s[k]] = heap.data[s[k]]
    BY <2>1, <2>2
  <2>4. QED
    BY <1>3, <1>5, <2>1, <2>3, DataSecond
<1> HIDE DEF s, t
<1>11. t[1] = s[1] /\ t # <<>> /\ \A k \in 1 .. Len(t) : t[k] \in CellsOf(s)
  <2>1. /\ 1 \in 1 .. (Len(s) - 1)
        /\ \A k \in 1 .. (Len(s) - 1) : k + 1 \in 1 .. Len(s)
    BY <1>3, <1>5
  <2>2. QED
    BY <1>3, <1>4, <1>5, <1>9, <2>1
<1>12. list' = Becomes(list, l, FirstOf(t))
  BY <1>2, <1>3, <1>11 DEF Becomes, FirstOf
<1>13. s[2] \in CellsOf(seq[l]) /\ \A k \in 1 .. Len(t) : t[k] \in CellsOf(seq[l])
  BY <1>3, <1>6, <1>11 DEF s
<1>14. RingsHeld' /\ Contents' = Becomes(Contents, l, DataOf(heap', t))
  BY <1>1, <1>7, <1>8, <1>9, <1>12, <1>13, CallDeletes
<1>15. QED
  BY <1>3, <1>5, <1>10, <1>14

LEMMA FreeLastMakes ==
    ASSUME ListInv, RingsHeld, NEW l \in Lists, FreeLast(l)
    PROVE  RingsHeld' /\ Len(Contents[l]) = 1 /\ Contents' = Becomes(Contents, l, <<>>)
<1>1. PICK seq : InRings(seq, heap, list)
  BY DEF RingsHeld
<1>2. /\ list[l] # NULL /\ heap' = DeleteList(heap, list[l])
      /\ heap.succ[list[l]] = list[l] /\ list' = Becomes(list, l, NULL)
  BY DEF FreeLast, ListInv, TypeOK, Becomes
<1>3. QED
  BY <1>1, <1>2, OnlyCellGoes

\* A step that leaves the heap and the pointers leaves the lists.
LEMMA StayMakes ==
    ASSUME RingsHeld, UNCHANGED <<heap, list>>
    PROVE  RingsHeld' /\ Contents' = Contents
<1>1. PICK seq : InRings(seq, heap, list)
  BY DEF RingsHeld
<1>2. ContentsRight'
  BY ContentsAre, PTL
<1>3. Contents = AllData(heap, seq)
  BY <1>1, ContentsAre DEF ContentsRight
<1>4. Contents' = AllData(heap, seq)
  BY <1>1, <1>2 DEF ContentsRight
<1>5. QED
  BY <1>1, <1>3, <1>4 DEF RingsHeld

-----------------------------------------------------------------------------

\* No list has a cell.
LEMMA RingsHeldInit == Init => RingsHeld /\ Abstract!Init
<1> SUFFICES ASSUME Init
             PROVE  RingsHeld /\ Abstract!Init
  OBVIOUS
<1> DEFINE none == [l \in Lists |-> <<>>]
<1>1. list = [l \in Lists |-> NULL] /\ freeing = {}
  BY DEF Init
<1>2. InRings(none, heap, list)
  BY <1>1 DEF InRings, FirstOf, CellsOf
<1>3. Contents = none
  BY <1>1 DEF Contents
<1>4. QED
  BY <1>1, <1>2, <1>3 DEF RingsHeld, Abstract!Init

\* Each call makes of the lists what list.h promises.
LEMMA ListStep ==
    ListInv /\ RingsHeld /\ [Next]_vars => RingsHeld' /\ [Abstract!Next]_(Abstract!vars)
<1> SUFFICES ASSUME ListInv, RingsHeld, [Next]_vars
             PROVE  RingsHeld' /\ [Abstract!Next]_(Abstract!vars)
  OBVIOUS
<1>1. CASE UNCHANGED vars
  BY <1>1, StayMakes DEF vars, Abstract!vars
<1>2. ASSUME NEW l \in Lists, NEW d \in Data, Insert(l, d)
      PROVE  RingsHeld' /\ Abstract!Next
  <2>1. l \notin freeing /\ freeing' = freeing
    BY <1>2 DEF Insert, Start, InsertLast, InsertBefore, InsertAfter, Usable
  <2>2. CASE Start(l, d)
    <3>1. RingsHeld' /\ Contents[l] = <<>> /\ Contents' = Becomes(Contents, l, <<d>>)
      BY <2>2, StartMakes
    <3>2. Append(Contents[l], d) = <<d>>
      BY <3>1
    <3>3. Abstract!InsertLast(l, d)
      BY <2>1, <3>1, <3>2 DEF Abstract!InsertLast, Abstract!Becomes, Becomes
    <3>4. QED
      BY <3>1, <3>3 DEF Abstract!Next
  <2>3. CASE InsertLast(l, d) \/ InsertBefore(l, d)
    <3>1. RingsHeld' /\ Contents' = Becomes(Contents, l, InsertedLast(Contents[l], d))
      BY <2>3, LastMakes
    <3>2. Abstract!InsertLast(l, d)
      BY <2>1, <3>1 DEF Abstract!InsertLast, Abstract!Becomes, Becomes, InsertedLast
    <3>3. QED
      BY <3>1, <3>2 DEF Abstract!Next
  <2>4. CASE InsertAfter(l, d)
    <3>1. /\ RingsHeld' /\ Contents[l] # <<>>
          /\ Contents' = Becomes(Contents, l, InsertedAfter(Contents[l], d))
      BY <2>4, AfterMakes
    <3>2. Abstract!InsertAfter(l, d)
      BY <2>1, <3>1 DEF Abstract!InsertAfter, Abstract!Becomes, Becomes, InsertedAfter
    <3>3. QED
      BY <3>1, <3>2 DEF Abstract!Next
  <2>5. QED
    BY <1>2, <2>2, <2>3, <2>4 DEF Insert
<1>3. ASSUME NEW l \in Lists, Remove(l)
      PROVE  RingsHeld' /\ Abstract!Next
  <2>1. CASE RemoveFirst(l)
    <3>1. l \notin freeing /\ freeing' = freeing
      BY <2>1 DEF RemoveFirst, Usable
    <3>2. /\ RingsHeld' /\ Contents[l] # <<>>
          /\ Contents' = Becomes(Contents, l, WithoutFirst(Contents[l]))
      BY <2>1, RemoveMakes
    <3>3. Abstract!RemoveFirst(l)
      BY <3>1, <3>2 DEF Abstract!RemoveFirst, Abstract!Becomes, Becomes, WithoutFirst
    <3>4. QED
      BY <3>2, <3>3 DEF Abstract!Next
  <2>2. CASE StartFree(l)
    <3>1. list[l] # NULL /\ freeing' = freeing \cup {l} /\ UNCHANGED <<heap, list>>
      BY <2>2 DEF StartFree
    <3>2. RingsHeld' /\ Contents' = Contents
      BY <3>1, StayMakes
    <3>3. Contents[l] # <<>>
      <4>1. PICK seq : InRings(seq, heap, list)
        BY DEF RingsHeld
      <4>2. Len(Contents[l]) = Len(seq[l]) /\ Len(seq[l]) \in Nat \ {0}
        BY <3>1, <4>1, ListRing
      <4>3. QED
        BY <4>2
    <3>4. Abstract!StartFree(l)
      BY <3>1, <3>2, <3>3 DEF Abstract!StartFree
    <3>5. QED
      BY <3>2, <3>4 DEF Abstract!Next
  <2>3. CASE FreeNext(l)
    <3>1. l \in freeing /\ freeing' = freeing
      BY <2>3 DEF FreeNext
    <3>2. /\ RingsHeld' /\ Len(Contents[l]) > 1
          /\ Contents' = Becomes(Contents, l, WithoutSecond(Contents[l]))
      BY <2>3, FreeNextMakes
    <3>3. Abstract!FreeOne(l)
      BY <3>1, <3>2 DEF Abstract!FreeOne, Becomes, WithoutSecond
    <3>4. QED
      BY <3>2, <3>3 DEF Abstract!Next
  <2>4. CASE FreeLast(l)
    <3>1. l \in freeing /\ freeing' = freeing \ {l}
      BY <2>4 DEF FreeLast
    <3>2. RingsHeld' /\ Len(Contents[l]) = 1 /\ Contents' = Becomes(Contents, l, <<>>)
      BY <2>4, FreeLastMakes
    <3>3. Abstract!FreeOne(l)
      BY <3>1, <3>2 DEF Abstract!FreeOne, Becomes
    <3>4. QED
      BY <3>2, <3>3 DEF Abstract!Next
  <2>5. QED
    BY <1>3, <2>1, <2>2, <2>3, <2>4 DEF Remove
<1>4. QED
  BY <1>1, <1>2, <1>3 DEF Next

\* What a caller finds from its pointer on, in any heap and with any number of lists,
\* is the sequence that its calls build, and no call on one list changes another.
THEOREM ListsImplement == Spec => ImplementsDataLists
<1>1. Init => RingsHeld /\ Abstract!Init
  BY RingsHeldInit
<1>2. ListInv /\ RingsHeld /\ [Next]_vars => RingsHeld' /\ [Abstract!Next]_(Abstract!vars)
  BY ListStep
<1>3. QED
  BY <1>1, <1>2, ListInvariant, PTL DEF Spec, ImplementsDataLists, Abstract!Spec

-----------------------------------------------------------------------------
(* The search path.                                                         *)

\* The characters of the copy, and where init_search_path is in it.
Chars == Others \cup {Colon}
PathInv ==
    stage = "split" /\ path # NoPath =>
        /\ path \in Paths
        /\ buf \in Seq(Chars \cup {Nul}) /\ Len(buf) = Len(path) + 1
        /\ buf[Len(buf)] = Nul
        /\ dir_start \in 1 .. Len(buf)

\* The scan for the end of a directory finds it in the copy.
LEMMA DirEndInside ==
    ASSUME PathInv, stage = "split", path # NoPath
    PROVE  DirEnd(dir_start) \in dir_start .. Len(buf)
<1> DEFINE Ends == {s \in dir_start .. Len(buf) : buf[s] \in {Colon, Nul}}
<1>1. dir_start \in Nat /\ Len(buf) \in Nat /\ Len(buf) \in Ends
  BY DEF PathInv
<1>2. Ends \in SUBSET Nat
  BY <1>1
<1> HIDE DEF Ends
<1>3. PICK e \in Ends : \A j \in Ends : e <= j
  BY <1>1, <1>2, LeastNumber
<1>4. /\ e \in dir_start .. Len(buf) /\ buf[e] \in {Colon, Nul}
      /\ \A j \in dir_start .. (e - 1) : buf[j] \notin {Colon, Nul}
  BY <1>1, <1>3 DEF Ends
<1>5. QED
  BY <1>4 DEF DirEnd

LEMMA PathInvInit == PathInit => PathInv
<1> SUFFICES ASSUME PathInit, path # NoPath
             PROVE  PathInv
  BY DEF PathInv
<1>1. /\ path \in Seq(Chars) /\ path \in Paths /\ buf = Append(path, Nul) /\ dir_start = 1
  BY PathAssumption DEF PathInit, Chars
<1>2. /\ buf \in Seq(Chars \cup {Nul}) /\ Len(buf) = Len(path) + 1
      /\ buf[Len(buf)] = Nul /\ Len(path) \in Nat
  BY <1>1
<1>3. QED
  BY <1>1, <1>2 DEF PathInv

LEMMA PathInvStep == PathInv /\ [PathNext]_<<vars, pathVars>> => PathInv'
<1> SUFFICES ASSUME PathInv, [PathNext]_<<vars, pathVars>>, stage' = "split", path' # NoPath
             PROVE  PathInv'
  BY DEF PathInv
<1>1. CASE UNCHANGED pathVars
  BY <1>1 DEF PathInv, pathVars
<1>2. CASE CutDir
  <2> DEFINE s == DirEnd(dir_start)
  <2>1. /\ stage = "split" /\ path # NoPath /\ path' = path /\ buf[s] = Colon
        /\ buf' = [buf EXCEPT ![s] = Nul] /\ dir_start' = s + 1
    BY <1>2 DEF CutDir
  <2>2. s \in dir_start .. Len(buf)
    BY <2>1, DirEndInside
  <2> HIDE DEF s
  <2>3. /\ path \in Paths /\ buf \in Seq(Chars \cup {Nul}) /\ Len(buf) = Len(path) + 1
        /\ buf[Len(buf)] = Nul /\ dir_start \in 1 .. Len(buf)
    BY <2>1 DEF PathInv
  <2>4. s # Len(buf) /\ s \in 1 .. Len(buf) /\ s + 1 \in 1 .. Len(buf)
    BY <2>1, <2>2, <2>3, PathAssumption
  <2>5. /\ buf' \in Seq(Chars \cup {Nul}) /\ Len(buf') = Len(buf)
        /\ buf'[Len(buf)] = Nul
    BY <2>1, <2>3, <2>4
  <2>6. QED
    BY <2>1, <2>3, <2>4, <2>5 DEF PathInv
<1>3. CASE Unset \/ EmptyPath \/ LastDir
  BY <1>3 DEF Unset, EmptyPath, LastDir
<1>4. CASE Callers
  BY <1>1, <1>4 DEF Callers, pathVars
<1>5. QED
  BY <1>1, <1>2, <1>3, <1>4 DEF PathNext

\* init_search_path uses list.c as any caller may.
LEMMA PathSteps == PathInv /\ [PathNext]_<<vars, pathVars>> => [Next]_vars
<1> SUFFICES ASSUME PathInv, PathNext
             PROVE  [Next]_vars
  BY DEF vars
<1>1. ASSUME NEW d \in Data, InsertDir(d)
      PROVE  Next
  BY <1>1, PathAssumption DEF InsertDir, Next, Insert
<1>2. CASE CutDir \/ LastDir
  <2>1. stage = "split" /\ path # NoPath /\ InsertDir(dir_start)
    BY <1>2 DEF CutDir, LastDir
  <2>2. dir_start \in Data
    BY <2>1, PathAssumption DEF PathInv
  <2>3. QED
    BY <1>1, <2>1, <2>2
<1>3. CASE EmptyPath
  BY <1>3, PathAssumption DEF EmptyPath, Next, Insert
<1>4. CASE Unset
  BY <1>4 DEF Unset, vars
<1>5. CASE Callers
  BY <1>5, PathAssumption DEF Callers, Next
<1>6. QED
  BY <1>2, <1>3, <1>4, <1>5 DEF PathNext

\* init_search_path scans its copy of PATH only, and what holds of every program that
\* uses the lists holds of it.
THEOREM PathListSound ==
    PathSpec => [](PathInv /\ LinksInverse /\ ListsAllocated /\ CellsInOneList)
<1>1. PathInit => Init /\ PathInv
  BY PathInvInit DEF PathInit
<1>2. PathSpec => []PathInv
  BY <1>1, PathInvStep, PTL DEF PathSpec
<1>3. PathSpec => Spec
  BY <1>1, <1>2, PathSteps, PTL DEF PathSpec, Spec
<1>4. QED
  BY <1>2, <1>3, LinksAlwaysInverse, ListsAlwaysAllocated, CellsAlwaysInOneList, PTL

-----------------------------------------------------------------------------
(* Sequences put together.                                                  *)

\* FlattenSeq's recursive function.
IsFlat(f, ss, n) == f = [i \in 1 .. n |-> IF i = 1 THEN ss[i] ELSE f[i - 1] \o ss[i]]

\* It exists, as every function of a sequence so far does.
LEMMA FlatExists ==
    ASSUME NEW ss, NEW n \in Nat
    PROVE  \E f : IsFlat(f, ss, n)
<1> DEFINE T == {m \in Nat : ~\E f : IsFlat(f, ss, m)}
<1> SUFFICES ASSUME n \in T
             PROVE  FALSE
  OBVIOUS
<1>1. PICK l \in T : \A j \in T : l <= j
  <2>1. T \in SUBSET Nat
    OBVIOUS
  <2> HIDE DEF T
  <2>2. QED
    BY <2>1, LeastNumber
<1>2. CASE l = 0
  <2>1. IsFlat([i \in 1 .. 0 |-> <<>>], ss, 0)
    BY DEF IsFlat
  <2>2. QED
    BY <1>2, <2>1
<1>3. CASE l # 0
  <2>1. l \in Nat /\ l - 1 \in Nat
    BY <1>1, <1>3
  <2>2. l - 1 \notin T
    <3> HIDE DEF T
    <3>1. QED
      BY <1>1, <2>1
  <2>3. PICK f : IsFlat(f, ss, l - 1)
    BY <2>1, <2>2
  <2> DEFINE g == [i \in 1 .. l |-> IF i < l THEN f[i] ELSE IF l = 1 THEN ss[1] ELSE f[l - 1] \o ss[l]]
  <2>4. ASSUME NEW i \in 1 .. l
        PROVE  g[i] = IF i = 1 THEN ss[i] ELSE g[i - 1] \o ss[i]
    <3>1. CASE i < l
      <4>1. i \in 1 .. (l - 1) /\ g[i] = f[i] /\ (i # 1 => i - 1 \in 1 .. l /\ g[i - 1] = f[i - 1])
        BY <2>1, <3>1
      <4>2. f[i] = IF i = 1 THEN ss[i] ELSE f[i - 1] \o ss[i]
        BY <2>3, <4>1 DEF IsFlat
      <4>3. QED
        BY <4>1, <4>2
    <3>2. CASE i = l
      <4>1. i # 1 => i - 1 \in 1 .. l /\ i - 1 < l
        BY <2>1, <3>2
      <4>2. QED
        BY <2>1, <3>2, <4>1
    <3>3. QED
      BY <2>1, <3>1, <3>2
  <2>5. IsFlat(g, ss, l)
    <3> HIDE DEF g
    <3>1. g = [i \in 1 .. l |-> g[i]]
      BY DEF g
    <3>2. QED
      BY <2>4, <3>1 DEF IsFlat
  <2>6. QED
    BY <2>5
<1>4. QED
  BY <1>2, <1>3

\* Its values are sequences.
LEMMA FlatTyped ==
    ASSUME NEW S, NEW ss, NEW n \in Nat, NEW f, IsFlat(f, ss, n), \A k \in 1 .. n : ss[k] \in Seq(S),
           NEW i \in 1 .. n
    PROVE  f[i] \in Seq(S)
<1> DEFINE T == {k \in Nat : k \in 1 .. n /\ f[k] \notin Seq(S)}
<1> SUFFICES ASSUME i \in T
             PROVE  FALSE
  OBVIOUS
<1>1. PICK l \in T : \A j \in T : l <= j
  <2>1. T \in SUBSET Nat
    OBVIOUS
  <2> HIDE DEF T
  <2>2. QED
    BY <2>1, LeastNumber
<1>2. l \in 1 .. n /\ f[l] \notin Seq(S) /\ f[l] = IF l = 1 THEN ss[l] ELSE f[l - 1] \o ss[l]
  BY <1>1 DEF IsFlat
<1>3. l # 1 /\ l - 1 \in 1 .. n /\ l - 1 \in Nat /\ ~(l <= l - 1)
  BY <1>2
<1>4. f[l - 1] \in Seq(S) /\ ss[l] \in Seq(S)
  BY <1>1, <1>2, <1>3
<1>5. QED
  BY <1>2, <1>3, <1>4

Begins(ss, tt, n) == \A k \in 1 .. n : ss[k] = tt[k]

\* It depends on nothing but the sequences so far.
LEMMA FlatSame ==
    ASSUME NEW ss, NEW tt, NEW n \in Nat, NEW m \in Nat, n <= m, Begins(ss, tt, n),
           NEW f, IsFlat(f, ss, n), NEW g, IsFlat(g, tt, m), NEW i \in 1 .. n
    PROVE  f[i] = g[i]
<1> DEFINE T == {k \in Nat : k \in 1 .. n /\ f[k] # g[k]}
<1> SUFFICES ASSUME i \in T
             PROVE  FALSE
  OBVIOUS
<1>1. PICK l \in T : \A j \in T : l <= j
  <2>1. T \in SUBSET Nat
    OBVIOUS
  <2> HIDE DEF T
  <2>2. QED
    BY <2>1, LeastNumber
<1>2. l \in 1 .. n /\ f[l] # g[l] /\ l \in 1 .. m
  BY <1>1
<1>3. /\ f[l] = IF l = 1 THEN ss[l] ELSE f[l - 1] \o ss[l]
      /\ g[l] = IF l = 1 THEN tt[l] ELSE g[l - 1] \o tt[l]
  BY <1>2 DEF IsFlat
<1>4. ss[l] = tt[l]
  BY <1>2 DEF Begins
<1>5. l # 1
  BY <1>2, <1>3, <1>4
<1>6. l - 1 \in 1 .. n /\ l - 1 \in Nat /\ ~(l <= l - 1)
  BY <1>2, <1>5
<1>7. f[l - 1] = g[l - 1]
  BY <1>1, <1>6
<1>8. QED
  BY <1>2, <1>3, <1>4, <1>5, <1>7

\* FlattenSeq is its last value.
LEMMA FlattenIs ==
    ASSUME NEW S, NEW ss \in Seq(Seq(S)), NEW n, n = Len(ss), n # 0
    PROVE  \E f : IsFlat(f, ss, n) /\ Seqs!FlattenSeq(ss) = f[n]
<1> DEFINE f == CHOOSE g : IsFlat(g, ss, n)
<1>1. n \in Nat
  OBVIOUS
<1>2. IsFlat(f, ss, n)
  BY <1>1, FlatExists
<1>3. Seqs!FlattenSeq(ss) = f[n]
  BY DEF Seqs!FlattenSeq, IsFlat
<1>4. QED
  BY <1>2, <1>3

\* One more sequence is put behind the others.
LEMMA FlattenAppend ==
    ASSUME NEW S, NEW ss \in Seq(Seq(S)), NEW e \in Seq(S)
    PROVE  /\ Seqs!FlattenSeq(ss) \in Seq(S)
           /\ Seqs!FlattenSeq(Append(ss, e)) = Seqs!FlattenSeq(ss) \o e
<1> DEFINE n  == Len(ss)
           tt == Append(ss, e)
<1>1. n \in Nat /\ \A k \in 1 .. n : ss[k] \in Seq(S)
  OBVIOUS
<1>2. tt \in Seq(Seq(S)) /\ Len(tt) = n + 1 /\ tt[n + 1] = e /\ \A k \in 1 .. n : tt[k] = ss[k]
  BY AppendProperties
<1> HIDE DEF n, tt
<1>3. PICK g : IsFlat(g, tt, n + 1) /\ Seqs!FlattenSeq(tt) = g[n + 1]
  <2>1. n + 1 = Len(tt) /\ n + 1 # 0 /\ tt \in Seq(Seq(S))
    BY <1>1, <1>2
  <2>2. QED
    BY ONLY <2>1, FlattenIs
<1>4. g[n + 1] = IF n + 1 = 1 THEN tt[n + 1] ELSE g[(n + 1) - 1] \o tt[n + 1]
  <2>1. n + 1 \in 1 .. (n + 1)
    BY <1>1
  <2>2. QED
    BY <1>3, <2>1 DEF IsFlat
<1>5. CASE n = 0
  <2>1. ss = <<>>
    BY <1>5 DEF n
  <2>2. Seqs!FlattenSeq(ss) = <<>>
    BY <2>1 DEF Seqs!FlattenSeq
  <2>3. <<>> \o e = e /\ <<>> \in Seq(S)
    BY ConcatEmptySeq
  <2>4. QED
    BY <1>2, <1>3, <1>4, <1>5, <2>2, <2>3 DEF tt
<1>6. CASE n # 0
  <2>1. PICK f : IsFlat(f, ss, n) /\ Seqs!FlattenSeq(ss) = f[n]
    BY <1>6, FlattenIs DEF n
  <2>2. n \in 1 .. n /\ n + 1 # 1 /\ (n + 1) - 1 = n /\ n <= n + 1 /\ n + 1 \in Nat
    BY <1>1, <1>6
  <2>3. f[n] = g[n]
    <3>1. Begins(ss, tt, n)
      BY <1>2 DEF Begins
    <3>2. /\ IsFlat(f, ss, n) /\ IsFlat(g, tt, n + 1)
          /\ n \in Nat /\ n + 1 \in Nat /\ n <= n + 1 /\ n \in 1 .. n
      BY <1>1, <1>3, <2>1, <2>2
    <3>3. QED
      BY ONLY <3>1, <3>2, FlatSame
  <2>4. f[n] \in Seq(S)
    <3>1. \A k \in 1 .. n : ss[k] \in Seq(S)
      BY <1>1
    <3>2. IsFlat(f, ss, n) /\ n \in Nat /\ n \in 1 .. n
      BY <1>1, <2>1, <2>2
    <3>3. QED
      BY ONLY <3>1, <3>2, FlatTyped
  <2>5. g[n + 1] = g[n] \o e
    BY <1>2, <1>4, <2>2
  <2>6. QED
    BY <1>3, <2>1, <2>3, <2>4, <2>5 DEF tt
<1>7. QED
  BY <1>5, <1>6

-----------------------------------------------------------------------------
(* The strings of the copy.                                                 *)

\* StringAt and Directories, of the copy b and the pointers dirs.
StringIn(b, p) ==
    IF p = EmptyString THEN <<>>
    ELSE SubSeq(b, p, (CHOOSE s \in p .. Len(b) :
                          b[s] = Nul /\ \A j \in p .. (s - 1) : b[j] # Nul) - 1)
StringsIn(b, dirs)     == [k \in DOMAIN dirs |-> Append(StringIn(b, dirs[k]), Colon)]
DirectoriesIn(b, dirs) == Seqs!FlattenSeq(StringsIn(b, dirs))

EndsAt(b, p, e) == b[e] = Nul /\ \A j \in p .. (e - 1) : b[j] # Nul

\* A string ends at the first Nul.
LEMMA StringIs ==
    ASSUME NEW b, NEW n \in Nat, Len(b) = n, NEW p \in Nat, NEW e \in p .. n, EndsAt(b, p, e)
    PROVE  StringIn(b, p) = SubSeq(b, p, e - 1)
<1> DEFINE Ends(s) == b[s] = Nul /\ \A j \in p .. (s - 1) : b[j] # Nul
<1>1. Ends(e)
  BY DEF EndsAt
<1>2. ASSUME NEW s \in p .. n, Ends(s)
      PROVE  s = e
  <2>1. ~(s < e)
    <3> SUFFICES ASSUME s < e
                 PROVE  FALSE
      OBVIOUS
    <3>1. s \in p .. (e - 1)
      OBVIOUS
    <3>2. QED
      BY <1>1, <1>2, <3>1
  <2>2. ~(e < s)
    <3> SUFFICES ASSUME e < s
                 PROVE  FALSE
      OBVIOUS
    <3>1. e \in p .. (s - 1)
      OBVIOUS
    <3>2. QED
      BY <1>1, <1>2, <3>1
  <2>3. QED
    BY <2>1, <2>2
<1>3. (CHOOSE s \in p .. n : Ends(s)) = e
  BY <1>1, <1>2
<1>4. p # EmptyString
  BY PathAssumption
<1>5. QED
  BY <1>3, <1>4 DEF StringIn

Agree(b, c, m, n) == \A i \in m .. n : b[i] = c[i]

\* Two sequences that agree have the same part there.
LEMMA SubSeqSame ==
    ASSUME NEW S, NEW b, NEW c, NEW m \in Int, NEW n \in Int, Agree(b, c, m, n),
           \A i \in m .. n : b[i] \in S
    PROVE  SubSeq(b, m, n) \in Seq(S) /\ SubSeq(c, m, n) = SubSeq(b, m, n)
<1> DEFINE L == IF m <= n THEN n - m + 1 ELSE 0
           x == SubSeq(b, m, n)
           y == SubSeq(c, m, n)
<1>1. \A i \in m .. n : b[i] \in S /\ c[i] \in S /\ b[i] = c[i]
  BY DEF Agree
<1>2. x \in Seq(S) /\ Len(x) = L /\ \A i \in 1 .. (n - m + 1) : x[i] = b[m + i - 1]
  BY <1>1, SubSeqProperties
<1>3. y \in Seq(S) /\ Len(y) = L /\ \A i \in 1 .. (n - m + 1) : y[i] = c[m + i - 1]
  BY <1>1, SubSeqProperties
<1> HIDE DEF x, y
<1>4. \A i \in 1 .. L : x[i] = y[i]
  <2> SUFFICES ASSUME NEW i \in 1 .. L
               PROVE  x[i] = y[i]
    OBVIOUS
  <2>1. i \in 1 .. (n - m + 1) /\ m + i - 1 \in m .. n
    OBVIOUS
  <2>2. QED
    BY <1>1, <1>2, <1>3, <2>1
<1>5. x = y
  <2> HIDE DEF L
  <2>1. QED
    BY <1>2, <1>3, <1>4, SeqEqual
<1>6. QED
  BY <1>2, <1>5 DEF x, y

\* Two copies that agree from p to a Nul have the same string there.
LEMMA StringStays ==
    ASSUME NEW S, NEW b \in Seq(S), NEW c \in Seq(S), Len(b) = Len(c), NEW p \in Nat \ {0},
           NEW q \in p .. Len(b), b[q] = Nul, Agree(b, c, p, q)
    PROVE  StringIn(b, p) \in Seq(S) /\ StringIn(c, p) = StringIn(b, p)
<1> DEFINE Nuls == {s \in p .. q : b[s] = Nul}
<1>1. Nuls \in SUBSET Nat /\ q \in Nuls /\ Len(b) \in Nat
  OBVIOUS
<1>2. PICK e \in Nuls : \A j \in Nuls : e <= j
  <2> HIDE DEF Nuls
  <2>1. QED
    BY <1>1, LeastNumber
<1>3. /\ e \in p .. q /\ e \in p .. Len(b) /\ b[e] = Nul /\ c[e] = Nul
      /\ \A j \in p .. (e - 1) : b[j] # Nul /\ c[j] = b[j]
  BY <1>1, <1>2 DEF Agree
<1>4. StringIn(b, p) = SubSeq(b, p, e - 1)
  <2>1. EndsAt(b, p, e)
    BY <1>3 DEF EndsAt
  <2>2. QED
    BY <1>1, <1>3, <2>1, StringIs
<1>5. StringIn(c, p) = SubSeq(c, p, e - 1)
  <2>1. Len(c) = Len(b) /\ Len(b) \in Nat /\ p \in Nat /\ e \in p .. Len(b) /\ c[e] = Nul
    BY <1>1, <1>3
  <2>2. EndsAt(c, p, e)
    BY <1>3 DEF EndsAt
  <2>3. QED
    BY <2>1, <2>2, StringIs
<1>6. SubSeq(b, p, e - 1) \in Seq(S) /\ SubSeq(c, p, e - 1) = SubSeq(b, p, e - 1)
  <2>1. p \in Int /\ e - 1 \in Int /\ \A i \in p .. (e - 1) : b[i] \in S
    BY <1>3
  <2>2. Agree(b, c, p, e - 1)
    BY <1>3 DEF Agree
  <2>3. QED
    BY <2>1, <2>2, SubSeqSame
<1>7. QED
  BY <1>4, <1>5, <1>6

\* What init_search_path has cut off of PATH w, before dir_start.
Kept(b, start, dirs, w) ==
    /\ \A i \in start .. Len(w) : b[i] = w[i]
    /\ start > 1 => b[start - 1] = Nul
    /\ dirs \in Seq(1 .. (start - 1))
    /\ DirectoriesIn(b, dirs) = SubSeq(w, 1, start - 1)

\* The copy of PATH w.
IsCopy(b, w) ==
    /\ w \in Seq(Chars) /\ b \in Seq(Chars \cup {Nul})
    /\ Len(b) = Len(w) + 1 /\ b[Len(b)] = Nul

\* The copy b, cut before start, becomes c, in which the next directory ends at s.
Cuts(w, b, c, start, dirs, s) ==
    /\ IsCopy(b, w) /\ IsCopy(c, w)
    /\ start \in 1 .. Len(b) /\ Kept(b, start, dirs, w)
    /\ s \in start .. Len(b) /\ c[s] = Nul
    /\ \A j \in 1 .. Len(b) : j # s => c[j] = b[j]

Added(w, c, start, dirs, s) ==
    LET dir == SubSeq(w, start, s - 1)
    IN  /\ dir \in Seq(Chars \cup {Nul})
        /\ DirectoriesIn(c, Append(dirs, start)) = SubSeq(w, 1, start - 1) \o Append(dir, Colon)

\* A directory is put behind the others.
LEMMA NextDir ==
    ASSUME NEW w, NEW b, NEW c, NEW start \in Nat, NEW dirs, NEW s \in Nat, Cuts(w, b, c, start, dirs, s)
    PROVE  Added(w, c, start, dirs, s)
<1> DEFINE S == Chars \cup {Nul}
           n == Len(w)
<1>1. /\ w \in Seq(Chars) /\ b \in Seq(S) /\ c \in Seq(S) /\ n \in Nat /\ Colon \in S
      /\ Len(b) = n + 1 /\ Len(c) = n + 1 /\ start \in 1 .. (n + 1) /\ s \in start .. (n + 1)
      /\ \A j \in 1 .. (n + 1) : j # s => c[j] = b[j]
      /\ c[s] = Nul
  BY DEF Cuts, IsCopy, Chars
<1>2. /\ \A i \in start .. n : b[i] = w[i]
      /\ start > 1 => b[start - 1] = Nul
      /\ dirs \in Seq(1 .. (start - 1))
      /\ DirectoriesIn(b, dirs) = SubSeq(w, 1, start - 1)
  BY DEF Cuts, Kept
<1> HIDE DEF S, n
<1>3. ASSUME NEW p \in 1 .. (start - 1)
      PROVE  StringIn(b, p) \in Seq(S) /\ StringIn(c, p) = StringIn(b, p)
  <2>1. start - 1 \in p .. Len(b) /\ b[start - 1] = Nul /\ p \in Nat \ {0}
    BY <1>1, <1>2
  <2>2. Agree(b, c, p, start - 1)
    BY <1>1 DEF Agree
  <2>3. QED
    BY <1>1, <2>1, <2>2, StringStays
<1> DEFINE x == SubSeq(w, start, s - 1)
<1>4. \A j \in start .. (s - 1) : j \in 1 .. n /\ c[j] = w[j] /\ w[j] \in S /\ w[j] # Nul
  <2> SUFFICES ASSUME NEW j \in start .. (s - 1)
               PROVE  c[j] = w[j] /\ j \in 1 .. n /\ w[j] \in Chars
    BY PathAssumption DEF S, Chars
  <2>1. j \in start .. n /\ j \in 1 .. n /\ j \in 1 .. (n + 1) /\ j # s
    BY <1>1
  <2>2. QED
    BY <1>1, <1>2, <2>1 DEF n
<1>5. x \in Seq(S) /\ StringIn(c, start) = x
  <2>1. EndsAt(c, start, s)
    BY <1>1, <1>4 DEF EndsAt
  <2>2. StringIn(c, start) = SubSeq(c, start, s - 1)
    <3>1. n + 1 \in Nat /\ Len(c) = n + 1 /\ start \in Nat /\ s \in start .. (n + 1)
      BY <1>1
    <3>2. QED
      BY <2>1, <3>1, StringIs
  <2>3. Agree(w, c, start, s - 1) /\ start \in Int /\ s - 1 \in Int
    BY <1>1, <1>4 DEF Agree
  <2>4. QED
    BY <1>4, <2>2, <2>3, SubSeqSame
<1> HIDE DEF x
<1> DEFINE u  == Append(x, Colon)
           ss == StringsIn(b, dirs)
           m  == Len(dirs)
<1>6. u \in Seq(S)
  BY <1>1, <1>5
<1>7. m \in Nat /\ dirs \in Seq(Nat) /\ \A k \in 1 .. m : dirs[k] \in 1 .. (start - 1)
  BY <1>1, <1>2
<1>8. ss = [k \in 1 .. m |-> Append(StringIn(b, dirs[k]), Colon)]
  BY <1>7 DEF StringsIn
<1>9. ss \in Seq(Seq(S)) /\ Len(ss) = m
  <2>1. \A k \in 1 .. m : Append(StringIn(b, dirs[k]), Colon) \in Seq(S)
    BY <1>1, <1>3, <1>7
  <2>2. QED
    BY <1>7, <1>8, <2>1
<1> DEFINE ds == Append(dirs, start)
<1>10. /\ ds \in Seq(Nat) /\ Len(ds) = m + 1 /\ ds[m + 1] = start
       /\ \A k \in 1 .. m : ds[k] = dirs[k]
  BY <1>1, <1>7, AppendProperties
<1> HIDE DEF ds, ss, u, m
<1>11. StringsIn(c, ds) = [k \in 1 .. (m + 1) |-> Append(StringIn(c, ds[k]), Colon)]
  BY <1>7, <1>10 DEF StringsIn
<1>12. Append(ss, u) \in Seq(Seq(S)) /\ Len(Append(ss, u)) = m + 1
       /\ Append(ss, u)[m + 1] = u /\ \A k \in 1 .. m : Append(ss, u)[k] = ss[k]
  BY <1>6, <1>7, <1>9, AppendProperties
<1>13. StringsIn(c, ds) = Append(ss, u)
  <2> DEFINE tt == StringsIn(c, ds)
             vv == Append(ss, u)
  <2>1. ASSUME NEW k \in 1 .. (m + 1)
        PROVE  Append(StringIn(c, ds[k]), Colon) = vv[k]
    <3>1. CASE k = m + 1
      BY <1>5, <1>10, <1>12, <3>1 DEF u
    <3>2. CASE k # m + 1
      <4>1. k \in 1 .. m
        BY <1>7, <3>2
      <4>2. QED
        BY <1>3, <1>7, <1>8, <1>10, <1>12, <4>1
    <3>3. QED
      BY <3>1, <3>2
  <2> HIDE DEF vv
  <2>2. vv = [k \in 1 .. (m + 1) |-> vv[k]]
    <3>1. vv \in Seq(Seq(S)) /\ Len(vv) = m + 1
      BY <1>12 DEF vv
    <3>2. QED
      BY <3>1
  <2>3. [k \in 1 .. (m + 1) |-> Append(StringIn(c, ds[k]), Colon)] = [k \in 1 .. (m + 1) |-> vv[k]]
    BY <2>1
  <2>4. QED
    BY Zenon, <1>11, <2>2, <2>3 DEF vv
<1>14. Seqs!FlattenSeq(Append(ss, u)) = Seqs!FlattenSeq(ss) \o u
  BY <1>6, <1>9, FlattenAppend
<1>15. QED
  BY <1>2, <1>5, <1>13, <1>14 DEF Added, DirectoriesIn, ds, ss, u, x, S

\* A round that finds a colon at s.
LEMMA CutKeeps ==
    ASSUME NEW w, NEW b, IsCopy(b, w), NEW start \in 1 .. Len(b), NEW dirs, Kept(b, start, dirs, w),
           NEW s \in start .. Len(b), b[s] = Colon
    PROVE  Kept([b EXCEPT ![s] = Nul], s + 1, Append(dirs, start), w)
<1> DEFINE c == [b EXCEPT ![s] = Nul]
           n == Len(w)
           S == Chars \cup {Nul}
<1>1. /\ w \in Seq(Chars) /\ b \in Seq(S) /\ n \in Nat /\ Len(b) = n + 1 /\ b[n + 1] = Nul
      /\ start \in 1 .. (n + 1) /\ s \in start .. (n + 1)
  BY DEF IsCopy
<1>2. /\ \A i \in start .. n : b[i] = w[i]
      /\ dirs \in Seq(1 .. (start - 1))
  BY DEF Kept
<1>3. s # n + 1 /\ s \in start .. n /\ start \in 1 .. n /\ s \in 1 .. n /\ w[s] = Colon
  <2>1. Colon # Nul
    BY PathAssumption
  <2> HIDE DEF n
  <2>2. s # n + 1
    BY <1>1, <2>1
  <2>3. s \in start .. n /\ start \in 1 .. n /\ s \in 1 .. n
    BY <1>1, <2>2
  <2>4. QED
    BY <1>2, <2>2, <2>3 DEF n
<1>4. /\ c \in Seq(S) /\ Len(c) = n + 1 /\ c[s] = Nul /\ c[n + 1] = Nul
      /\ \A j \in 1 .. (n + 1) : j # s => c[j] = b[j]
  BY <1>1, <1>3
<1> HIDE DEF c
<1>5. IsCopy(c, w)
  BY <1>1, <1>4 DEF IsCopy
<1> DEFINE x == SubSeq(w, start, s - 1)
           d == DirectoriesIn(c, Append(dirs, start))
<1>6. x \in Seq(S) /\ d = SubSeq(w, 1, start - 1) \o Append(x, Colon)
  <2>1. Cuts(w, b, c, start, dirs, s) /\ start \in Nat /\ s \in Nat
    BY <1>1, <1>4, <1>5 DEF Cuts
  <2>2. Added(w, c, start, dirs, s)
    BY <2>1, NextDir
  <2>3. QED
    BY <2>2 DEF Added
<1>7. SubSeq(w, start, s) = Append(x, Colon)
  <2>1. SubSeq(w, start, s) = SubSeq(w, start, s - 1) \o <<w[s]>>
    <3>1. w \in Seq(Chars) /\ start \in 1 .. Len(w) /\ s \in start .. Len(w)
      BY <1>1, <1>3
    <3>2. QED
      BY ONLY <3>1, SubSeqRecursiveSecond
  <2>2. Append(x, Colon) = x \o <<Colon>>
    <3>1. Colon \in S
      BY DEF Chars
    <3> HIDE DEF x
    <3>2. QED
      BY <1>6, <3>1, AppendIsConcat
  <2>3. QED
    BY Zenon, <1>3, <2>1, <2>2
<1>8. SubSeq(w, 1, start - 1) \o SubSeq(w, start, s) = SubSeq(w, 1, s)
  <2>1. /\ w \in Seq(Chars) /\ 1 \in 1 .. (Len(w) + 1) /\ start - 1 \in (1 - 1) .. Len(w)
        /\ s \in (start - 1) .. Len(w)
    BY <1>1, <1>3
  <2>2. SubSeq(w, 1, start - 1) \o SubSeq(w, (start - 1) + 1, s) = SubSeq(w, 1, s)
    BY ONLY <2>1, ConcatAdjacentSubSeq
  <2>3. (start - 1) + 1 = start
    BY <1>1
  <2>4. QED
    BY Zenon, <2>2, <2>3
<1> HIDE DEF x, d
<1>9. d = SubSeq(w, 1, s)
  BY Zenon, <1>6, <1>7, <1>8
<1>10. \A i \in (s + 1) .. n : c[i] = w[i]
  <2> SUFFICES ASSUME NEW i \in (s + 1) .. n
               PROVE  c[i] = w[i]
    OBVIOUS
  <2> HIDE DEF n
  <2>1. i \in start .. n /\ i \in 1 .. (n + 1) /\ i # s
    BY <1>1, <1>3
  <2>2. QED
    BY <1>2, <1>4, <2>1
<1>11. Append(dirs, start) \in Seq(1 .. s)
  <2>1. dirs \in Seq(1 .. s) /\ start \in 1 .. s
    BY <1>1, <1>2, <1>3
  <2>2. QED
    BY ONLY <2>1, AppendProperties
<1>12. (s + 1) - 1 = s
  BY <1>3
<1>13. QED
  BY <1>4, <1>9, <1>10, <1>11, <1>12 DEF Kept, d, c

\* The last round: s is the end of the copy.
LEMMA LastKeeps ==
    ASSUME NEW w, NEW b, IsCopy(b, w), NEW start \in 1 .. Len(b), NEW dirs, Kept(b, start, dirs, w),
           NEW s \in start .. Len(b), b[s] = Nul
    PROVE  DirectoriesIn(b, Append(dirs, start)) = Append(w, Colon)
<1> DEFINE n == Len(w)
           S == Chars \cup {Nul}
           x == SubSeq(w, start, n)
           y == SubSeq(w, 1, start - 1)
<1>1. /\ w \in Seq(Chars) /\ n \in Nat /\ Len(b) = n + 1
      /\ start \in 1 .. (n + 1) /\ s \in start .. (n + 1) /\ w \in Seq(S) /\ Colon \in S
  BY DEF IsCopy, Chars
<1>2. \A i \in start .. n : b[i] = w[i] /\ w[i] # Nul
  BY PathAssumption DEF Kept, IsCopy, Chars
<1>3. s = n + 1 /\ s - 1 = n
  <2> HIDE DEF n
  <2>1. ~(s \in start .. n)
    BY <1>2
  <2>2. QED
    BY <1>1, <2>1
<1>4. x \in Seq(S) /\ DirectoriesIn(b, Append(dirs, start)) = y \o Append(x, Colon)
  <2>1. /\ SubSeq(w, start, s - 1) \in Seq(S)
        /\ DirectoriesIn(b, Append(dirs, start)) = y \o Append(SubSeq(w, start, s - 1), Colon)
    <3>1. Cuts(w, b, b, start, dirs, s) /\ start \in Nat /\ s \in Nat
      BY DEF Cuts
    <3>2. Added(w, b, start, dirs, s)
      BY <3>1, NextDir
    <3>3. QED
      BY <3>2 DEF Added
  <2>2. SubSeq(w, start, s - 1) = x
    BY <1>3
  <2>3. QED
    BY Zenon, <2>1, <2>2
<1>5. y \o x = w /\ y \in Seq(S)
  <2>1. /\ w \in Seq(S) /\ 1 \in 1 .. (Len(w) + 1) /\ start - 1 \in (1 - 1) .. Len(w)
        /\ Len(w) \in (start - 1) .. Len(w)
    BY <1>1
  <2>2. SubSeq(w, 1, start - 1) \o SubSeq(w, (start - 1) + 1, Len(w)) = SubSeq(w, 1, Len(w))
    BY ONLY <2>1, ConcatAdjacentSubSeq
  <2>3. (start - 1) + 1 = start
    BY <1>1
  <2>4. SubSeq(w, 1, Len(w)) = w
    BY <1>1, SubSeqFull
  <2>5. y \in Seq(S)
    <3>1. 1 \in Int /\ start - 1 \in Int /\ \A i \in 1 .. (start - 1) : w[i] \in S
      BY <1>1
    <3>2. QED
      BY ONLY <3>1, SubSeqProperties
  <2>6. QED
    BY Zenon, <2>2, <2>3, <2>4, <2>5
<1> HIDE DEF x, y
<1>6. y \o Append(x, Colon) = Append(w, Colon)
  <2>1. Append(x, Colon) = x \o <<Colon>> /\ Append(w, Colon) = w \o <<Colon>> /\ <<Colon>> \in Seq(S)
    BY <1>1, <1>4, AppendIsConcat
  <2>2. (y \o x) \o <<Colon>> = y \o (x \o <<Colon>>)
    <3>1. y \in Seq(S) /\ x \in Seq(S) /\ <<Colon>> \in Seq(S)
      BY <1>4, <1>5, <2>1
    <3>2. QED
      BY ONLY <3>1, ConcatAssociative
  <2>3. QED
    BY Zenon, <1>5, <2>1, <2>2
<1>7. QED
  BY <1>4, <1>6

-----------------------------------------------------------------------------
(* What init_search_path keeps of PATH.                                     *)

\* The pointers in the list, before the end and at the end.
Dirs == Contents[path_dir_list]

KeptInv ==
    /\ stage = "split" /\ path # NoPath => Kept(buf, dir_start, Dirs, path)
    /\ stage = "done" => DirectoriesIn(buf, Dirs) = Append(path, Colon)

SearchInv == ListInv /\ RingsHeld /\ PathInv /\ KeptInv

\* What PathInv says of the copy.
LEMMA CopyKept ==
    ASSUME PathInv, stage = "split", path # NoPath
    PROVE  IsCopy(buf, path) /\ dir_start \in 1 .. Len(buf)
BY PathAssumption DEF PathInv, IsCopy, Chars

\* insert_last puts the pointer behind the others.
LEMMA InsertDirMakes ==
    ASSUME ListInv, RingsHeld, NEW d \in Data, InsertDir(d)
    PROVE  Dirs' = Append(Dirs, d)
<1>1. path_dir_list \in Lists
  BY PathAssumption
<1>2. CASE Start(path_dir_list, d)
  <2>1. /\ Contents[path_dir_list] = <<>>
        /\ Contents' = Becomes(Contents, path_dir_list, <<d>>)
    BY <1>1, <1>2, StartMakes
  <2>2. Contents' = [Contents EXCEPT ![path_dir_list] = <<d>>] /\ DOMAIN Contents = Lists
    BY <2>1 DEF Becomes, Contents
  <2>3. Contents'[path_dir_list] = <<d>>
    BY <1>1, <2>2
  <2>4. Append(<<>>, d) = <<d>>
    OBVIOUS
  <2>5. QED
    BY Zenon, <2>1, <2>3, <2>4 DEF Dirs
<1>3. CASE InsertLast(path_dir_list, d)
  <2>1. Contents' = Becomes(Contents, path_dir_list, InsertedLast(Contents[path_dir_list], d))
    BY <1>1, <1>3, LastMakes
  <2>2. /\ Contents' = [Contents EXCEPT ![path_dir_list] = Append(Contents[path_dir_list], d)]
        /\ DOMAIN Contents = Lists
    BY <2>1 DEF Becomes, InsertedLast, Contents
  <2>3. Contents'[path_dir_list] = Append(Contents[path_dir_list], d)
    BY <1>1, <2>2
  <2>4. QED
    BY Zenon, <2>3 DEF Dirs
<1>4. QED
  BY <1>2, <1>3 DEF InsertDir

\* Nothing is cut off.
LEMMA KeptInit == PathInit => KeptInv
<1> SUFFICES ASSUME PathInit, path # NoPath
             PROVE  Kept(buf, dir_start, Dirs, path)
  BY DEF PathInit, KeptInv
<1>1. path_dir_list \in Lists /\ list = [l \in Lists |-> NULL]
  BY PathAssumption DEF PathInit, Init
<1>2. Dirs = <<>>
  BY <1>1 DEF Dirs, Contents
<1>3. path \in Seq(Chars) /\ buf = Append(path, Nul) /\ dir_start = 1
  BY PathAssumption DEF PathInit, Chars
<1>4. \A i \in 1 .. Len(path) : buf[i] = path[i]
  BY <1>3
<1>5. DirectoriesIn(buf, <<>>) = <<>>
  <2>1. StringsIn(buf, <<>>) = <<>>
    BY DEF StringsIn
  <2>2. Seqs!FlattenSeq(<<>>) = <<>>
    BY DEF Seqs!FlattenSeq
  <2>3. QED
    BY <2>1, <2>2 DEF DirectoriesIn
<1>6. SubSeq(path, 1, 1 - 1) = <<>>
  BY SubSeqEmpty
<1>7. <<>> \in Seq(1 .. (1 - 1)) /\ ~(1 > 1)
  OBVIOUS
<1>8. Kept(buf, 1, <<>>, path)
  BY Zenon, <1>4, <1>5, <1>6, <1>7 DEF Kept
<1>9. QED
  BY Zenon, <1>2, <1>3, <1>8

\* Each round moves one directory from the copy to the list.
LEMMA KeptStep == SearchInv /\ [PathNext]_<<vars, pathVars>> => KeptInv'
<1> SUFFICES ASSUME SearchInv, [PathNext]_<<vars, pathVars>>
             PROVE  KeptInv'
  OBVIOUS
<1>0. ListInv /\ RingsHeld /\ PathInv /\ KeptInv
  BY DEF SearchInv
<1>1. CASE UNCHANGED <<vars, pathVars>>
  <2>1. Contents' = Contents
    BY <1>0, <1>1, StayMakes DEF vars
  <2>2. QED
    BY <1>0, <1>1, <2>1 DEF KeptInv, Dirs, pathVars
<1>2. CASE Unset
  BY <1>2 DEF Unset, KeptInv
<1>3. CASE EmptyPath
  <2>1. /\ path = <<>> /\ path' = path /\ buf' = buf /\ stage' = "done"
        /\ Start(path_dir_list, EmptyString) /\ EmptyString \in Data
    BY <1>3, PathAssumption DEF EmptyPath
  <2>2. /\ Contents[path_dir_list] = <<>>
        /\ Contents' = Becomes(Contents, path_dir_list, <<EmptyString>>)
        /\ DOMAIN Contents = Lists /\ path_dir_list \in Lists
    BY <1>0, <2>1, StartMakes, PathAssumption DEF Contents
  <2>3. Dirs' = <<EmptyString>>
    BY <2>2 DEF Dirs, Becomes
  <2>4. StringsIn(buf, <<EmptyString>>) = <<<<Colon>>>>
    BY DEF StringsIn, StringIn
  <2>5. Seqs!FlattenSeq(<<<<Colon>>>>) = <<Colon>>
    <3> DEFINE S == {Colon}
    <3>1. <<>> \in Seq(Seq(S)) /\ <<Colon>> \in Seq(S)
      OBVIOUS
    <3>2. Seqs!FlattenSeq(Append(<<>>, <<Colon>>)) = Seqs!FlattenSeq(<<>>) \o <<Colon>>
      BY ONLY <3>1, FlattenAppend
    <3>3. Seqs!FlattenSeq(<<>>) = <<>>
      BY DEF Seqs!FlattenSeq
    <3>4. Append(<<>>, <<Colon>>) = <<<<Colon>>>> /\ <<>> \o <<Colon>> = <<Colon>>
      OBVIOUS
    <3>5. QED
      BY <3>2, <3>3, <3>4
  <2>6. DirectoriesIn(buf, <<EmptyString>>) = <<Colon>> /\ Append(<<>>, Colon) = <<Colon>>
    BY <2>4, <2>5 DEF DirectoriesIn
  <2>7. QED
    BY <2>1, <2>3, <2>6 DEF KeptInv
<1>4. ASSUME CutDir \/ LastDir
      PROVE  /\ stage = "split" /\ path # NoPath /\ path' = path
             /\ IsCopy(buf, path) /\ dir_start \in 1 .. Len(buf)
             /\ Kept(buf, dir_start, Dirs, path) /\ Dirs' = Append(Dirs, dir_start)
  <2>1. stage = "split" /\ path # NoPath /\ path' = path /\ InsertDir(dir_start)
    BY <1>4 DEF CutDir, LastDir
  <2>2. IsCopy(buf, path) /\ dir_start \in 1 .. Len(buf) /\ dir_start \in Data
    BY <1>0, <2>1, CopyKept, PathAssumption DEF PathInv
  <2>3. QED
    BY <1>0, <2>1, <2>2, InsertDirMakes DEF KeptInv
<1>5. CASE CutDir
  <2> DEFINE s == DirEnd(dir_start)
  <2>1. /\ buf[s] = Colon /\ buf' = [buf EXCEPT ![s] = Nul] /\ dir_start' = s + 1
        /\ stage' = stage
    BY <1>5 DEF CutDir
  <2>2. s \in dir_start .. Len(buf)
    BY <1>0, <1>4, <1>5, DirEndInside
  <2> HIDE DEF s
  <2>3. Kept([buf EXCEPT ![s] = Nul], s + 1, Append(Dirs, dir_start), path)
    BY <1>4, <1>5, <2>1, <2>2, CutKeeps
  <2>4. QED
    BY <1>4, <1>5, <2>1, <2>3 DEF KeptInv
<1>6. CASE LastDir
  <2> DEFINE s == DirEnd(dir_start)
  <2>1. buf[s] = Nul /\ buf' = buf /\ stage' = "done"
    BY <1>6 DEF LastDir
  <2>2. s \in dir_start .. Len(buf)
    BY <1>0, <1>4, <1>6, DirEndInside
  <2> HIDE DEF s
  <2>3. DirectoriesIn(buf, Append(Dirs, dir_start)) = Append(path, Colon)
    BY <1>4, <1>6, <2>1, <2>2, LastKeeps
  <2>4. QED
    BY <1>4, <1>6, <2>1, <2>3 DEF KeptInv
<1>7. CASE Callers
  BY <1>7 DEF Callers, KeptInv
<1>8. QED
  BY <1>1, <1>2, <1>3, <1>5, <1>6, <1>7 DEF PathNext

\* While PATH is being cut, and after it.
LEMMA KeptPath == SearchInv => PathKept
<1> SUFFICES ASSUME SearchInv
             PROVE  PathKept
  OBVIOUS
<1>0. PathInv /\ KeptInv
  BY DEF SearchInv
<1>1. Directories = DirectoriesIn(buf, Dirs)
  BY DEF Directories, DirectoriesIn, StringsIn, StringIn, StringAt, Dirs
<1>2. ASSUME stage = "split", path # NoPath
      PROVE  Directories \o StringAt(dir_start) = path
  <2> DEFINE n == Len(path)
             S == Chars \cup {Nul}
  <2>1. /\ path \in Seq(Chars) /\ buf \in Seq(S) /\ n \in Nat /\ Len(buf) = n + 1 /\ buf[n + 1] = Nul
        /\ dir_start \in 1 .. (n + 1) /\ path \in Seq(S)
    BY <1>0, <1>2, CopyKept DEF IsCopy
  <2>2. /\ \A i \in dir_start .. n : buf[i] = path[i]
        /\ DirectoriesIn(buf, Dirs) = SubSeq(path, 1, dir_start - 1)
    BY <1>0, <1>2 DEF KeptInv, Kept
  <2>3. \A i \in dir_start .. n : path[i] \in S /\ path[i] # Nul
    <3>1. Nul \notin Chars
      BY PathAssumption DEF Chars
    <3>2. \A i \in dir_start .. n : path[i] \in Chars
      BY <2>1
    <3>3. QED
      BY <3>1, <3>2
  <2>4. StringIn(buf, dir_start) = SubSeq(buf, dir_start, n)
    <3>1. EndsAt(buf, dir_start, n + 1)
      BY <2>1, <2>2, <2>3 DEF EndsAt
    <3>2. /\ n + 1 \in Nat /\ Len(buf) = n + 1 /\ dir_start \in Nat /\ n + 1 \in dir_start .. (n + 1)
          /\ (n + 1) - 1 = n
      BY <2>1
    <3>3. QED
      BY <3>1, <3>2, StringIs
  <2>5. SubSeq(buf, dir_start, n) = SubSeq(path, dir_start, n)
    <3>1. Agree(path, buf, dir_start, n) /\ dir_start \in Int /\ n \in Int
      BY <2>1, <2>2 DEF Agree
    <3>2. \A i \in dir_start .. n : path[i] \in S
      BY <2>3
    <3> HIDE DEF S, n
    <3>3. QED
      BY ONLY <3>1, <3>2, SubSeqSame
  <2>6. SubSeq(path, 1, dir_start - 1) \o SubSeq(path, dir_start, n) = path
    <3>1. /\ path \in Seq(S) /\ 1 \in 1 .. (Len(path) + 1) /\ dir_start - 1 \in (1 - 1) .. Len(path)
          /\ Len(path) \in (dir_start - 1) .. Len(path)
      BY <2>1
    <3>2. SubSeq(path, 1, dir_start - 1) \o SubSeq(path, (dir_start - 1) + 1, Len(path))
             = SubSeq(path, 1, Len(path))
      BY ONLY <3>1, ConcatAdjacentSubSeq
    <3>3. (dir_start - 1) + 1 = dir_start
      BY <2>1
    <3>4. SubSeq(path, 1, Len(path)) = path
      BY <2>1, SubSeqFull
    <3>5. QED
      BY Zenon, <3>2, <3>3, <3>4
  <2>7. StringAt(dir_start) = StringIn(buf, dir_start)
    BY DEF StringAt, StringIn
  <2>8. QED
    BY Zenon, <1>1, <2>2, <2>4, <2>5, <2>6, <2>7
<1>3. QED
  BY <1>0, <1>1, <1>2 DEF PathKept, KeptInv

\* init_search_path is a program that uses the lists, and keeps PATH.
LEMMA SearchInvariant == PathSpec => []SearchInv /\ Spec
<1>1. PathInit => Init /\ PathInv
  BY PathInvInit DEF PathInit
<1>2. PathSpec => []PathInv
  BY <1>1, PathInvStep, PTL DEF PathSpec
<1>3. PathSpec => Spec
  BY <1>1, <1>2, PathSteps, PTL DEF PathSpec, Spec
<1>4. Spec => []RingsHeld
  BY RingsHeldInit, ListStep, ListInvariant, PTL DEF Spec
<1>5. ListInv /\ RingsHeld /\ PathInv /\ KeptInv /\ [PathNext]_<<vars, pathVars>> => KeptInv'
  BY KeptStep DEF SearchInv
<1>6. PathSpec => []KeptInv
  BY <1>2, <1>3, <1>4, <1>5, KeptInit, ListInvariant, PTL DEF PathSpec
<1>7. QED
  BY <1>2, <1>3, <1>4, <1>6, ListInvariant, PTL DEF SearchInv

\* No directory of PATH, however long it is, is lost, joined to another, cut short or
\* moved: the ones in the list, and what is still to be cut, are PATH.
THEOREM PathAlwaysKept == PathSpec => []PathKept
BY SearchInvariant, KeptPath, PTL

\* The calls of init_search_path, and of any other program, are those of list.h.
THEOREM PathListImplements == PathSpec => ImplementsDataLists
BY SearchInvariant, ListsImplement, PTL

=============================================================================
