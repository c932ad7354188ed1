---------------------------- MODULE BlockListProofs ----------------------------
(***************************************************************************)
(* Proofs, for every alignment, header and heap, that the blocks tile the   *)
(* heap as long as no sum of sizes wraps.                                   *)
(***************************************************************************)
EXTENDS BlockListProperties, WellFoundedInduction, TLAPS

\* Every set of natural numbers that is not empty has a least element.
LEMMA LeastNumber ==
    ASSUME NEW T \in SUBSET Nat, NEW k \in T
    PROVE  \E l \in T : \A j \in T : l <= j
<1>1. PICK l \in T : \A j \in T : <<j, l>> \notin OpToRel(<, Nat)
  BY NatLessThanWellFounded, WFMin
<1>2. ASSUME NEW j \in T
      PROVE  ~(j < l)
  BY <1>1 DEF OpToRel
<1>3. QED
  BY <1>2

\* No size that a caller asks for makes new_block's sums wrap, or look negative.
SizesFit == \A s \in Sizes : 2 * (s + META_SIZE + ALIGNMENT) <= SIZE_MAX

-----------------------------------------------------------------------------
(* Sizes.                                                                   *)

LEMMA AlignedSum ==
    ASSUME NEW a \in Nat, NEW b \in Nat, a % ALIGNMENT = 0, b % ALIGNMENT = 0
    PROVE  (a + b) % ALIGNMENT = 0
<1> DEFINE i == a \div ALIGNMENT
           j == b \div ALIGNMENT
<1>1. /\ i \in Nat /\ a = (ALIGNMENT * i) + (a % ALIGNMENT)
      /\ j \in Nat /\ b = (ALIGNMENT * j) + (b % ALIGNMENT)
  BY BlockListAssumption, SMT
<1> HIDE DEF i, j
<1>2. i + j \in Nat /\ a + b = ALIGNMENT * (i + j)
  BY <1>1, BlockListAssumption, SMT
<1>3. \A k \in Nat : (ALIGNMENT * k) % ALIGNMENT = 0
  BY BlockListAssumption, SMT
<1>4. QED
  BY <1>2, <1>3

LEMMA RoundedDown ==
    ASSUME NEW n \in Nat
    PROVE  /\ n - (n % ALIGNMENT) \in Nat /\ (n - (n % ALIGNMENT)) % ALIGNMENT = 0
           /\ n - (n % ALIGNMENT) <= n /\ n < n - (n % ALIGNMENT) + ALIGNMENT
BY BlockListAssumption, SMT

\* A block has room for its header and what was asked for, and keeps the heap
\* aligned.
LEMMA BlockSizes ==
    ASSUME SizesFit, NEW size \in Sizes
    PROVE  /\ BlockSize(size) \in Nat /\ BlockSize(size) % ALIGNMENT = 0
           /\ size + META_SIZE <= BlockSize(size)
           /\ Signed(BlockSize(size)) = BlockSize(size)
<1> DEFINE sum == size + META_SIZE
           up  == sum + ALIGNMENT - 1
<1>1. /\ size \in Nat /\ META_SIZE \in Nat /\ ALIGNMENT \in Nat \ {0} /\ SIZE_MAX \in Nat
      /\ 2 * (size + META_SIZE + ALIGNMENT) <= SIZE_MAX
  BY BlockListAssumption DEF SizesFit
<1>2. \A n \in Nat : n <= SIZE_MAX => Wrap(n) = n
  BY <1>1 DEF Wrap
<1>3. sum \in Nat /\ sum <= SIZE_MAX /\ up \in Nat /\ up <= SIZE_MAX /\ 2 * up <= SIZE_MAX
  BY <1>1
<1>4. Wrap(sum) = sum /\ Wrap(up) = up
  BY <1>2, <1>3
<1>5. BlockSize(size) = up - (up % ALIGNMENT)
  BY <1>4 DEF BlockSize, AlignedSize
<1> HIDE DEF up
<1>6. /\ BlockSize(size) \in Nat /\ BlockSize(size) % ALIGNMENT = 0
      /\ BlockSize(size) <= up /\ up < BlockSize(size) + ALIGNMENT
  BY <1>3, <1>5, RoundedDown
<1>7. size + META_SIZE <= BlockSize(size)
  BY <1>1, <1>6 DEF up
<1>8. Signed(BlockSize(size)) = BlockSize(size)
  BY <1>1, <1>3, <1>6 DEF Signed
<1>9. QED
  BY <1>6, <1>7, <1>8

-----------------------------------------------------------------------------
(* Lists.                                                                   *)

\* A set of addresses that holds the list, and in which each block ends in the
\* heap, at the break or at another.
Good(S, f, nx, end) ==
    /\ S \in SUBSET Addrs
    /\ f # NULL => f \in S
    /\ \A c \in S : /\ c + META_SIZE <= nx[c] /\ nx[c] <= end
                    /\ nx[c] = end \/ nx[c] \in S

LEMMA AddrsAreNumbers == Addrs \in SUBSET Nat /\ NULL \notin Addrs
BY BlockListAssumption DEF Addrs, NULL

\* The list is in every such set, and such a set itself.
LEMMA ListIsGood ==
    ASSUME NEW end \in Addrs, NEW f, NEW nx \in [Addrs -> Addrs \cup {NULL}],
           NEW S, Good(S, f, nx, end)
    PROVE  /\ InAll(Closed(f, nx, end)) \in SUBSET S
           /\ Good(InAll(Closed(f, nx, end)), f, nx, end)
<1> DEFINE L == InAll(Closed(f, nx, end))
<1>1. S \in Closed(f, nx, end)
  BY DEF Good, Closed
<1>2. L \in SUBSET S /\ L \in SUBSET Addrs
  BY <1>1 DEF InAll
<1>3. f # NULL => f \in L
  <2>1. f # NULL => f \in S /\ f \in Addrs
    BY DEF Good
  <2>2. ASSUME f # NULL
        PROVE  f # end
    <3>1. f + META_SIZE <= nx[f] /\ nx[f] <= end /\ (nx[f] = end \/ nx[f] \in S)
      BY <2>1, <2>2 DEF Good
    <3>2. f \in Nat /\ end \in Nat /\ nx[f] \in Nat /\ META_SIZE \in Nat \ {0}
      BY <2>1, <2>2, <3>1, AddrsAreNumbers, BlockListAssumption DEF Good
    <3>3. f < end
      BY <3>1, <3>2
    <3>4. QED
      BY <3>2, <3>3
  <2>3. QED
    BY <2>1, <2>2 DEF InAll, Closed
<1>4. ASSUME NEW c \in L
      PROVE  /\ c + META_SIZE <= nx[c] /\ nx[c] <= end
             /\ nx[c] = end \/ nx[c] \in L
  <2>1. c \in S /\ nx[c] <= end /\ c + META_SIZE <= nx[c] /\ (nx[c] = end \/ nx[c] \in S)
    BY <1>2 DEF Good
  <2>2. ASSUME nx[c] # end
        PROVE  nx[c] \in L
    <3>1. nx[c] \in Addrs
      BY <2>1, <2>2 DEF Good
    <3>2. \A T \in Closed(f, nx, end) : c \in T
      BY DEF InAll
    <3>3. \A T \in Closed(f, nx, end) : nx[c] \in T
      BY <2>2, <3>2 DEF Closed
    <3>4. QED
      BY <3>1, <3>3 DEF InAll
  <2>3. QED
    BY <2>1, <2>2
<1>5. QED
  BY <1>2, <1>3, <1>4 DEF Good

\* Blocks of a list do not overlap.  A least block that starts inside an earlier one
\* cannot be reached: up to that earlier one the list is in order, and from there
\* it goes on behind it.
LEMMA ListInOrder ==
    ASSUME NEW end \in Addrs, NEW f, NEW nx \in [Addrs -> Addrs \cup {NULL}],
           NEW L, L = InAll(Closed(f, nx, end)), Good(L, f, nx, end)
    PROVE  \A b, c \in L : b < c => nx[b] <= c
<1> DEFINE Inside == {c \in L : \E b \in L : b < c /\ ~(nx[b] <= c)}
<1> SUFFICES ASSUME Inside # {}
             PROVE  FALSE
  OBVIOUS
<1>1. L \in SUBSET Nat
  BY AddrsAreNumbers DEF Good
<1>2. PICK c \in Inside : \A i \in Inside : c <= i
  <2>1. Inside \in SUBSET Nat
    BY <1>1
  <2>2. PICK k \in Inside : TRUE
    OBVIOUS
  <2>3. QED
    BY <2>1, <2>2, LeastNumber
<1>3. PICK d \in L : d < c /\ ~(nx[d] <= c)
  OBVIOUS
<1>4. c \in L /\ c \in Nat /\ d \in Nat
  BY <1>1
<1>5. d \notin Inside
  BY <1>2, <1>3, <1>4
<1>6. \A x \in L : x < d => nx[x] <= d
  BY <1>5
<1> HIDE DEF Inside
<1>7. \A x \in L : /\ x \in Nat /\ nx[x] \in Nat /\ x < nx[x]
                   /\ nx[x] # end => nx[x] \in L
  BY <1>1, AddrsAreNumbers, BlockListAssumption DEF Good
<1> DEFINE S == {x \in L : x <= d \/ nx[d] <= x}
<1>8. S \in SUBSET Addrs
  BY DEF Good
<1>9. ASSUME f \notin {NULL, end}
      PROVE  f \in S
  <2> DEFINE T == {x \in L : f <= x}
  <2>1. f \in L /\ f \in Nat
    BY <1>1, <1>9 DEF Good
  <2>2. \A x \in T : nx[x] # end => nx[x] \in T
    BY <1>7, <2>1
  <2>3. T \in Closed(f, nx, end)
    BY <2>1, <2>2 DEF Closed, Good
  <2>4. d \in T
    BY <2>3 DEF InAll
  <2>5. QED
    BY <2>1, <2>4
<1>10. ASSUME NEW x \in S, nx[x] # end
       PROVE  nx[x] \in S
  <2>1. x \in L /\ nx[x] \in L /\ x \in Nat /\ nx[x] \in Nat /\ x < nx[x] /\ nx[d] \in Nat
    BY <1>7, <1>10
  <2>2. CASE x < d
    BY <1>6, <2>1, <2>2
  <2>3. CASE x = d
    BY <2>1, <2>3
  <2>4. CASE nx[d] <= x
    BY <2>1, <2>4
  <2>5. QED
    BY <1>4, <2>1, <2>2, <2>3, <2>4
<1>11. S \in Closed(f, nx, end)
  BY <1>8, <1>9, <1>10 DEF Closed
<1>12. c \in S
  BY <1>4, <1>11 DEF InAll
<1>13. QED
  BY <1>3, <1>4, <1>7, <1>12

-----------------------------------------------------------------------------
(* The invariant.                                                           *)

\* merge_blocks's block is one of the set, too, though it rewrites the list.
HeapInv ==
    /\ TypeOK
    /\ \E S \in SUBSET Addrs : Good(S, first, next, brk) /\ (pc = "merge" => pb \in S)

LEMMA HeapInvTiled == HeapInv => Tiled
<1> SUFFICES ASSUME HeapInv
             PROVE  Tiled
  OBVIOUS
<1>1. PICK S \in SUBSET Addrs : Good(S, first, next, brk)
  BY DEF HeapInv
<1>2. brk \in Addrs /\ next \in [Addrs -> Addrs \cup {NULL}]
  BY DEF HeapInv, TypeOK
<1>3. Good(Blocks, first, next, brk)
  BY <1>1, <1>2, ListIsGood DEF Blocks
<1>4. \A b, c \in Blocks : b < c => next[b] <= c
  BY <1>2, <1>3, ListInOrder DEF Blocks
<1>5. QED
  BY <1>3, <1>4 DEF Tiled, Good

\* split_block: the two parts of a block tile what it tiled.
LEMMA SplitKeepsInv ==
    ASSUME SizesFit, HeapInv, Idle, NEW b \in Blocks, NEW size \in Sizes,
           NEW flags \in [Addrs -> BOOLEAN], SplitHeaders(b, size, flags), live' = [live EXCEPT ![b] = size],
           UNCHANGED <<first, brk, merging>>
    PROVE  HeapInv'
<1> DEFINE at == b + BlockSize(size)
<1>1. PICK S \in SUBSET Addrs : Good(S, first, next, brk)
  BY DEF HeapInv
<1>2. /\ first \in Addrs \cup {NULL} /\ brk \in Addrs /\ next \in [Addrs -> Addrs \cup {NULL}]
      /\ is_free \in [Addrs -> BOOLEAN] /\ live \in [Addrs -> Sizes \cup {NONE}]
      /\ pb \in Addrs \cup {NULL} /\ from \in Addrs \cup {NULL} /\ pc = "idle"
  BY DEF HeapInv, TypeOK, Idle
<1>3. b \in S /\ b \in Addrs /\ b \in Nat
  BY <1>1, <1>2, ListIsGood, AddrsAreNumbers DEF Blocks
<1>4. /\ BlockSize(size) \in Nat /\ BlockSize(size) % ALIGNMENT = 0
      /\ size + META_SIZE <= BlockSize(size) /\ size \in Nat /\ META_SIZE \in Nat \ {0}
  BY BlockSizes, BlockListAssumption
<1>5. /\ first' = first /\ brk' = brk /\ pc' = "idle" /\ pb' = pb /\ from' = from
      /\ live' \in [Addrs -> Sizes \cup {NONE}]
  BY <1>2, <1>3 DEF merging
<1>6. CASE DataSize(b) - BlockSize(size) >= 0
  <2>1. /\ next' = [next EXCEPT ![at] = next[b], ![b] = at]
        /\ is_free' = [flags EXCEPT ![at] = TRUE]
    BY <1>6 DEF SplitHeaders
  <2>2. /\ next[b] \in Nat /\ next[b] \in Addrs \cup {brk} /\ b + META_SIZE <= next[b]
        /\ next[b] <= brk /\ (next[b] = brk \/ next[b] \in S)
    BY <1>1, <1>2, <1>3, AddrsAreNumbers DEF Good
  <2>3. at \in Nat /\ b + META_SIZE <= at /\ at + META_SIZE <= next[b] /\ at # b
    BY <1>3, <1>4, <1>6, <2>2 DEF DataSize
  <2>4. at \in Addrs
    <3>1. at % ALIGNMENT = 0
      BY <1>3, <1>4, AlignedSum DEF Addrs
    <3>2. Start <= at /\ at <= Limit
      BY <1>2, <1>3, <1>4, <2>2, <2>3, BlockListAssumption DEF Addrs
    <3>3. QED
      BY <2>3, <3>1, <3>2, BlockListAssumption DEF Addrs
  <2> HIDE DEF at
  <2>5. /\ next' \in [Addrs -> Addrs \cup {NULL}] /\ is_free' \in [Addrs -> BOOLEAN]
        /\ next'[at] = next[b] /\ next'[b] = at
        /\ \A c \in Addrs \ {at, b} : next'[c] = next[c]
    BY <1>2, <1>3, <2>1, <2>2, <2>3, <2>4
  <2>6. Good(S \cup {at}, first', next', brk')
    <3>1. \A c \in S \ {at, b} : /\ c + META_SIZE <= next'[c] /\ next'[c] <= brk
                                 /\ next'[c] = brk \/ next'[c] \in S
      BY <1>1, <2>5 DEF Good
    <3>2. brk \in Nat /\ at <= brk /\ b + META_SIZE <= next'[b] /\ next'[b] <= brk
      BY <1>2, <1>4, <2>2, <2>3, <2>5, AddrsAreNumbers
    <3>3. QED
      BY <1>1, <1>5, <2>2, <2>3, <2>4, <2>5, <3>1, <3>2 DEF Good
  <2>7. TypeOK'
    BY <1>2, <1>5, <2>5 DEF TypeOK
  <2>8. QED
    BY <1>5, <2>4, <2>6, <2>7 DEF HeapInv
<1>7. CASE ~(DataSize(b) - BlockSize(size) >= 0)
  <2>1. next' = next /\ is_free' = flags
    BY <1>7 DEF SplitHeaders
  <2>2. TypeOK'
    BY <1>2, <1>5, <2>1 DEF TypeOK
  <2>3. QED
    BY <1>1, <1>5, <2>1, <2>2 DEF HeapInv
<1>8. QED
  BY <1>6, <1>7

\* new_block: the new block tiles what the break grew by.
LEMMA AllocateKeepsInv ==
    ASSUME SizesFit, HeapInv, NEW size \in Sizes, Allocate(size)
    PROVE  HeapInv'
<1> DEFINE end == brk + BlockSize(size)
<1>1. PICK S \in SUBSET Addrs : Good(S, first, next, brk)
  BY DEF HeapInv
<1>2. /\ first \in Addrs \cup {NULL} /\ brk \in Addrs /\ next \in [Addrs -> Addrs \cup {NULL}]
      /\ is_free \in [Addrs -> BOOLEAN] /\ live \in [Addrs -> Sizes \cup {NONE}]
      /\ pb \in Addrs \cup {NULL} /\ from \in Addrs \cup {NULL} /\ brk \in Nat
  BY AddrsAreNumbers DEF HeapInv, TypeOK
<1>3. /\ BlockSize(size) \in Nat /\ BlockSize(size) % ALIGNMENT = 0
      /\ size + META_SIZE <= BlockSize(size) /\ size \in Nat /\ META_SIZE \in Nat \ {0}
      /\ Signed(BlockSize(size)) = BlockSize(size)
  BY BlockSizes, BlockListAssumption
<1>4. /\ pc = "idle" /\ pc' = "idle" /\ pb' = pb /\ from' = from
      /\ end \in Start .. Limit /\ brk' = end
      /\ next' = [next EXCEPT ![brk] = end] /\ is_free' = [is_free EXCEPT ![brk] = FALSE]
      /\ first' = IF first = NULL THEN brk ELSE first
      /\ live' = [live EXCEPT ![brk] = size]
  BY <1>3 DEF Allocate, merging, Idle
<1>5. end \in Nat /\ brk + META_SIZE <= end
  BY <1>2, <1>3
<1>6. end \in Addrs
  <2>1. end % ALIGNMENT = 0
    BY <1>2, <1>3, AlignedSum DEF Addrs
  <2>2. QED
    BY <1>4, <2>1 DEF Addrs
<1> HIDE DEF end
<1>7. TypeOK'
  BY <1>2, <1>4, <1>6 DEF TypeOK
<1>8. Good(S \cup {brk}, first', next', brk')
  <2>1. \A c \in S : /\ c \in Nat /\ c \in Addrs /\ next[c] \in Nat /\ c + META_SIZE <= next[c]
                     /\ next[c] <= brk /\ (next[c] = brk \/ next[c] \in S)
    BY <1>1, <1>2, AddrsAreNumbers DEF Good
  <2>2. next'[brk] = end /\ \A c \in S : c # brk /\ next'[c] = next[c]
    BY <1>2, <1>3, <1>4, <2>1
  <2>3. \A c \in S : c + META_SIZE <= next'[c] /\ next'[c] <= end
    BY <1>2, <1>3, <1>5, <2>1, <2>2
  <2>4. \A c \in S : next'[c] \in S \cup {brk}
    BY <2>1, <2>2
  <2>5. first' \in S \cup {brk}
    BY <1>1, <1>4 DEF Good
  <2>6. QED
    BY <1>2, <1>4, <1>5, <2>2, <2>3, <2>4, <2>5 DEF Good
<1>9. QED
  BY <1>2, <1>4, <1>7, <1>8 DEF HeapInv

\* merge_blocks: a merged block ends where the second one did.
LEMMA MergeNextKeepsInv ==
    ASSUME HeapInv, MergeNext
    PROVE  HeapInv'
<1>1. PICK S \in SUBSET Addrs : Good(S, first, next, brk) /\ pb \in S
  BY DEF HeapInv, MergeNext
<1>2. /\ next \in [Addrs -> Addrs \cup {NULL}] /\ brk \in Addrs /\ META_SIZE \in Nat
  BY BlockListAssumption DEF HeapInv, TypeOK
<1>3. /\ next[pb] \in S /\ pb + META_SIZE <= next[pb]
      /\ next[pb] + META_SIZE <= next[next[pb]] /\ next[next[pb]] <= brk
      /\ next[next[pb]] = brk \/ next[next[pb]] \in S
  BY <1>1 DEF Good, MergeNext
<1>4. pb \in Nat /\ next[pb] \in Nat /\ next[next[pb]] \in Nat /\ next[next[pb]] \in Addrs
  BY <1>1, <1>2, <1>3, AddrsAreNumbers
<1>5. pb + META_SIZE <= next[next[pb]]
  BY <1>2, <1>3, <1>4
<1>6. /\ next' = [next EXCEPT ![pb] = next[next[pb]]]
      /\ UNCHANGED <<first, brk, is_free, live, pc, pb, from>>
  BY DEF MergeNext, merging
<1>7. TypeOK'
  BY <1>1, <1>4, <1>6 DEF HeapInv, TypeOK
<1>8. next'[pb] = next[next[pb]] /\ \A c \in S \ {pb} : next'[c] = next[c]
  BY <1>1, <1>2, <1>6
<1>9. Good(S, first', next', brk')
  BY <1>1, <1>3, <1>5, <1>6, <1>8 DEF Good
<1>10. QED
  BY <1>1, <1>6, <1>7, <1>9 DEF HeapInv

LEMMA HeapInvInit == Init => HeapInv
<1> SUFFICES ASSUME Init
             PROVE  HeapInv
  OBVIOUS
<1>1. Start \in Addrs
  BY BlockListAssumption DEF Addrs
<1>2. TypeOK
  BY <1>1 DEF Init, TypeOK
<1>3. Good({}, first, next, brk)
  BY DEF Init, Good
<1>4. QED
  BY <1>2, <1>3 DEF Init, HeapInv

LEMMA HeapInvStep == SizesFit /\ HeapInv /\ [Next]_vars => HeapInv'
<1> SUFFICES ASSUME SizesFit, HeapInv, [Next]_vars
             PROVE  HeapInv'
  OBVIOUS
<1> USE DEF merging
<1>0. PICK S \in SUBSET Addrs : Good(S, first, next, brk) /\ (pc = "merge" => pb \in S)
  BY DEF HeapInv
<1>1. /\ brk \in Addrs /\ next \in [Addrs -> Addrs \cup {NULL}] /\ Blocks \in SUBSET S
      /\ is_free \in [Addrs -> BOOLEAN] /\ live \in [Addrs -> Sizes \cup {NONE}]
      /\ first \in Addrs \cup {NULL}
  BY <1>0, ListIsGood DEF HeapInv, TypeOK, Blocks
<1>2. ASSUME NEW size \in Sizes, Allocate(size)
      PROVE  HeapInv'
  BY <1>2, AllocateKeepsInv
<1>3. ASSUME NEW size \in Sizes, NEW b \in Blocks, Take(b, size)
      PROVE  HeapInv'
  <2>1. CASE size < DataSize(b)
    <3>1. [is_free EXCEPT ![b] = FALSE] \in [Addrs -> BOOLEAN]
      BY <1>1
    <3>2. QED
      BY <1>3, <2>1, <3>1, SplitKeepsInv DEF Take
  <2>2. CASE ~(size < DataSize(b))
    <3>1. /\ is_free' = [is_free EXCEPT ![b] = FALSE] /\ live' = [live EXCEPT ![b] = size]
          /\ UNCHANGED <<first, brk, next, pc, pb, from>>
      BY <1>3, <2>2 DEF Take
    <3>2. TypeOK'
      BY <1>1, <3>1 DEF HeapInv, TypeOK
    <3>3. QED
      BY <1>0, <3>1, <3>2 DEF HeapInv
  <2>3. QED
    BY <2>1, <2>2
<1>4. ASSUME NEW size \in Sizes, NEW b \in Blocks, Shrink(b, size)
      PROVE  HeapInv'
  BY <1>1, <1>4, SplitKeepsInv DEF Shrink
<1>5. ASSUME NEW b \in Addrs, Release(b)
      PROVE  HeapInv'
  <2>1. /\ is_free' \in [Addrs -> BOOLEAN] /\ live' = [live EXCEPT ![b] = NONE]
        /\ UNCHANGED <<first, brk, next, pc, pb, from>>
    BY <1>1, <1>5 DEF Release
  <2>2. TypeOK'
    BY <1>1, <2>1 DEF HeapInv, TypeOK
  <2>3. QED
    BY <1>0, <2>1, <2>2 DEF HeapInv
<1>6. ASSUME NEW b \in Addrs, MergeBlocks(b)
      PROVE  HeapInv'
  <2>1. b \in S /\ pb' = b /\ from' = b /\ pc' = "merge"
        /\ UNCHANGED <<first, brk, next, is_free, live>>
    BY <1>1, <1>6 DEF MergeBlocks
  <2>2. TypeOK'
    BY <1>6, <2>1 DEF HeapInv, TypeOK
  <2>3. QED
    BY <1>0, <2>1, <2>2 DEF HeapInv
<1>7. ASSUME NEW end \in {first, brk}, Reset(end)
      PROVE  HeapInv'
  <2>1. /\ end \in Addrs /\ brk' = end /\ first' = NULL /\ live' = [b \in Addrs |-> NONE]
        /\ pc' = "idle" /\ UNCHANGED <<next, is_free, pc, pb, from>>
    BY <1>1, <1>7 DEF Reset, Idle
  <2>2. TypeOK'
    BY <2>1 DEF HeapInv, TypeOK
  <2>3. Good({}, first', next', brk')
    BY <2>1 DEF Good
  <2>4. QED
    BY <2>1, <2>2, <2>3 DEF HeapInv
<1>8. CASE MergeNext
  BY <1>8, MergeNextKeepsInv
<1>9. CASE MoveNext
  <2>1. pb \in S /\ next[pb] \in S /\ pb' = next[pb]
        /\ UNCHANGED <<first, brk, next, is_free, live, pc, from>>
    BY <1>0, <1>9 DEF MoveNext, Good
  <2>2. TypeOK'
    BY <2>1 DEF HeapInv, TypeOK
  <2>3. QED
    BY <1>0, <2>1, <2>2 DEF HeapInv
<1>10. CASE MergeReturns
  <2>1. pc' = "idle" /\ pb' = NULL /\ from' = NULL
        /\ UNCHANGED <<first, brk, next, is_free, live>>
    BY <1>10 DEF MergeReturns
  <2>2. TypeOK'
    BY <2>1 DEF HeapInv, TypeOK
  <2>3. QED
    BY <1>0, <2>1, <2>2 DEF HeapInv
<1>11. CASE UNCHANGED vars
  BY <1>0, <1>11 DEF HeapInv, TypeOK, vars
<1>12. QED
  BY <1>2, <1>3, <1>4, <1>5, <1>6, <1>7, <1>8, <1>9, <1>10, <1>11 DEF Next, Merge

LEMMA HeapInvariant == SizesFit /\ Spec => []HeapInv
<1>1. Init => HeapInv
  BY HeapInvInit
<1>2. SizesFit /\ HeapInv /\ [Next]_vars => HeapInv'
  BY HeapInvStep
<1>3. SizesFit => [](SizesFit)
  OBVIOUS
<1>4. QED
  BY <1>1, <1>2, <1>3, PTL DEF Spec

\* The blocks tile the heap, whatever is allocated, split, merged and given back,
\* unless a caller asks for a size at which new_block's sums wrap.
THEOREM AlwaysTiled == SizesFit /\ Spec => []Tiled
<1>1. SizesFit /\ Spec => []HeapInv
  BY HeapInvariant
<1>2. HeapInv => Tiled
  BY HeapInvTiled
<1>3. QED
  BY <1>1, <1>2, PTL

\* Every address and every header stays in the heap and aligned.
THEOREM HeapTypeCorrect == SizesFit /\ Spec => []TypeOK
<1>1. SizesFit /\ Spec => []HeapInv
  BY HeapInvariant
<1>2. HeapInv => TypeOK
  BY DEF HeapInv
<1>3. QED
  BY <1>1, <1>2, PTL

-----------------------------------------------------------------------------
(* What callers hold, and what merge_blocks has done.                       *)

\* merge_blocks's block is in the list, though it rewrites the list.
KeptInv ==
    /\ HeapInv
    /\ AllocationsKept
    /\ MergesAll
    /\ pc = "merge" => pb \in Blocks

\* What the proofs below use of HeapInv.
LEMMA BlocksGood ==
    ASSUME HeapInv
    PROVE  /\ Blocks \in SUBSET Addrs /\ Blocks \in SUBSET Nat /\ brk \in Addrs /\ brk \in Nat
           /\ first # NULL => first \in Blocks
           /\ \A c \in Blocks : /\ next[c] \in Nat /\ next[c] \in Addrs
                                /\ c + META_SIZE <= next[c] /\ next[c] <= brk /\ c < next[c]
                                /\ next[c] = brk \/ next[c] \in Blocks
           /\ \A b, c \in Blocks : b < c => next[b] <= c
           /\ META_SIZE \in Nat \ {0}
<1>1. PICK S \in SUBSET Addrs : Good(S, first, next, brk)
  BY DEF HeapInv
<1>2. brk \in Addrs /\ next \in [Addrs -> Addrs \cup {NULL}]
  BY DEF HeapInv, TypeOK
<1>3. Good(Blocks, first, next, brk)
  BY <1>1, <1>2, ListIsGood DEF Blocks
<1>4. \A b, c \in Blocks : b < c => next[b] <= c
  BY <1>2, <1>3, ListInOrder DEF Blocks
<1>5. META_SIZE \in Nat \ {0} /\ Addrs \in SUBSET Nat
  BY BlockListAssumption, AddrsAreNumbers
<1>6. ASSUME NEW c \in Blocks
      PROVE  /\ next[c] \in Nat /\ next[c] \in Addrs
             /\ c + META_SIZE <= next[c] /\ next[c] <= brk /\ c < next[c]
             /\ next[c] = brk \/ next[c] \in Blocks
  <2>1. /\ c \in Addrs /\ c + META_SIZE <= next[c] /\ next[c] <= brk
        /\ next[c] = brk \/ next[c] \in Blocks
    BY <1>3 DEF Good
  <2>2. next[c] \in Addrs
    BY <1>2, <1>3, <2>1 DEF Good
  <2>3. c \in Nat /\ next[c] \in Nat
    BY <1>5, <2>1, <2>2
  <2>4. QED
    BY <1>5, <2>1, <2>2, <2>3
<1>7. QED
  BY <1>2, <1>3, <1>4, <1>5, <1>6 DEF Good

\* The last block ends at the break.
LEMMA LastBlock ==
    ASSUME HeapInv, Blocks # {}
    PROVE  \E b \in Blocks : next[b] = brk
<1> DEFINE Left == {brk - b : b \in Blocks}
<1>1. Left \in SUBSET Nat /\ Left # {}
  <2>1. \A b \in Blocks : b \in Nat /\ b <= brk /\ brk \in Nat
    BY BlocksGood
  <2>2. QED
    BY <2>1
<1>2. PICK least \in Left : \A n \in Left : least <= n
  BY <1>1, LeastNumber
<1>3. PICK b \in Blocks : least = brk - b
  OBVIOUS
<1>4. \A c \in Blocks : brk - b <= brk - c
  BY <1>2, <1>3
<1> HIDE DEF Left
<1>5. next[b] \notin Blocks
  <2>1. b \in Nat /\ next[b] \in Nat /\ b < next[b] /\ brk \in Nat
    BY BlocksGood
  <2>2. QED
    BY <1>4, <2>1
<1>6. QED
  BY <1>5, BlocksGood

\* What a caller holds, without find_block.
Held == \A b \in Addrs : live[b] # NONE =>
           b \in Blocks /\ ~is_free[b] /\ live[b] + META_SIZE <= next[b] - b

LEMMA HeldMeans == TypeOK => (AllocationsKept <=> Held)
<1> SUFFICES ASSUME TypeOK
             PROVE  AllocationsKept <=> Held
  OBVIOUS
<1>1. ASSUME NEW b \in Addrs
      PROVE  /\ b \in Nat /\ b # NULL /\ META_SIZE \in Nat /\ next[b] \in Nat
             /\ b + META_SIZE - META_SIZE = b
             /\ live[b] # NONE => live[b] \in Nat
  <2>1. b \in Nat /\ b # NULL /\ META_SIZE \in Nat
    BY AddrsAreNumbers, BlockListAssumption
  <2>2. next[b] \in Addrs \cup {NULL} /\ live[b] \in Sizes \cup {NONE}
    BY DEF TypeOK
  <2>3. NULL \in Nat /\ (\A a \in Addrs : a \in Nat) /\ \A size \in Sizes : size \in Nat
    BY AddrsAreNumbers, BlockListAssumption DEF NULL
  <2>4. next[b] \in Nat /\ (live[b] # NONE => live[b] \in Nat)
    BY <2>2, <2>3
  <2>5. b + META_SIZE - META_SIZE = b
    BY <2>1
  <2>6. QED
    BY <2>1, <2>4, <2>5
<1>2. ASSUME NEW b \in Addrs
      PROVE  FindBlock(b + META_SIZE) = b <=> b \in Blocks
  BY <1>1 DEF FindBlock
<1>3. ASSUME NEW b \in Addrs, live[b] # NONE
      PROVE  live[b] <= DataSize(b) <=> live[b] + META_SIZE <= next[b] - b
  <2>1. b \in Nat /\ META_SIZE \in Nat /\ next[b] \in Nat /\ live[b] \in Nat
    BY <1>1, <1>3
  <2>2. QED
    BY <2>1 DEF DataSize
<1>4. QED
  BY <1>2, <1>3 DEF AllocationsKept, Held

\* From a step that keeps HeapInv, and from what callers hold after it.
LEMMA HeldNext ==
    ASSUME HeapInv', Held'
    PROVE  AllocationsKept'
<1>1. TypeOK'
  BY DEF HeapInv
<1>2. QED
  BY <1>1, HeldMeans, PTL

\* new_block adds one block behind the others.
LEMMA AllocateKeeps ==
    ASSUME SizesFit, KeptInv, NEW size \in Sizes, Allocate(size)
    PROVE  KeptInv'
<1> DEFINE end == brk + BlockSize(size)
<1>1. HeapInv /\ HeapInv' /\ Held
  BY AllocateKeepsInv, HeldMeans DEF KeptInv, HeapInv
<1>2. /\ BlockSize(size) \in Nat /\ size + META_SIZE <= BlockSize(size)
      /\ size \in Nat /\ META_SIZE \in Nat \ {0} /\ Signed(BlockSize(size)) = BlockSize(size)
  BY BlockSizes, BlockListAssumption
<1>3. /\ pc = "idle" /\ pc' = "idle" /\ brk' = end
      /\ next' = [next EXCEPT ![brk] = end] /\ is_free' = [is_free EXCEPT ![brk] = FALSE]
      /\ first' = IF first = NULL THEN brk ELSE first
      /\ live' = [live EXCEPT ![brk] = size]
  BY <1>2 DEF Allocate, merging, Idle
<1>4. /\ brk \in Addrs /\ brk \in Nat /\ first \in Addrs \cup {NULL} /\ first' # NULL
      /\ next \in [Addrs -> Addrs \cup {NULL}] /\ is_free \in [Addrs -> BOOLEAN]
      /\ live \in [Addrs -> Sizes \cup {NONE}]
  BY <1>1, <1>3, AddrsAreNumbers DEF HeapInv, TypeOK
<1>5. end \in Nat /\ end - brk = BlockSize(size) /\ brk < end
  BY <1>2, <1>4
<1> HIDE DEF end
<1>6. \A c \in Blocks : /\ c \in Addrs /\ c # brk /\ next[c] # end /\ c # end
                        /\ next'[c] = next[c] /\ is_free'[c] = is_free[c] /\ live'[c] = live[c]
  <2>1. ASSUME NEW c \in Blocks
        PROVE  c \in Addrs /\ c # brk /\ next[c] # end /\ c # end
    BY <1>1, <1>4, <1>5, BlocksGood
  <2>2. QED
    BY <1>3, <1>4, <2>1
<1>7. ASSUME NEW T \in Closed(first', next', brk')
      PROVE  T \cap Blocks \in Closed(first, next, brk)
  <2>1. first \notin {NULL, brk} => first \in T \cap Blocks
    BY <1>1, <1>3, <1>6, <1>7, BlocksGood DEF Closed
  <2>2. ASSUME NEW c \in T \cap Blocks, next[c] # brk
        PROVE  next[c] \in T \cap Blocks
    BY <1>1, <1>3, <1>6, <1>7, <2>2, BlocksGood DEF Closed
  <2>3. QED
    BY <1>1, <2>1, <2>2, BlocksGood DEF Closed
<1>8. Blocks \in SUBSET Blocks'
  <2>1. ASSUME NEW T \in Closed(first', next', brk')
        PROVE  Blocks \in SUBSET T
    BY <1>7 DEF Blocks, InAll
  <2>2. QED
    BY <1>6, <2>1 DEF Blocks, InAll
<1>9. brk \in Blocks'
  <2>1. ASSUME NEW T \in Closed(first', next', brk')
        PROVE  brk \in T
    <3>1. CASE Blocks = {}
      <4>1. first = NULL
        BY <1>1, <3>1, BlocksGood
      <4>2. QED
        BY <1>3, <1>4, <1>5, <2>1, <4>1 DEF Closed
    <3>2. CASE Blocks # {}
      <4>1. PICK b \in Blocks : next[b] = brk
        BY <1>1, <3>2, LastBlock
      <4>2. b \in T /\ next'[b] = brk
        BY <1>6, <1>7, <4>1 DEF Blocks, InAll
      <4>3. QED
        BY <1>3, <1>5, <1>4, <2>1, <4>2 DEF Closed
    <3>3. QED
      BY <3>1, <3>2
  <2>2. QED
    BY <1>4, <2>1 DEF Blocks, InAll
<1>10. Held'
  <2>1. ASSUME NEW b \in Addrs, live'[b] # NONE
        PROVE  b \in Blocks' /\ ~is_free'[b] /\ live'[b] + META_SIZE <= next'[b] - b
    <3>1. CASE b = brk
      BY <1>2, <1>3, <1>4, <1>5, <1>9, <3>1
    <3>2. CASE b # brk
      BY <1>1, <1>3, <1>4, <1>6, <1>8, <2>1, <3>2 DEF Held
    <3>3. QED
      BY <3>1, <3>2
  <2>2. QED
    BY <2>1 DEF Held
<1>11. QED
  BY <1>1, <1>3, <1>10, HeldNext DEF KeptInv, MergesAll

\* split_block keeps the blocks that there are.
LEMMA SplitKeeps ==
    ASSUME SizesFit, KeptInv, Idle, NEW b \in Blocks, NEW size \in Sizes,
           NEW flags \in [Addrs -> BOOLEAN],
           ~flags[b], \A c \in Addrs \ {b} : flags[c] = is_free[c],
           size < DataSize(b), SplitHeaders(b, size, flags), live' = [live EXCEPT ![b] = size],
           UNCHANGED <<first, brk, merging>>
    PROVE  KeptInv'
<1> DEFINE at == b + BlockSize(size)
<1>1. HeapInv /\ HeapInv' /\ Held
  BY SplitKeepsInv, HeldMeans DEF KeptInv, HeapInv
<1>2. /\ BlockSize(size) \in Nat /\ size + META_SIZE <= BlockSize(size)
      /\ size \in Nat /\ META_SIZE \in Nat \ {0}
  BY ONLY SizesFit, size \in Sizes, BlockSizes, BlockListAssumption
<1>3. /\ b \in Addrs /\ b \in Nat /\ next[b] \in Nat /\ brk \in Nat /\ next[b] <= brk
      /\ next \in [Addrs -> Addrs \cup {NULL}] /\ is_free \in [Addrs -> BOOLEAN]
      /\ live \in [Addrs -> Sizes \cup {NONE}]
  BY <1>1, BlocksGood DEF HeapInv, TypeOK
<1>4. pc' = "idle" /\ first' = first /\ brk' = brk
  BY DEF Idle, merging
<1>5. CASE DataSize(b) - BlockSize(size) >= 0
  <2>1. /\ next' = [next EXCEPT ![at] = next[b], ![b] = at]
        /\ is_free' = [flags EXCEPT ![at] = TRUE]
    BY <1>5 DEF SplitHeaders
  <2>2. at \in Nat /\ b < at /\ at < next[b] /\ at - b = BlockSize(size)
    BY <1>2, <1>3, <1>5 DEF DataSize
  <2> HIDE DEF at
  <2>3. at \notin Blocks
    <3>1. at \in Blocks => next[b] <= at
      BY <1>1, <2>2, BlocksGood
    <3>2. QED
      BY <1>3, <2>2, <3>1
  <2>4. /\ \A c \in Blocks \ {b} : next'[c] = next[c] /\ is_free'[c] = is_free[c]
        /\ next'[b] = at /\ ~is_free'[b]
        /\ at \in Addrs => next'[at] = next[b]
    BY <1>1, <1>3, <2>1, <2>2, <2>3, BlocksGood
  <2>5. ASSUME NEW T \in Closed(first', next', brk')
        PROVE  T \cap Blocks \in Closed(first, next, brk)
    <3>1. first \notin {NULL, brk} => first \in T \cap Blocks
      BY <1>1, <1>4, <2>5, BlocksGood DEF Closed
    <3>2. ASSUME NEW c \in T \cap Blocks, next[c] # brk
          PROVE  next[c] \in T \cap Blocks
      <4>1. CASE c # b
        BY <1>1, <1>4, <2>4, <2>5, <3>2, <4>1, BlocksGood DEF Closed
      <4>2. CASE c = b
        <5>1. at \in T /\ at \in Addrs
          BY <1>3, <1>4, <2>2, <2>4, <2>5, <4>2 DEF Closed
        <5>2. next[b] \in T
          BY <1>4, <2>4, <2>5, <3>2, <4>2, <5>1 DEF Closed
        <5>3. QED
          BY <1>1, <3>2, <4>2, <5>2, BlocksGood
      <4>3. QED
        BY <4>1, <4>2
    <3>3. QED
      BY <1>1, <3>1, <3>2, BlocksGood DEF Closed
  <2>6. Blocks \in SUBSET Blocks'
    <3>1. ASSUME NEW T \in Closed(first', next', brk')
          PROVE  Blocks \in SUBSET T
      BY <2>5 DEF Blocks, InAll
    <3>2. QED
      BY <1>1, <3>1, BlocksGood DEF Blocks, InAll
  <2>7. Held'
    <3>1. ASSUME NEW c \in Addrs, live'[c] # NONE
          PROVE  c \in Blocks' /\ ~is_free'[c] /\ live'[c] + META_SIZE <= next'[c] - c
      <4>1. CASE c = b
        BY <1>2, <1>3, <2>2, <2>4, <2>6, <4>1
      <4>2. CASE c # b
        BY <1>1, <1>3, <2>4, <2>6, <3>1, <4>2 DEF Held
      <4>3. QED
        BY <4>1, <4>2
    <3>2. QED
      BY <3>1 DEF Held
  <2>8. QED
    BY <1>1, <1>4, <2>7, HeldNext DEF KeptInv, MergesAll
<1>6. CASE ~(DataSize(b) - BlockSize(size) >= 0)
  <2>1. next' = next /\ is_free' = flags /\ Blocks' = Blocks
    BY <1>4, <1>6 DEF SplitHeaders, Blocks
  <2>2. size + META_SIZE <= next[b] - b
    BY <1>2, <1>3 DEF DataSize
  <2>3. Held'
    BY <1>1, <1>3, <2>1, <2>2 DEF Held
  <2>4. QED
    BY <1>1, <1>4, <2>3, HeldNext DEF KeptInv, MergesAll
<1>7. QED
  BY <1>5, <1>6

\* Merging the free block behind pb takes that block from the list, and no other.
LEMMA MergeNextKeeps ==
    ASSUME KeptInv, MergeNext
    PROVE  KeptInv'
<1> DEFINE gone == next[pb]
<1>1. HeapInv /\ HeapInv' /\ Held /\ pb \in Blocks
  BY MergeNextKeepsInv, HeldMeans DEF KeptInv, HeapInv, MergeNext
<1>2. /\ is_free[pb] /\ is_free[gone] /\ gone # brk /\ pc = "merge"
      /\ next' = [next EXCEPT ![pb] = next[gone]]
      /\ UNCHANGED <<first, brk, is_free, live, pc, pb, from>>
  BY DEF MergeNext, merging
<1>3. /\ pb \in Addrs /\ pb \in Nat /\ gone \in Blocks /\ gone \in Nat /\ pb < gone
      /\ next \in [Addrs -> Addrs \cup {NULL}] /\ gone < next[gone] /\ next[gone] \in Nat
  BY <1>1, <1>2, BlocksGood DEF HeapInv, TypeOK
<1> HIDE DEF gone
<1>4. /\ next'[pb] = next[gone] /\ next[pb] = gone
      /\ \A c \in Blocks \ {pb} : next'[c] = next[c]
  BY <1>1, <1>2, <1>3, BlocksGood DEF gone
<1>5. ASSUME NEW T \in Closed(first', next', brk')
      PROVE  T \cap Blocks \in Closed(first, next, brk) \/ pb \in T
  <2> SUFFICES ASSUME pb \notin T
               PROVE  T \cap Blocks \in Closed(first, next, brk)
    OBVIOUS
  <2>1. first \notin {NULL, brk} => first \in T \cap Blocks
    BY <1>1, <1>2, <1>5, BlocksGood DEF Closed
  <2>2. ASSUME NEW c \in T \cap Blocks, next[c] # brk
        PROVE  next[c] \in T \cap Blocks
    BY <1>1, <1>2, <1>4, <1>5, <2>2, BlocksGood DEF Closed
  <2>3. QED
    BY <1>1, <2>1, <2>2, BlocksGood DEF Closed
<1>6. ASSUME NEW T \in Closed(first', next', brk')
      PROVE  Blocks \ {gone} \in SUBSET T
  <2>1. pb \in T
    BY <1>1, <1>5 DEF Blocks, InAll
  <2>2. (T \cap Blocks) \cup {gone} \in Closed(first, next, brk)
    <3>1. first \notin {NULL, brk} => first \in T \cap Blocks
      BY <1>1, <1>2, <1>6, BlocksGood DEF Closed
    <3>2. ASSUME NEW c \in (T \cap Blocks) \cup {gone}, next[c] # brk
          PROVE  next[c] \in (T \cap Blocks) \cup {gone}
      <4>1. CASE c = pb
        BY <1>4, <4>1
      <4>2. CASE c = gone
        <5>1. next'[pb] # brk'
          BY <1>2, <1>4, <3>2, <4>2
        <5>2. next'[pb] \in T
          BY <1>6, <2>1, <5>1 DEF Closed
        <5>3. QED
          BY <1>1, <1>3, <1>4, <3>2, <4>2, <5>2, BlocksGood
      <4>3. CASE c \notin {pb, gone}
        BY <1>1, <1>2, <1>4, <1>6, <3>2, <4>3, BlocksGood DEF Closed
      <4>4. QED
        BY <4>1, <4>2, <4>3
    <3>3. QED
      BY <1>1, <1>3, <3>1, <3>2, BlocksGood DEF Closed
  <2>3. QED
    BY <2>2 DEF Blocks, InAll
<1>7. Blocks \ {gone} \in SUBSET Blocks'
  BY <1>1, <1>6, BlocksGood DEF Blocks, InAll
<1>8. Blocks' \in SUBSET Blocks
  <2>1. Blocks \in Closed(first', next', brk')
    <3>1. first' \notin {NULL, brk'} => first' \in Blocks
      BY <1>1, <1>2, BlocksGood
    <3>2. ASSUME NEW c \in Blocks, next'[c] # brk'
          PROVE  next'[c] \in Blocks
      BY <1>1, <1>2, <1>3, <1>4, <3>2, BlocksGood
    <3>3. QED
      BY <1>1, <3>1, <3>2, BlocksGood DEF Closed
  <2>2. QED
    BY <2>1 DEF Blocks, InAll
<1>9. Held'
  <2>1. ASSUME NEW b \in Addrs, live'[b] # NONE
        PROVE  b \in Blocks' /\ ~is_free'[b] /\ live'[b] + META_SIZE <= next'[b] - b
    <3>1. b \in Blocks /\ ~is_free[b] /\ live[b] + META_SIZE <= next[b] - b
      BY <1>1, <1>2, <2>1 DEF Held
    <3>2. b # pb /\ b # gone
      BY <1>2, <3>1
    <3>3. QED
      BY <1>2, <1>4, <1>7, <3>1, <3>2
  <2>2. QED
    BY <2>1 DEF Held
<1>10. MergesAll'
  <2>1. ASSUME NEW b \in Blocks', from' <= b, b < pb'
        PROVE  ~(is_free'[b] /\ next'[b] # brk' /\ is_free'[next'[b]])
    <3>1. b \in Blocks /\ b # pb
      BY <1>2, <1>3, <1>8, <2>1
    <3>2. next'[b] = next[b]
      BY <1>4, <3>1
    <3>3. QED
      BY <1>2, <2>1, <3>1, <3>2 DEF KeptInv, MergesAll
  <2>2. QED
    BY <2>1 DEF MergesAll
<1>11. pb' \in Blocks'
  BY <1>1, <1>2, <1>3, <1>7
<1>12. QED
  BY <1>1, <1>9, <1>10, <1>11, HeldNext DEF KeptInv

\* Behind pb nothing is left to merge; between pb and the next block there is none.
LEMMA MoveNextKeeps ==
    ASSUME KeptInv, MoveNext
    PROVE  MergesAll' /\ pb' \in Blocks'
<1>1. /\ HeapInv /\ pb \in Blocks /\ pc = "merge" /\ next[pb] # brk /\ pb' = next[pb]
      /\ ~(is_free[pb] /\ is_free[next[pb]])
      /\ UNCHANGED <<first, brk, next, is_free, live, pc, from>>
  BY DEF KeptInv, MoveNext
<1>2. Blocks' = Blocks
  BY <1>1 DEF Blocks
<1>3. ASSUME NEW b \in Blocks, from <= b, b < next[pb]
      PROVE  ~(is_free[b] /\ next[b] # brk /\ is_free[next[b]])
  <2>1. b \in Nat /\ pb \in Nat /\ (pb < b => next[pb] <= b) /\ next[pb] \in Nat
    BY <1>1, BlocksGood
  <2>2. b = pb \/ b < pb
    BY <1>3, <2>1
  <2>3. QED
    BY <1>1, <1>3, <2>2 DEF KeptInv, MergesAll
<1>4. QED
  BY <1>1, <1>2, <1>3, BlocksGood DEF MergesAll

LEMMA KeptInvInit == Init => KeptInv
<1> SUFFICES ASSUME Init
             PROVE  KeptInv
  OBVIOUS
<1>1. HeapInv /\ pc = "idle" /\ \A b \in Addrs : live[b] = NONE
  BY HeapInvInit DEF Init
<1>2. QED
  BY <1>1 DEF KeptInv, AllocationsKept, MergesAll

LEMMA KeptInvStep == SizesFit /\ KeptInv /\ [Next]_vars => KeptInv'
<1> SUFFICES ASSUME SizesFit, KeptInv, [Next]_vars
             PROVE  KeptInv'
  OBVIOUS
<1> USE DEF merging
<1>1. HeapInv /\ HeapInv' /\ Held
  BY HeapInvStep, HeldMeans DEF KeptInv, HeapInv
<1>2. /\ is_free \in [Addrs -> BOOLEAN] /\ live \in [Addrs -> Sizes \cup {NONE}]
      /\ \A b \in Blocks : b \in Addrs /\ next[b] \in Nat /\ b \in Nat
  BY <1>1, BlocksGood DEF HeapInv, TypeOK
<1>3. ASSUME NEW size \in Sizes, Allocate(size)
      PROVE  KeptInv'
  BY <1>3, AllocateKeeps
<1>4. ASSUME NEW size \in Sizes, NEW b \in Blocks, Take(b, size)
      PROVE  KeptInv'
  <2>1. CASE size < DataSize(b)
    <3>1. /\ [is_free EXCEPT ![b] = FALSE] \in [Addrs -> BOOLEAN]
          /\ ~[is_free EXCEPT ![b] = FALSE][b]
          /\ \A c \in Addrs \ {b} : [is_free EXCEPT ![b] = FALSE][c] = is_free[c]
      BY <1>2, <1>4
    <3>2. QED
      BY <1>4, <2>1, <3>1, SplitKeeps DEF Take
  <2>2. CASE ~(size < DataSize(b))
    <3>1. /\ is_free' = [is_free EXCEPT ![b] = FALSE] /\ live' = [live EXCEPT ![b] = size]
          /\ pc' = "idle" /\ Blocks' = Blocks /\ next' = next
      BY <1>4, <2>2 DEF Take, Idle, Blocks
    <3>2. size + META_SIZE <= next[b] - b
      <4>1. /\ size \in Nat /\ META_SIZE \in Nat /\ next[b] \in Nat /\ b \in Nat
            /\ size <= next[b] - b - META_SIZE
        BY <1>2, <1>4, BlockListAssumption DEF Take, DataSize
      <4>2. QED
        BY <4>1
    <3>3. Held'
      BY <1>1, <1>2, <3>1, <3>2 DEF Held
    <3>4. QED
      BY <1>1, <3>1, <3>3, HeldNext DEF KeptInv, MergesAll
  <2>3. QED
    BY <2>1, <2>2
<1>5. ASSUME NEW size \in Sizes, NEW b \in Blocks, Shrink(b, size)
      PROVE  KeptInv'
  <2>1. is_free \in [Addrs -> BOOLEAN] /\ ~is_free[b]
    BY <1>1, <1>2, <1>5 DEF Held, Shrink
  <2>2. QED
    BY <1>5, <2>1, SplitKeeps DEF Shrink
<1>6. ASSUME NEW b \in Addrs, Release(b)
      PROVE  KeptInv'
  <2>1. /\ FindBlock(b + META_SIZE) = b /\ pc' = "idle" /\ Blocks' = Blocks /\ next' = next
        /\ live' = [live EXCEPT ![b] = NONE]
    BY <1>6 DEF Release, Idle, Blocks, KeptInv, AllocationsKept
  <2>2. is_free' = [is_free EXCEPT ![b] = TRUE]
    BY <1>6, <2>1 DEF Release
  <2>3. Held'
    BY <1>1, <1>2, <2>1, <2>2 DEF Held
  <2>4. QED
    BY <1>1, <2>1, <2>3, HeldNext DEF KeptInv, MergesAll
<1>7. ASSUME NEW b \in Addrs, MergeBlocks(b)
      PROVE  KeptInv'
  <2>1. /\ b \in Blocks /\ pb' = b /\ from' = b /\ Blocks' = Blocks
        /\ UNCHANGED <<first, brk, next, is_free, live>>
    BY <1>7 DEF MergeBlocks, Blocks
  <2>2. Held'
    BY <1>1, <2>1 DEF Held
  <2>3. MergesAll'
    <3>1. \A c \in Blocks : ~(b <= c /\ c < b)
      BY <1>2, <2>1
    <3>2. QED
      BY <2>1, <3>1 DEF MergesAll
  <2>4. QED
    BY <1>1, <2>1, <2>2, <2>3, HeldNext DEF KeptInv
<1>8. ASSUME NEW end \in {first, brk}, Reset(end)
      PROVE  KeptInv'
  <2>1. pc' = "idle" /\ live' = [b \in Addrs |-> NONE]
    BY <1>8 DEF Reset, Idle
  <2>2. Held'
    BY <2>1 DEF Held
  <2>3. QED
    BY <1>1, <2>1, <2>2, HeldNext DEF KeptInv, MergesAll
<1>9. CASE MergeNext
  BY <1>9, MergeNextKeeps
<1>10. CASE MoveNext
  <2>1. MergesAll' /\ pb' \in Blocks'
    BY <1>10, MoveNextKeeps DEF KeptInv
  <2>2. Blocks' = Blocks /\ UNCHANGED <<first, brk, next, is_free, live>>
    BY <1>10 DEF MoveNext, Blocks
  <2>3. Held'
    BY <1>1, <2>2 DEF Held
  <2>4. QED
    BY <1>1, <2>1, <2>3, HeldNext DEF KeptInv
<1>11. CASE MergeReturns
  <2>1. pc' = "idle" /\ Blocks' = Blocks /\ UNCHANGED <<first, brk, next, is_free, live>>
    BY <1>11 DEF MergeReturns, Blocks
  <2>2. Held'
    BY <1>1, <2>1 DEF Held
  <2>3. QED
    BY <1>1, <2>1, <2>2, HeldNext DEF KeptInv, MergesAll
<1>12. CASE UNCHANGED vars
  <2>1. Blocks' = Blocks /\ UNCHANGED <<first, brk, next, is_free, live, pc, pb, from>>
    BY <1>12 DEF vars, Blocks
  <2>2. Held'
    BY <1>1, <2>1 DEF Held
  <2>3. QED
    BY <1>1, <2>1, <2>2, HeldNext DEF KeptInv, MergesAll
<1>13. QED
  BY <1>3, <1>4, <1>5, <1>6, <1>7, <1>8, <1>9, <1>10, <1>11, <1>12 DEF Next, Merge

LEMMA KeptInvariant == SizesFit /\ Spec => []KeptInv
<1>1. SizesFit => [](SizesFit)
  OBVIOUS
<1>2. QED
  BY <1>1, KeptInvInit, KeptInvStep, PTL DEF Spec

\* Whatever is allocated, split, released and merged meanwhile, what a caller holds
\* is found by its pointer, in use, and as large as it was asked to be, as long as no
\* size makes new_block's sums wrap.
THEOREM AllocationsAlwaysKept == SizesFit /\ Spec => []AllocationsKept
<1>1. KeptInv => AllocationsKept
  BY DEF KeptInv
<1>2. QED
  BY <1>1, KeptInvariant, PTL

\* merge_blocks leaves no two free neighbours behind it, however long the runs.
THEOREM AlwaysMergesAll == SizesFit /\ Spec => []MergesAll
<1>1. KeptInv => MergesAll
  BY DEF KeptInv
<1>2. QED
  BY <1>1, KeptInvariant, PTL

=============================================================================
