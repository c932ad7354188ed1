--------------------------- MODULE BlockMapProofs ---------------------------
(***************************************************************************)
(* Lemmas about block maps: what following links reaches, and what          *)
(* allocating a block does to the free list and to every other list.        *)
(*                                                                          *)
(* Chain is defined by closed sets, so each lemma about it exhibits one:    *)
(* a closed set that holds b holds all of Chain(m, b).                      *)
(***************************************************************************)
EXTENDS BlockMap, FiniteSetTheorems, SequenceTheorems, WellFoundedInduction, TLAPS

\* Every set of natural numbers that is not empty has a least element.
LEMMA LeastNumber ==
    ASSUME NEW T \in SUBSET Nat, NEW k \in T
    PROVE  \E l \in T : \A j \in T : l <= j
<1>1. PICK l \in T : \A j \in T : <<j, l>> \notin OpToRel(<, Nat)
  BY NatLessThanWellFounded, WFMin
<1>2. ASSUME NEW j \in T
      PROVE  ~(j < l)
  BY <1>1 DEF OpToRel
<1>3. QED
  BY <1>2

-----------------------------------------------------------------------------
(* Chains.                                                                  *)

\* A list holds the block it starts from.
LEMMA ChainContains ==
    ASSUME NEW m, NEW b \in MapIds
    PROVE  b \in Chain(m, b)
BY DEF Chain

\* The blocks of a list are indices of the map.
LEMMA ChainInMap ==
    ASSUME NEW m, NEW b
    PROVE  Chain(m, b) \subseteq MapIds
BY DEF Chain

\* The block that follows a block of a list is in the list.
LEMMA ChainClosed ==
    ASSUME NEW m, NEW b
    PROVE  Closed(m, Chain(m, b))
BY DEF Chain, Closed

\* A list is inside every closed set that holds its start.
LEMMA ChainMinimal ==
    ASSUME NEW m, NEW b, NEW S \in SUBSET MapIds, b \in S, Closed(m, S)
    PROVE  Chain(m, b) \subseteq S
BY DEF Chain

\* The list from a block of a list is inside that list.
LEMMA ChainTransitive ==
    ASSUME NEW m, NEW b, NEW x \in Chain(m, b)
    PROVE  Chain(m, x) \subseteq Chain(m, b)
BY ChainInMap, ChainClosed, ChainMinimal

\* Two maps with the same links along a list have that list in common.
LEMMA ChainAgree ==
    ASSUME NEW m1, NEW m2, NEW b \in MapIds,
           \A x \in Chain(m1, b) : m1[x] = m2[x]
    PROVE  Chain(m2, b) = Chain(m1, b)
<1> DEFINE C1 == Chain(m1, b)
           C2 == Chain(m2, b)
<1>1. C1 \subseteq MapIds /\ C2 \subseteq MapIds
  BY ChainInMap
<1>2. b \in C1 /\ b \in C2
  BY ChainContains
<1>3. Closed(m1, C1) /\ Closed(m2, C2)
  BY ChainClosed
<1>4. Closed(m2, C1)
  BY <1>3 DEF Closed
<1>5. C2 \subseteq C1
  BY <1>1, <1>2, <1>4, ChainMinimal
<1>6. Closed(m1, C1 \cap C2)
  BY <1>3 DEF Closed
<1>7. C1 \subseteq C1 \cap C2
  BY <1>1, <1>2, <1>6, ChainMinimal
<1>8. QED
  BY <1>5, <1>7

\* ... and, if it ends in one, it ends in the other.
LEMMA ChainEndsAgree ==
    ASSUME NEW m1, NEW m2, NEW b \in MapIds,
           \A x \in Chain(m1, b) : m1[x] = m2[x],
           ChainEnds(m1, b)
    PROVE  ChainEnds(m2, b)
<1> SUFFICES ASSUME NEW x \in Chain(m2, b)
             PROVE  \E y \in Chain(m2, x) : m2[y] = EOF_BLOCK
  BY DEF ChainEnds
<1>1. x \in Chain(m1, b)
  BY ChainAgree
<1>2. x \in MapIds
  BY <1>1, ChainInMap
<1>3. Chain(m1, x) \subseteq Chain(m1, b)
  BY <1>1, ChainTransitive
<1>4. Chain(m2, x) = Chain(m1, x)
  BY <1>2, <1>3, ChainAgree
<1>5. PICK y \in Chain(m1, x) : m1[y] = EOF_BLOCK
  BY <1>1 DEF ChainEnds
<1>6. QED
  BY <1>3, <1>4, <1>5

-----------------------------------------------------------------------------
(* The free list.                                                           *)

\* The head of the free list, when there is one, is a data block that is
\* followed by a block, not by an end-of-file mark.
LEMMA FreeHeadFacts ==
    ASSUME NEW m \in BlockMaps, Sound(m)
    PROVE  /\ FreeHead(m) \in MapIds
           /\ FreeHead(m) \in Chain(m, BLKMAP_BID)
           /\ m[FreeHead(m)] \in MapIds
           /\ HasFree(m) => FreeHead(m) \in DataBlocks
<1>1. BLKMAP_BID \in MapIds
  BY DEF MapIds
<1>2. BLKMAP_BID \in Chain(m, BLKMAP_BID)
  BY <1>1, ChainContains
<1>3. m[BLKMAP_BID] # EOF_BLOCK
  BY <1>2 DEF Sound, FreeListReturns
<1>4. FreeHead(m) \in MapIds
  BY <1>1, <1>3 DEF FreeHead, BlockMaps
<1>5. FreeHead(m) \in Chain(m, BLKMAP_BID)
  BY <1>2, <1>4, ChainClosed DEF Closed, FreeHead
<1>6. m[FreeHead(m)] # EOF_BLOCK
  BY <1>5 DEF Sound, FreeListReturns
<1>7. m[FreeHead(m)] \in MapIds
  BY <1>4, <1>6 DEF BlockMaps
<1>8. QED
  BY <1>4, <1>5, <1>7 DEF HasFree, MapIds

\* Only entry 0 points to the head of the free list.
LEMMA OnlyZeroPrecedesHead ==
    ASSUME NEW m \in BlockMaps, Sound(m), NEW x \in MapIds, m[x] = FreeHead(m)
    PROVE  x = BLKMAP_BID
<1>1. FreeHead(m) # EOF_BLOCK
  <2>1. BLKMAP_BID \in Chain(m, BLKMAP_BID)
    BY ChainContains DEF MapIds
  <2>2. QED
    BY <2>1 DEF Sound, FreeListReturns, FreeHead
<1>2. QED
  BY <1>1 DEF Sound, LinksInjective, FreeHead, MapIds

\* AllocateBlock changes the links of block 0 and of the allocated block only.
LEMMA AllocateLinks ==
    ASSUME NEW m \in BlockMaps, Sound(m), HasFree(m)
    PROVE  /\ AllocateBlock(m) \in BlockMaps
           /\ AllocateBlock(m)[BLKMAP_BID] = m[FreeHead(m)]
           /\ AllocateBlock(m)[FreeHead(m)] = EOF_BLOCK
           /\ \A x \in MapIds \ {BLKMAP_BID, FreeHead(m)} : AllocateBlock(m)[x] = m[x]
<1>1. /\ FreeHead(m) \in MapIds
      /\ m[FreeHead(m)] \in MapIds
      /\ FreeHead(m) # BLKMAP_BID
  BY FreeHeadFacts DEF HasFree
<1>2. BLKMAP_BID \in MapIds
  BY DEF MapIds
<1>3. QED
  BY <1>1, <1>2 DEF AllocateBlock, BlockMaps

\* After an allocation the free list is inside what was left of it.
LEMMA AllocateFreeList ==
    ASSUME NEW m \in BlockMaps, Sound(m), HasFree(m)
    PROVE  Chain(AllocateBlock(m), BLKMAP_BID) \subseteq Chain(m, BLKMAP_BID) \ {FreeHead(m)}
<1> DEFINE h  == FreeHead(m)
           m2 == AllocateBlock(m)
           R  == Chain(m, BLKMAP_BID) \ {h}
<1>1. h \in DataBlocks /\ h \in Chain(m, BLKMAP_BID) /\ m[h] \in MapIds
  BY FreeHeadFacts
<1>2. h # BLKMAP_BID
  BY DEF HasFree
<1>3. BLKMAP_BID \in R
  BY <1>2, ChainContains DEF MapIds
<1>4. Closed(m2, R)
  <2> SUFFICES ASSUME NEW x \in R, m2[x] \in MapIds
               PROVE  m2[x] \in R
    BY DEF Closed
  <2>1. x \in MapIds
    BY ChainInMap
  <2>2. CASE x = BLKMAP_BID
    <3>1. m2[x] = m[h]
      BY <2>2, AllocateLinks
    <3>2. m[h] # h
      BY <1>1, <1>2, OnlyZeroPrecedesHead DEF MapIds
    <3>3. m[h] \in Chain(m, BLKMAP_BID)
      BY <1>1, ChainClosed DEF Closed
    <3>4. QED
      BY <3>1, <3>2, <3>3
  <2>3. CASE x # BLKMAP_BID
    <3>1. m2[x] = m[x]
      BY <2>1, <2>3, AllocateLinks
    <3>2. m[x] # h
      BY <2>1, <2>3, OnlyZeroPrecedesHead
    <3>3. m[x] \in Chain(m, BLKMAP_BID)
      BY <3>1, ChainClosed DEF Closed
    <3>4. QED
      BY <3>1, <3>2, <3>3
  <2>4. QED
    BY <2>2, <2>3
<1>5. R \in SUBSET MapIds
  BY ChainInMap
<1>6. QED
  BY <1>3, <1>4, <1>5, ChainMinimal

\* ... and nothing but the allocated block left it.
LEMMA AllocateKeepsFree ==
    ASSUME NEW m \in BlockMaps, Sound(m), HasFree(m)
    PROVE  Chain(m, BLKMAP_BID) \subseteq Chain(AllocateBlock(m), BLKMAP_BID) \cup {FreeHead(m)}
<1> DEFINE h  == FreeHead(m)
           m2 == AllocateBlock(m)
           S  == Chain(m2, BLKMAP_BID) \cup {h}
<1>1. h \in MapIds /\ m[h] \in MapIds /\ BLKMAP_BID \in MapIds
  BY FreeHeadFacts DEF MapIds
<1>2. S \in SUBSET MapIds /\ BLKMAP_BID \in S
  BY <1>1, ChainInMap, ChainContains
<1>3. m[h] \in S
  <2>1. m2[BLKMAP_BID] = m[h]
    BY AllocateLinks
  <2>2. BLKMAP_BID \in Chain(m2, BLKMAP_BID)
    BY <1>1, ChainContains
  <2>3. QED
    BY <1>1, <2>1, <2>2, ChainClosed DEF Closed
<1>4. m[BLKMAP_BID] \in S
  BY DEF FreeHead
<1>5. ASSUME NEW x \in S, x # h, x # BLKMAP_BID, m[x] \in MapIds
      PROVE  m[x] \in S
  <2>1. m2[x] = m[x]
    BY <1>2, <1>5, AllocateLinks
  <2>2. QED
    BY <1>5, <2>1, ChainClosed DEF Closed
<1>6. Closed(m, S)
  BY <1>3, <1>4, <1>5 DEF Closed
<1>7. QED
  BY <1>2, <1>6, ChainMinimal

\* A block still on the free list leads back to block 0 without the allocated
\* one.
LEMMA AllocateReturns ==
    ASSUME NEW m \in BlockMaps, Sound(m), HasFree(m),
           NEW x \in Chain(AllocateBlock(m), BLKMAP_BID)
    PROVE  BLKMAP_BID \in Chain(AllocateBlock(m), x)
<1> DEFINE h  == FreeHead(m)
           m2 == AllocateBlock(m)
           T  == (Chain(m2, x) \cap Chain(m, BLKMAP_BID)) \ {h}
<1>1. x \in Chain(m, BLKMAP_BID) \ {h}
  BY AllocateFreeList
<1>2. x \in MapIds
  BY ChainInMap
<1>3. x \in T
  BY <1>1, <1>2, ChainContains
<1> SUFFICES ASSUME BLKMAP_BID \notin Chain(m2, x)
             PROVE  FALSE
  OBVIOUS
<1>4. Closed(m, T)
  <2> SUFFICES ASSUME NEW y \in T, m[y] \in MapIds
               PROVE  m[y] \in T
    BY DEF Closed
  <2>1. y \in MapIds /\ y # BLKMAP_BID /\ y # h
    BY ChainInMap
  <2>2. m2[y] = m[y]
    BY <2>1, AllocateLinks
  <2>3. m[y] \in Chain(m2, x)
    BY <2>2, ChainClosed DEF Closed
  <2>4. m[y] \in Chain(m, BLKMAP_BID)
    BY ChainClosed DEF Closed
  <2>5. m[y] # h
    BY <2>1, OnlyZeroPrecedesHead
  <2>6. QED
    BY <2>3, <2>4, <2>5
<1>5. Chain(m, x) \subseteq T
  BY <1>3, <1>4, ChainInMap, ChainMinimal
<1>6. BLKMAP_BID \in Chain(m, x)
  BY <1>1 DEF Sound, FreeListReturns
<1>7. QED
  BY <1>5, <1>6

\* Allocating a block leaves a well-formed map.
LEMMA AllocateSound ==
    ASSUME NEW m \in BlockMaps, Sound(m), HasFree(m)
    PROVE  Sound(AllocateBlock(m))
<1> DEFINE h  == FreeHead(m)
           m2 == AllocateBlock(m)
<1>1. ASSUME NEW x \in MapIds, NEW y \in MapIds, m2[x] = m2[y], m2[x] # EOF_BLOCK
      PROVE  x = y
  <2>1. x # h /\ y # h
    BY <1>1, AllocateLinks
  <2>2. \E x1, y1 \in MapIds :
           /\ m2[x] = m[x1] /\ m2[y] = m[y1]
           /\ x1 = IF x = BLKMAP_BID THEN h ELSE x
           /\ y1 = IF y = BLKMAP_BID THEN h ELSE y
    BY <2>1, AllocateLinks, FreeHeadFacts
  <2>3. QED
    BY <1>1, <2>1, <2>2 DEF Sound, LinksInjective
<1>2. ASSUME NEW x \in Chain(m2, BLKMAP_BID)
      PROVE  m2[x] # EOF_BLOCK
  <2>1. x \in Chain(m, BLKMAP_BID) /\ x # h /\ x \in MapIds
    BY AllocateFreeList, ChainInMap
  <2>2. CASE x = BLKMAP_BID
    BY <2>2, AllocateLinks, FreeHeadFacts, BlockMapAssumption DEF MapIds, DataBlocks, BLKMAP_BID
  <2>3. CASE x # BLKMAP_BID
    BY <2>1, <2>3, AllocateLinks DEF Sound, FreeListReturns
  <2>4. QED
    BY <2>2, <2>3
<1>3. QED
  BY <1>1, <1>2, AllocateReturns DEF Sound, LinksInjective, FreeListReturns

-----------------------------------------------------------------------------
(* Linking the allocated block to the end of a list, as do_write does.      *)

\* m with a block allocated and linked after c.
Extended(m, c) == [AllocateBlock(m) EXCEPT ![c] = FreeHead(m)]

\* A block that ends a list is neither block 0 nor on the free list.
LEMMA EndIsNotFree ==
    ASSUME NEW m \in BlockMaps, Sound(m), NEW c \in MapIds, m[c] = EOF_BLOCK
    PROVE  c \notin Chain(m, BLKMAP_BID) /\ c # BLKMAP_BID /\ c # FreeHead(m)
<1>1. c \notin Chain(m, BLKMAP_BID)
  BY DEF Sound, FreeListReturns
<1>2. BLKMAP_BID \in Chain(m, BLKMAP_BID)
  BY ChainContains DEF MapIds
<1>3. QED
  BY <1>1, <1>2, FreeHeadFacts

\* The links of the extended map.
LEMMA ExtendedLinks ==
    ASSUME NEW m \in BlockMaps, Sound(m), HasFree(m), NEW c \in MapIds, m[c] = EOF_BLOCK
    PROVE  /\ Extended(m, c) \in BlockMaps
           /\ Extended(m, c)[c] = FreeHead(m)
           /\ Extended(m, c)[FreeHead(m)] = EOF_BLOCK
           /\ Extended(m, c)[BLKMAP_BID] = m[FreeHead(m)]
           /\ \A x \in MapIds \ {c} : Extended(m, c)[x] = AllocateBlock(m)[x]
           /\ \A x \in MapIds \ {c, BLKMAP_BID, FreeHead(m)} : Extended(m, c)[x] = m[x]
<1>1. c # BLKMAP_BID /\ c # FreeHead(m)
  BY EndIsNotFree
<1>2. FreeHead(m) \in MapIds /\ BLKMAP_BID \in MapIds
  BY FreeHeadFacts DEF MapIds
<1>3. AllocateBlock(m) \in BlockMaps
  BY AllocateLinks
<1>4. /\ Extended(m, c) \in BlockMaps
      /\ Extended(m, c)[c] = FreeHead(m)
      /\ \A x \in MapIds \ {c} : Extended(m, c)[x] = AllocateBlock(m)[x]
  BY <1>2, <1>3 DEF Extended, BlockMaps
<1>5. QED
  BY <1>1, <1>2, <1>4, AllocateLinks

\* The free list after extending a list is the one after the allocation.
LEMMA ExtendedFreeList ==
    ASSUME NEW m \in BlockMaps, Sound(m), HasFree(m), NEW c \in MapIds, m[c] = EOF_BLOCK
    PROVE  /\ \A x \in Chain(AllocateBlock(m), BLKMAP_BID) : AllocateBlock(m)[x] = Extended(m, c)[x]
           /\ Chain(Extended(m, c), BLKMAP_BID) = Chain(AllocateBlock(m), BLKMAP_BID)
<1>1. c \notin Chain(AllocateBlock(m), BLKMAP_BID)
  BY EndIsNotFree, AllocateFreeList
<1>2. \A x \in Chain(AllocateBlock(m), BLKMAP_BID) : AllocateBlock(m)[x] = Extended(m, c)[x]
  BY <1>1, ChainInMap, ExtendedLinks
<1>3. QED
  BY <1>2, ChainAgree DEF MapIds

\* Extending a list leaves a well-formed map.
LEMMA ExtendedSound ==
    ASSUME NEW m \in BlockMaps, Sound(m), HasFree(m), NEW c \in MapIds, m[c] = EOF_BLOCK
    PROVE  Sound(Extended(m, c))
<1> DEFINE h  == FreeHead(m)
           m2 == AllocateBlock(m)
           m3 == Extended(m, c)
<1>1. c \notin Chain(m, BLKMAP_BID) /\ c # BLKMAP_BID /\ c # h
  BY EndIsNotFree
<1>2. Sound(m2)
  BY AllocateSound
<1>3. ASSUME NEW x \in MapIds, x # c, m3[x] = h
      PROVE  FALSE
  <2>1. CASE x = BLKMAP_BID
    <3>1. m[h] = h
      BY <1>3, <2>1, ExtendedLinks
    <3>2. h = BLKMAP_BID
      BY <3>1, FreeHeadFacts, OnlyZeroPrecedesHead
    <3>3. QED
      BY <3>2 DEF HasFree
  <2>2. CASE x = h
    BY <1>3, <2>2, ExtendedLinks, FreeHeadFacts, BlockMapAssumption
       DEF MapIds, DataBlocks, BLKMAP_BID
  <2>3. CASE x # BLKMAP_BID /\ x # h
    BY <1>3, <2>3, ExtendedLinks, OnlyZeroPrecedesHead
  <2>4. QED
    BY <2>1, <2>2, <2>3
<1>4. LinksInjective(m3)
  <2> SUFFICES ASSUME NEW x \in MapIds, NEW y \in MapIds, m3[x] = m3[y], m3[x] # EOF_BLOCK
               PROVE  x = y
    BY DEF LinksInjective
  <2>1. CASE x = c \/ y = c
    BY <1>3, <2>1, ExtendedLinks
  <2>2. CASE x # c /\ y # c
    BY <1>2, <2>2, ExtendedLinks DEF Sound, LinksInjective
  <2>3. QED
    BY <2>1, <2>2
<1>6. \A x \in Chain(m2, BLKMAP_BID) : m2[x] = m3[x]
  BY ExtendedFreeList
<1>7. Chain(m3, BLKMAP_BID) = Chain(m2, BLKMAP_BID)
  BY ExtendedFreeList
<1>8. ASSUME NEW x \in Chain(m3, BLKMAP_BID)
      PROVE  m3[x] # EOF_BLOCK /\ BLKMAP_BID \in Chain(m3, x)
  <2>1. x \in Chain(m2, BLKMAP_BID) /\ x \in MapIds
    BY <1>7, ChainInMap
  <2>2. Chain(m2, x) \subseteq Chain(m2, BLKMAP_BID)
    BY <2>1, ChainTransitive
  <2>3. Chain(m3, x) = Chain(m2, x)
    BY <1>6, <2>1, <2>2, ChainAgree
  <2>4. QED
    BY <1>2, <1>6, <2>1, <2>3 DEF Sound, FreeListReturns
<1>9. QED
  BY <1>4, <1>8 DEF Sound, FreeListReturns

-----------------------------------------------------------------------------
(* Lists that are apart from the free list.                                 *)

\* A list that does not reach block 0 shares nothing with the free list.
LEMMA ApartFromFree ==
    ASSUME NEW m \in BlockMaps, Sound(m), NEW b, BLKMAP_BID \notin Chain(m, b)
    PROVE  Chain(m, b) \cap Chain(m, BLKMAP_BID) = {}
<1> SUFFICES ASSUME NEW x \in Chain(m, b), x \in Chain(m, BLKMAP_BID)
             PROVE  FALSE
  OBVIOUS
<1>1. BLKMAP_BID \in Chain(m, x)
  BY DEF Sound, FreeListReturns
<1>2. Chain(m, x) \subseteq Chain(m, b)
  BY ChainTransitive
<1>3. QED
  BY <1>1, <1>2

\* An allocation does not touch such a list.
LEMMA AllocateElsewhere ==
    ASSUME NEW m \in BlockMaps, Sound(m), HasFree(m), NEW b \in MapIds,
           BLKMAP_BID \notin Chain(m, b)
    PROVE  /\ FreeHead(m) \notin Chain(m, b)
           /\ Chain(AllocateBlock(m), b) = Chain(m, b)
           /\ ChainEnds(m, b) => ChainEnds(AllocateBlock(m), b)
<1>1. FreeHead(m) \notin Chain(m, b)
  BY ApartFromFree, FreeHeadFacts
<1>2. \A x \in Chain(m, b) : m[x] = AllocateBlock(m)[x]
  BY <1>1, ChainInMap, AllocateLinks
<1>3. QED
  BY <1>1, <1>2, ChainAgree, ChainEndsAgree

\* Nor does extending another list.
LEMMA ExtendElsewhere ==
    ASSUME NEW m \in BlockMaps, Sound(m), HasFree(m), NEW c \in MapIds, m[c] = EOF_BLOCK,
           NEW b \in MapIds, BLKMAP_BID \notin Chain(m, b), c \notin Chain(m, b)
    PROVE  /\ FreeHead(m) \notin Chain(m, b)
           /\ Chain(Extended(m, c), b) = Chain(m, b)
           /\ ChainEnds(m, b) => ChainEnds(Extended(m, c), b)
<1>1. FreeHead(m) \notin Chain(m, b)
  BY ApartFromFree, FreeHeadFacts
<1>2. \A x \in Chain(m, b) : m[x] = Extended(m, c)[x]
  BY <1>1, ChainInMap, ExtendedLinks
<1>3. QED
  BY <1>1, <1>2, ChainAgree, ChainEndsAgree

\* The allocated block is a list of its own.
LEMMA AllocatedAlone ==
    ASSUME NEW m \in BlockMaps, Sound(m), HasFree(m)
    PROVE  /\ Chain(AllocateBlock(m), FreeHead(m)) = {FreeHead(m)}
           /\ ChainEnds(AllocateBlock(m), FreeHead(m))
<1> DEFINE h  == FreeHead(m)
           m2 == AllocateBlock(m)
<1>1. h \in MapIds /\ m2[h] = EOF_BLOCK /\ EOF_BLOCK \notin MapIds
  BY FreeHeadFacts, AllocateLinks, BlockMapAssumption DEF MapIds, DataBlocks, BLKMAP_BID
<1>2. Closed(m2, {h})
  BY <1>1 DEF Closed
<1>3. Chain(m2, h) = {h}
  BY <1>1, <1>2, ChainMinimal, ChainContains
<1>4. QED
  BY <1>1, <1>3 DEF ChainEnds

\* A list that does not reach block 0 keeps every block it had.
LEMMA ExtendedKeeps ==
    ASSUME NEW m \in BlockMaps, Sound(m), HasFree(m), NEW c \in MapIds, m[c] = EOF_BLOCK,
           NEW b \in MapIds, BLKMAP_BID \notin Chain(m, b)
    PROVE  Chain(m, b) \subseteq Chain(Extended(m, c), b)
<1> DEFINE m3 == Extended(m, c)
           T  == Chain(m3, b) \cap Chain(m, b)
<1>1. FreeHead(m) \notin Chain(m, b)
  BY ApartFromFree, FreeHeadFacts
<1>2. T \in SUBSET MapIds /\ b \in T
  BY ChainInMap, ChainContains
<1>3. EOF_BLOCK \notin MapIds
  BY BlockMapAssumption DEF MapIds, DataBlocks, BLKMAP_BID
<1>4. \A x \in T : m[x] \in MapIds => m3[x] = m[x]
  BY <1>1, <1>2, <1>3, ExtendedLinks
<1>5. Closed(m, T)
  BY <1>4, ChainClosed DEF Closed
<1>6. QED
  BY <1>2, <1>5, ChainMinimal

\* A list that held c and does not reach block 0 now ends with the new block.
LEMMA ExtendedList ==
    ASSUME NEW m \in BlockMaps, Sound(m), HasFree(m), NEW c \in MapIds, m[c] = EOF_BLOCK,
           NEW b \in MapIds, BLKMAP_BID \notin Chain(m, b), c \in Chain(m, b), ChainEnds(m, b)
    PROVE  /\ Chain(Extended(m, c), b) \subseteq Chain(m, b) \cup {FreeHead(m)}
           /\ FreeHead(m) \in Chain(Extended(m, c), b)
           /\ ChainEnds(Extended(m, c), b)
<1> DEFINE h  == FreeHead(m)
           m3 == Extended(m, c)
           C  == Chain(m, b)
<1>1. /\ h \in MapIds /\ h \notin C /\ EOF_BLOCK \notin MapIds /\ C \subseteq MapIds
      /\ b \in C /\ Closed(m, C)
  BY FreeHeadFacts, ApartFromFree, ChainInMap, ChainContains, ChainClosed, BlockMapAssumption
     DEF MapIds, DataBlocks, BLKMAP_BID
<1>2. /\ m3[c] = h /\ m3[h] = EOF_BLOCK
      /\ \A x \in C \ {c} : m3[x] = m[x]
  BY <1>1, ExtendedLinks
<1>3. Closed(m3, C \cup {h})
  BY <1>1, <1>2 DEF Closed
<1>4. Chain(m3, b) \subseteq C \cup {h}
  BY <1>1, <1>3, ChainMinimal
<1>5. ASSUME NEW x \in C, h \notin Chain(m3, x)
      PROVE  Chain(m, x) \subseteq Chain(m3, x) /\ c \notin Chain(m3, x)
  <2> DEFINE T == Chain(m3, x) \cap C
  <2>1. c \notin Chain(m3, x)
    BY <1>1, <1>2, <1>5, ChainClosed DEF Closed
  <2>2. Closed(m, T)
    BY <1>1, <1>2, <2>1, ChainClosed DEF Closed
  <2>3. x \in T
    BY <1>1, ChainContains
  <2>4. Chain(m, x) \subseteq T
    BY <1>1, <2>2, <2>3, ChainMinimal
  <2>5. QED
    BY <2>1, <2>4
<1>6. h \in Chain(m3, b)
  BY <1>1, <1>5
<1>7. ASSUME NEW x \in Chain(m3, b)
      PROVE  \E y \in Chain(m3, x) : m3[y] = EOF_BLOCK
  <2>1. CASE h \in Chain(m3, x)
    BY <1>2, <2>1
  <2>2. CASE h \notin Chain(m3, x)
    <3>1. x \in C
      BY <1>1, <1>4, <2>2, ChainContains
    <3>2. PICK y \in Chain(m, x) : m[y] = EOF_BLOCK
      BY <3>1 DEF ChainEnds
    <3>3. y \in C /\ y \in Chain(m3, x) /\ y # c
      BY <1>5, <2>2, <3>1, ChainTransitive
    <3>4. QED
      BY <1>2, <3>2, <3>3
  <2>3. QED
    BY <2>1, <2>2
<1>8. QED
  BY <1>4, <1>6, <1>7 DEF ChainEnds

-----------------------------------------------------------------------------
(* The formatted map.                                                       *)

\* What format_myfs writes is a well-formed map.
LEMMA FormatMapType == FormatMap \in BlockMaps
<1>1. ASSUME NEW b \in MapIds
      PROVE  FormatMap[b] \in MapIds
  BY BlockMapAssumption DEF FormatMap, MapIds, DataBlocks, BLKMAP_BID
<1>2. QED
  BY <1>1 DEF FormatMap, BlockMaps

\* In it every data block but the last is followed by the next one.
LEMMA FormatMapNext ==
    ASSUME NEW b \in DataBlocks, b # FS_NBLOCKS - 1
    PROVE  FormatMap[b] = b + 1 /\ b + 1 \in MapIds
BY BlockMapAssumption DEF FormatMap, MapIds, DataBlocks, BLKMAP_BID

\* Every block of the formatted map leads to block 0.
LEMMA FormatMapReturns ==
    ASSUME NEW x \in MapIds
    PROVE  BLKMAP_BID \in Chain(FormatMap, x)
<1> DEFINE C == Chain(FormatMap, x)
           T == {k \in Nat : k <= FS_NBLOCKS - 3 /\ FS_NBLOCKS - 1 - k \in C}
<1>1. x \in C /\ C \subseteq MapIds
  BY ChainContains, ChainInMap
<1>2. ASSUME NEW y \in C
      PROVE  FormatMap[y] \in MapIds => FormatMap[y] \in C
  BY <1>2, ChainClosed DEF Closed
<1>3. CASE x = BLKMAP_BID
  BY <1>1, <1>3
<1>4. CASE x # BLKMAP_BID
  <2>1. x \in DataBlocks
    BY <1>4 DEF MapIds
  <2>2. FS_NBLOCKS - 1 - x \in T
    <3>1. FS_NBLOCKS - 1 - x \in Nat /\ FS_NBLOCKS - 1 - x <= FS_NBLOCKS - 3
      BY <2>1, BlockMapAssumption DEF DataBlocks
    <3>2. FS_NBLOCKS - 1 - (FS_NBLOCKS - 1 - x) = x
      BY <2>1, BlockMapAssumption DEF DataBlocks
    <3>3. QED
      BY <1>1, <3>1, <3>2
  <2>3. PICK l \in T : \A j \in T : l <= j
    <3>1. T \in SUBSET Nat
      OBVIOUS
    <3> HIDE DEF T
    <3>2. QED
      BY <2>2, <3>1, LeastNumber
  <2> DEFINE y == FS_NBLOCKS - 1 - l
  <2>4. y \in C /\ y \in DataBlocks
    BY <2>3, BlockMapAssumption DEF DataBlocks
  <2>5. CASE l = 0
    <3>1. FormatMap[y] = BLKMAP_BID
      BY <2>4, <2>5, BlockMapAssumption DEF FormatMap, MapIds, DataBlocks, BLKMAP_BID
    <3>2. QED
      BY <1>2, <2>4, <3>1 DEF MapIds
  <2>6. CASE l # 0
    <3>1. FormatMap[y] = y + 1 /\ y + 1 \in MapIds
      <4>1. y # FS_NBLOCKS - 1
        BY <2>3, <2>6, BlockMapAssumption
      <4>2. QED
        BY <2>4, <4>1, FormatMapNext
    <3>2. y + 1 \in C
      BY <1>2, <2>4, <3>1
    <3>3. l - 1 \in T
      <4>1. l - 1 \in Nat /\ l - 1 <= FS_NBLOCKS - 3
        BY <2>3, <2>6, BlockMapAssumption
      <4>2. FS_NBLOCKS - 1 - (l - 1) = y + 1
        BY <2>3, BlockMapAssumption
      <4>3. QED
        BY <3>2, <4>1, <4>2
    <3>4. l <= l - 1
      BY <2>3, <3>3
    <3>5. QED
      BY <2>3, <3>4
  <2>7. QED
    BY <2>5, <2>6
<1>5. QED
  BY <1>3, <1>4

LEMMA FormatMapSound == Sound(FormatMap)
<1>1. LinksInjective(FormatMap)
  BY BlockMapAssumption DEF LinksInjective, FormatMap, MapIds, DataBlocks, BLKMAP_BID
<1>2. \A x \in MapIds : FormatMap[x] # EOF_BLOCK
  BY BlockMapAssumption DEF FormatMap, MapIds, DataBlocks, BLKMAP_BID
<1>3. QED
  BY <1>1, <1>2, ChainInMap, FormatMapReturns DEF Sound, FreeListReturns

-----------------------------------------------------------------------------
(* Walking along a list.                                                    *)

\* The recursive function Walk(m, b) exists: each of its beginnings does.
LEMMA WalkLinks ==
    ASSUME NEW m, NEW b
    PROVE  /\ Walk(m, b)[0] = b
           /\ \A k \in 1 .. FS_NBLOCKS :
                 Walk(m, b)[k] = IF Walk(m, b)[k - 1] \in MapIds THEN m[Walk(m, b)[k - 1]]
                                 ELSE EOF_BLOCK
<1> DEFINE After(x)     == IF x \in MapIds THEN m[x] ELSE EOF_BLOCK
           IsWalk(f, n) == f = [k \in 0 .. n |-> IF k = 0 THEN b ELSE After(f[k - 1])]
           T            == {n \in Nat : ~\E f : IsWalk(f, n)}
<1>1. \E f : IsWalk(f, FS_NBLOCKS)
  <2> SUFFICES ASSUME FS_NBLOCKS \in T
               PROVE  FALSE
    BY BlockMapAssumption
  <2> HIDE DEF After
  <2>1. PICK l \in T : \A j \in T : l <= j
    <3>1. T \in SUBSET Nat
      OBVIOUS
    <3> HIDE DEF T
    <3>2. QED
      BY <3>1, LeastNumber
  <2>2. CASE l = 0
    <3>1. IsWalk([k \in 0 .. 0 |-> b], 0)
      OBVIOUS
    <3>2. QED
      BY <2>2, <3>1
  <2>3. CASE l # 0
    <3>1. l \in Nat /\ l - 1 \in Nat
      BY <2>1, <2>3
    <3>2. l - 1 \notin T
      <4> HIDE DEF T
      <4>1. QED
        BY <2>1, <3>1
    <3>3. PICK f : IsWalk(f, l - 1)
      BY <3>1, <3>2
    <3> DEFINE g == [k \in 0 .. l |-> IF k < l THEN f[k] ELSE After(f[l - 1])]
    <3>4. ASSUME NEW k \in 0 .. l
          PROVE  g[k] = IF k = 0 THEN b ELSE After(g[k - 1])
      BY <2>3, <3>1, <3>3
    <3>5. IsWalk(g, l)
      BY <3>4
    <3>6. QED
      BY <3>5
  <2>4. QED
    BY <2>2, <2>3
<1>2. Walk(m, b) = CHOOSE f : IsWalk(f, FS_NBLOCKS)
  BY DEF Walk
<1>3. IsWalk(Walk(m, b), FS_NBLOCKS)
  BY <1>1, <1>2
<1> HIDE DEF After
<1>4. \A k \in 0 .. FS_NBLOCKS : Walk(m, b)[k] = IF k = 0 THEN b ELSE After(Walk(m, b)[k - 1])
  BY <1>3
<1>5. QED
  BY <1>4, BlockMapAssumption DEF After

\* A list that stays off block 0 and comes to an end, like a file's.
Ends(m, b) == /\ b \in DataBlocks
              /\ BLKMAP_BID \notin Chain(m, b)
              /\ ChainEnds(m, b)

\* Each block of a list that ends is a data block, and is followed by one or by
\* an end mark.
LEMMA EndsLinks ==
    ASSUME NEW m \in BlockMaps, NEW b, Ends(m, b)
    PROVE  /\ b \in Chain(m, b) /\ Chain(m, b) \subseteq DataBlocks
           /\ \A x \in Chain(m, b) : m[x] \in Chain(m, b) \/ m[x] = EOF_BLOCK
           /\ EOF_BLOCK \notin MapIds
<1>1. b \in MapIds /\ EOF_BLOCK \notin MapIds
  BY BlockMapAssumption DEF Ends, MapIds, DataBlocks, BLKMAP_BID
<1>2. b \in Chain(m, b) /\ Chain(m, b) \subseteq DataBlocks
  BY <1>1, ChainContains, ChainInMap DEF Ends, MapIds
<1>3. ASSUME NEW x \in Chain(m, b) PROVE m[x] \in Chain(m, b) \/ m[x] = EOF_BLOCK
  <2>1. m[x] \in MapIds \cup {EOF_BLOCK}
    BY ChainInMap DEF BlockMaps
  <2>2. QED
    BY <2>1, ChainClosed DEF Closed
<1>4. QED
  BY <1>1, <1>2, <1>3

\* No set of blocks that each have a successor in it holds a list that ends.
LEMMA EndsNotRound ==
    ASSUME NEW m, NEW b, Ends(m, b), NEW L \in SUBSET DataBlocks, b \in L
    PROVE  \E x \in L : m[x] \notin L
<1> SUFFICES ASSUME \A x \in L : m[x] \in L
             PROVE  FALSE
  OBVIOUS
<1>1. L \in SUBSET MapIds /\ EOF_BLOCK \notin L
  BY BlockMapAssumption DEF MapIds, DataBlocks
<1>2. b \in Chain(m, b) /\ Chain(m, b) \subseteq L
  BY <1>1, ChainMinimal, ChainContains DEF Closed
<1>3. PICK y \in Chain(m, b) : m[y] = EOF_BLOCK
  BY <1>2 DEF Ends, ChainEnds
<1>4. QED
  BY <1>1, <1>2, <1>3

\* A walk that has met nothing but data blocks has met one twice: it goes round.
LEMMA WalkRound ==
    ASSUME NEW m, NEW b, \A k \in 0 .. FS_NBLOCKS : Walk(m, b)[k] \in DataBlocks
    PROVE  \E L \in SUBSET DataBlocks : b \in L /\ \A x \in L : m[x] \in L
<1> DEFINE w == Walk(m, b)
           f == [k \in 0 .. FS_NBLOCKS |-> w[k]]
<1>1. /\ IsFiniteSet(0 .. FS_NBLOCKS) /\ Cardinality(0 .. FS_NBLOCKS) = FS_NBLOCKS + 1
      /\ IsFiniteSet(DataBlocks) /\ Cardinality(DataBlocks) = FS_NBLOCKS - 2
  <2>1. 0 \in Int /\ 2 \in Int /\ FS_NBLOCKS \in Int /\ FS_NBLOCKS - 1 \in Int /\ FS_NBLOCKS > 2
    BY BlockMapAssumption
  <2>2. QED
    BY <2>1, FS_Interval DEF DataBlocks
<1>2. f \in [0 .. FS_NBLOCKS -> DataBlocks]
  OBVIOUS
<1>3. \E x, y \in 0 .. FS_NBLOCKS : x # y /\ f[x] = f[y]
  <2> HIDE DEF f
  <2>1. Cardinality(DataBlocks) < Cardinality(0 .. FS_NBLOCKS)
    BY <1>1, BlockMapAssumption
  <2>2. QED
    BY <1>1, <1>2, <2>1, FS_PigeonHole
<1>4. PICK i \in 0 .. FS_NBLOCKS, j \in 0 .. FS_NBLOCKS : i < j /\ w[i] = w[j]
  BY <1>3, BlockMapAssumption
<1> DEFINE L == {w[k] : k \in 0 .. (j - 1)}
<1> HIDE DEF w, f
<1>5. w[0] = b /\ \A k \in 1 .. FS_NBLOCKS : w[k] = m[w[k - 1]]
  BY WalkLinks, BlockMapAssumption DEF w, MapIds
<1>6. L \in SUBSET DataBlocks
  BY BlockMapAssumption DEF w
<1>7. b \in L
  BY <1>4, <1>5
<1>8. ASSUME NEW x \in L PROVE m[x] \in L
  <2>1. PICK k \in 0 .. (j - 1) : x = w[k]
    OBVIOUS
  <2>2. k + 1 \in 1 .. FS_NBLOCKS /\ k + 1 <= j /\ (k + 1) - 1 = k
    BY BlockMapAssumption
  <2>3. m[x] = w[k + 1]
    BY <1>5, <2>1, <2>2
  <2>4. CASE k + 1 = j
    BY <1>4, <2>3, <2>4
  <2>5. CASE k + 1 # j
    <3>1. k + 1 \in 0 .. (j - 1)
      BY <2>2, <2>5
    <3>2. QED
      BY <2>3, <3>1
  <2>6. QED
    BY <2>4, <2>5
<1>9. QED
  BY <1>6, <1>7, <1>8

\* s is a list of map m from b on, link by link, up to what is no data block.
IsList(m, b, s) ==
    /\ s \in Seq(DataBlocks)
    /\ Len(s) > 0 /\ s[1] = b
    /\ \A k \in 1 .. Len(s) : IF k < Len(s) THEN m[s[k]] = s[k + 1] ELSE m[s[k]] \notin DataBlocks

\* There is at most one.
LEMMA ListUnique ==
    ASSUME NEW m, NEW b, NEW s, NEW t, IsList(m, b, s), IsList(m, b, t)
    PROVE  s = t
<1> USE DEF IsList
<1>1. Len(s) \in Nat \ {0} /\ Len(t) \in Nat \ {0}
  OBVIOUS
<1> DEFINE T == {k \in Nat : k \in 1 .. Len(s) /\ k \in 1 .. Len(t) /\ s[k] # t[k]}
<1>2. ASSUME NEW k \in T PROVE FALSE
  <2>1. PICK l \in T : \A j \in T : l <= j
    <3>1. T \in SUBSET Nat
      OBVIOUS
    <3> HIDE DEF T
    <3>2. QED
      BY <1>2, <3>1, LeastNumber
  <2>2. l \in Nat /\ l \in 1 .. Len(s) /\ l \in 1 .. Len(t) /\ s[l] # t[l] /\ l # 1
    BY <2>1
  <2>3. l - 1 \in Nat /\ l - 1 \in 1 .. Len(s) /\ l - 1 \in 1 .. Len(t) /\ (l - 1) + 1 = l
    BY <1>1, <2>2
  <2>4. s[l - 1] = t[l - 1]
    BY <2>1, <2>3
  <2>5. l - 1 < Len(s) /\ l - 1 < Len(t)
    BY <1>1, <2>2
  <2>6. m[s[l - 1]] = s[l] /\ m[t[l - 1]] = t[l]
    BY <2>3, <2>5
  <2>7. QED
    BY <2>2, <2>4, <2>6
<1>3. \A k \in 1 .. Len(s) : k \in 1 .. Len(t) => s[k] = t[k]
  BY <1>1, <1>2
<1>4. ~(Len(s) < Len(t))
  <2> SUFFICES ASSUME Len(s) < Len(t)
               PROVE  FALSE
    OBVIOUS
  <2>1. Len(s) \in 1 .. Len(s) /\ Len(s) \in 1 .. Len(t) /\ Len(s) + 1 \in 1 .. Len(t)
    BY <1>1
  <2>2. m[s[Len(s)]] \notin DataBlocks /\ m[t[Len(s)]] = t[Len(s) + 1]
    BY <2>1
  <2>3. t[Len(s) + 1] \in DataBlocks
    BY <2>1
  <2>4. QED
    BY <1>3, <2>1, <2>2, <2>3
<1>5. ~(Len(t) < Len(s))
  <2> SUFFICES ASSUME Len(t) < Len(s)
               PROVE  FALSE
    OBVIOUS
  <2>1. Len(t) \in 1 .. Len(t) /\ Len(t) \in 1 .. Len(s) /\ Len(t) + 1 \in 1 .. Len(s)
    BY <1>1
  <2>2. m[t[Len(t)]] \notin DataBlocks /\ m[s[Len(t)]] = s[Len(t) + 1]
    BY <2>1
  <2>3. s[Len(t) + 1] \in DataBlocks
    BY <2>1
  <2>4. QED
    BY <1>3, <2>1, <2>2, <2>3
<1>6. Len(s) = Len(t)
  BY <1>1, <1>4, <1>5
<1>7. QED
  BY <1>3, <1>6, SeqEqual

\* Of a list that ends, BlockSeq is one: its walk meets an end.
LEMMA BlockSeqIsList ==
    ASSUME NEW m, NEW b, Ends(m, b)
    PROVE  IsList(m, b, BlockSeq(m, b))
<1> DEFINE w == Walk(m, b)
           T == {k \in Nat : k <= FS_NBLOCKS /\ w[k] \notin DataBlocks}
           E(k) == w[k] \notin DataBlocks /\ \A j \in 0 .. (k - 1) : w[j] \in DataBlocks
           n == CHOOSE k \in 0 .. FS_NBLOCKS : E(k)
<1>1. \E k \in 0 .. FS_NBLOCKS : E(k)
  <2>1. PICK k \in 0 .. FS_NBLOCKS : w[k] \notin DataBlocks
    BY WalkRound, EndsNotRound
  <2>2. k \in T /\ T \in SUBSET Nat
    BY <2>1, BlockMapAssumption
  <2>3. PICK l \in T : \A j \in T : l <= j
    <3> HIDE DEF T
    <3>1. QED
      BY <2>2, LeastNumber
  <2>4. ASSUME NEW j \in 0 .. (l - 1) PROVE w[j] \in DataBlocks
    <3>1. j \in Nat /\ j <= FS_NBLOCKS /\ ~(l <= j)
      BY BlockMapAssumption
    <3> HIDE DEF w
    <3>2. QED
      BY <2>3, <3>1
  <2>5. l \in 0 .. FS_NBLOCKS /\ w[l] \notin DataBlocks
    BY BlockMapAssumption
  <2>6. QED
    BY <2>4, <2>5
<1>2. n \in 0 .. FS_NBLOCKS /\ E(n)
  BY <1>1
<1>3. BlockSeq(m, b) = [k \in 1 .. n |-> w[k - 1]]
  BY DEF BlockSeq
<1>4. w[0] = b /\ \A k \in 1 .. FS_NBLOCKS : w[k - 1] \in DataBlocks => w[k] = m[w[k - 1]]
  BY WalkLinks DEF MapIds
<1> HIDE DEF w, n
<1>5. n \in Nat \ {0} /\ n <= FS_NBLOCKS
  BY <1>2, <1>4, BlockMapAssumption DEF Ends
<1> DEFINE s == BlockSeq(m, b)
<1>6. \A k \in 1 .. n : w[k - 1] \in DataBlocks
  BY <1>2, <1>5
<1>7. s \in Seq(DataBlocks) /\ Len(s) = n /\ \A k \in 1 .. n : s[k] = w[k - 1]
  <2>1. s \in [1 .. n -> DataBlocks]
    BY <1>3, <1>6
  <2>2. QED
    BY <1>3, <1>5, <2>1
<1> HIDE DEF s
<1>8. s[1] = b
  BY <1>4, <1>5, <1>7
<1>9. ASSUME NEW k \in 1 .. n
      PROVE  IF k < n THEN m[s[k]] = s[k + 1] ELSE m[s[k]] \notin DataBlocks
  <2>1. w[k] = m[s[k]]
    BY <1>4, <1>5, <1>6, <1>7, BlockMapAssumption
  <2>2. CASE k < n
    <3>1. k + 1 \in 1 .. n /\ (k + 1) - 1 = k
      BY <1>5, <2>2
    <3>2. QED
      BY <1>7, <2>1, <2>2, <3>1
  <2>3. CASE ~(k < n)
    <3>1. k = n
      BY <1>5, <2>3
    <3>2. QED
      BY <1>2, <2>1, <3>1
  <2>4. QED
    BY <2>2, <2>3
<1>10. QED
  BY <1>5, <1>7, <1>8, <1>9 DEF IsList, s

\* It holds each block of the list once, and ends at the end mark.
LEMMA ListBlocks ==
    ASSUME NEW m \in BlockMaps, NEW b, NEW s, Ends(m, b), IsList(m, b, s)
    PROVE  /\ Chain(m, b) = {s[k] : k \in 1 .. Len(s)}
           /\ m[s[Len(s)]] = EOF_BLOCK
           /\ \A i, j \in 1 .. Len(s) : s[i] = s[j] => i = j
<1>1. /\ Len(s) \in Nat \ {0} /\ s[1] = b
      /\ \A k \in 1 .. Len(s) : s[k] \in DataBlocks
  BY DEF IsList
<1>2. \A k \in 1 .. Len(s) : IF k < Len(s) THEN m[s[k]] = s[k + 1] ELSE m[s[k]] \notin DataBlocks
  BY DEF IsList
<1> DEFINE n == Len(s)
           C == Chain(m, b)
           R == {s[k] : k \in 1 .. n}
           T == {k \in Nat : k \in 1 .. n /\ s[k] \notin C}
<1>3. /\ b \in C /\ C \subseteq DataBlocks /\ EOF_BLOCK \notin DataBlocks
      /\ \A x \in C : m[x] \in C \/ m[x] = EOF_BLOCK
  BY EndsLinks DEF MapIds
<1>4. R \in SUBSET MapIds
  BY <1>1 DEF MapIds
<1> HIDE DEF n, C
<1>5. ASSUME NEW k \in T PROVE FALSE
  <2>1. PICK l \in T : \A j \in T : l <= j
    <3>1. T \in SUBSET Nat
      OBVIOUS
    <3> HIDE DEF T
    <3>2. QED
      BY <1>5, <3>1, LeastNumber
  <2>2. l \in Nat /\ l \in 1 .. n /\ s[l] \notin C /\ l # 1
    BY <1>1, <1>3, <2>1
  <2>3. l - 1 \in Nat /\ l - 1 \in 1 .. n /\ l - 1 < n /\ (l - 1) + 1 = l
    BY <1>1, <2>2 DEF n
  <2>4. s[l - 1] \in C
    BY <2>1, <2>3
  <2>5. m[s[l - 1]] = s[l] /\ s[l] \in DataBlocks
    BY <1>1, <1>2, <2>2, <2>3 DEF n
  <2>6. QED
    BY <1>3, <2>2, <2>4, <2>5
<1>6. \A k \in 1 .. n : s[k] \in C
  BY <1>1, <1>5 DEF n
<1>7. n \in 1 .. n /\ m[s[n]] = EOF_BLOCK
  <2>1. n \in 1 .. n /\ m[s[n]] \notin DataBlocks
    BY <1>1, <1>2 DEF n
  <2>2. QED
    BY <1>3, <1>6, <2>1
<1>8. Closed(m, R)
  <2> SUFFICES ASSUME NEW k \in 1 .. n, m[s[k]] \in MapIds
               PROVE  m[s[k]] \in R
    BY DEF Closed
  <2>1. EOF_BLOCK \notin MapIds
    BY EndsLinks
  <2>2. k < n
    BY <1>1, <1>7, <2>1 DEF n
  <2>3. m[s[k]] = s[k + 1] /\ k + 1 \in 1 .. n
    BY <1>1, <1>2, <2>2 DEF n
  <2>4. QED
    BY <2>3
<1>9. b \in R
  BY <1>1 DEF n
<1>10. C = R
  BY <1>4, <1>6, <1>8, <1>9, ChainMinimal DEF C
<1>11. ASSUME NEW i \in 1 .. n, NEW j \in 1 .. n, i < j, s[i] = s[j]
       PROVE  FALSE
  <2> DEFINE L == {s[k] : k \in 1 .. (j - 1)}
  <2>1. b \in L
    BY <1>1, <1>11 DEF n
  <2>2. L \in SUBSET DataBlocks
    BY <1>1 DEF n
  <2>3. ASSUME NEW k \in 1 .. (j - 1) PROVE m[s[k]] \in L
    <3>1. k \in 1 .. n /\ k < n /\ k + 1 \in 1 .. j
      BY <1>1 DEF n
    <3>2. m[s[k]] = s[k + 1]
      BY <1>2, <3>1 DEF n
    <3>3. CASE k + 1 = j
      <4>1. i \in 1 .. (j - 1) /\ m[s[k]] = s[i]
        BY <1>1, <1>11, <3>2, <3>3 DEF n
      <4>2. QED
        BY <4>1
    <3>4. CASE k + 1 # j
      <4>1. k + 1 \in 1 .. (j - 1)
        BY <3>1, <3>4
      <4>2. QED
        BY <3>2, <4>1
    <3>5. QED
      BY <3>3, <3>4
  <2>4. \A x \in L : m[x] \in L
    BY <2>3
  <2> HIDE DEF L
  <2>5. QED
    BY <2>1, <2>2, <2>4, EndsNotRound
<1>12. \A i, j \in 1 .. n : s[i] = s[j] => i = j
  BY <1>1, <1>11 DEF n
<1>13. QED
  BY <1>7, <1>10, <1>12 DEF n, C

\* BlockSeq, in short.
LEMMA BlockSeqFacts ==
    ASSUME NEW m \in BlockMaps, NEW b, Ends(m, b)
    PROVE  LET s == BlockSeq(m, b)
           IN  /\ s \in Seq(DataBlocks) /\ Len(s) \in Nat \ {0} /\ s[1] = b
               /\ Chain(m, b) = {s[k] : k \in 1 .. Len(s)}
               /\ \A k \in 1 .. Len(s) : m[s[k]] = IF k < Len(s) THEN s[k + 1] ELSE EOF_BLOCK
               /\ \A i, j \in 1 .. Len(s) : s[i] = s[j] => i = j
<1> DEFINE s == BlockSeq(m, b)
<1>1. IsList(m, b, s)
  BY BlockSeqIsList
<1>2. /\ Chain(m, b) = {s[k] : k \in 1 .. Len(s)}
      /\ m[s[Len(s)]] = EOF_BLOCK
      /\ \A i, j \in 1 .. Len(s) : s[i] = s[j] => i = j
  BY <1>1, ListBlocks
<1> HIDE DEF s
<1>3. s \in Seq(DataBlocks) /\ Len(s) \in Nat \ {0} /\ s[1] = b
  BY <1>1 DEF IsList
<1>4. \A k \in 1 .. Len(s) : k < Len(s) \/ k = Len(s)
  BY <1>3
<1>5. \A k \in 1 .. Len(s) : m[s[k]] = IF k < Len(s) THEN s[k + 1] ELSE EOF_BLOCK
  BY <1>1, <1>2, <1>4 DEF IsList
<1>6. QED
  BY <1>2, <1>3, <1>5 DEF s

\* What starts at no data block has no blocks.
LEMMA BlockSeqNone ==
    ASSUME NEW m, NEW b, b \notin DataBlocks
    PROVE  BlockSeq(m, b) = <<>>
<1> DEFINE w == Walk(m, b)
           E(k) == w[k] \notin DataBlocks /\ \A j \in 0 .. (k - 1) : w[j] \in DataBlocks
           n == CHOOSE k \in 0 .. FS_NBLOCKS : E(k)
<1>1. w[0] = b
  BY WalkLinks
<1> HIDE DEF w
<1>2. 0 \in 0 .. FS_NBLOCKS /\ E(0)
  BY <1>1, BlockMapAssumption
<1>3. n \in 0 .. FS_NBLOCKS /\ E(n)
  BY <1>2
<1> HIDE DEF n
<1>4. n = 0
  BY <1>1, <1>3, BlockMapAssumption
<1>5. BlockSeq(m, b) = [k \in 1 .. n |-> w[k - 1]]
  BY DEF BlockSeq, w, n
<1>6. [k \in 1 .. n |-> w[k - 1]] \in Seq(DataBlocks) /\ Len([k \in 1 .. n |-> w[k - 1]]) = 0
  BY <1>4
<1>7. QED
  BY <1>5, <1>6, EmptySeq

\* What is a list in a map and ends there is what BlockSeq finds.
LEMMA BlockSeqIs ==
    ASSUME NEW m, NEW b, NEW s, Ends(m, b), IsList(m, b, s)
    PROVE  BlockSeq(m, b) = s
BY BlockSeqIsList, ListUnique

\* Two maps with the same links along a list that ends have it in common.
LEMMA BlockSeqAgree ==
    ASSUME NEW m1 \in BlockMaps, NEW m2 \in BlockMaps, NEW b, Ends(m1, b),
           \A x \in Chain(m1, b) : m1[x] = m2[x]
    PROVE  Ends(m2, b) /\ Chain(m2, b) = Chain(m1, b) /\ BlockSeq(m2, b) = BlockSeq(m1, b)
<1>1. b \in MapIds
  BY DEF Ends, MapIds
<1>2. Chain(m2, b) = Chain(m1, b) /\ Ends(m2, b)
  BY <1>1, ChainAgree, ChainEndsAgree DEF Ends
<1> DEFINE s == BlockSeq(m1, b)
<1>3. IsList(m1, b, s) /\ \A k \in 1 .. Len(s) : s[k] \in Chain(m1, b)
  BY BlockSeqIsList, BlockSeqFacts
<1> HIDE DEF s
<1>4. IsList(m2, b, s)
  BY <1>3 DEF IsList
<1>5. QED
  BY <1>2, <1>4, BlockSeqIs DEF s

\* A block that was just allocated is a list.
LEMMA BlockSeqAllocated ==
    ASSUME NEW m \in BlockMaps, Sound(m), HasFree(m)
    PROVE  /\ Ends(AllocateBlock(m), FreeHead(m))
           /\ BlockSeq(AllocateBlock(m), FreeHead(m)) = <<FreeHead(m)>>
<1> DEFINE h  == FreeHead(m)
           m2 == AllocateBlock(m)
<1>1. h \in DataBlocks /\ m2[h] = EOF_BLOCK /\ EOF_BLOCK \notin DataBlocks /\ BLKMAP_BID # h
  BY FreeHeadFacts, AllocateLinks, BlockMapAssumption DEF MapIds, DataBlocks, BLKMAP_BID
<1>2. Ends(m2, h)
  BY <1>1, AllocatedAlone DEF Ends
<1> HIDE DEF h, m2
<1>3. IsList(m2, h, <<h>>)
  BY <1>1 DEF IsList
<1>4. QED
  BY <1>2, <1>3, BlockSeqIs DEF h, m2

\* Extending a list by an allocated block appends it.
LEMMA BlockSeqExtended ==
    ASSUME NEW m \in BlockMaps, Sound(m), HasFree(m), NEW b, Ends(m, b),
           NEW c \in Chain(m, b), m[c] = EOF_BLOCK
    PROVE  /\ Ends(Extended(m, c), b)
           /\ BlockSeq(m, b)[Len(BlockSeq(m, b))] = c
           /\ BlockSeq(Extended(m, c), b) = Append(BlockSeq(m, b), FreeHead(m))
<1> DEFINE h  == FreeHead(m)
           m3 == Extended(m, c)
           s  == BlockSeq(m, b)
           n  == Len(s)
<1>1. /\ h \in DataBlocks /\ h # BLKMAP_BID /\ EOF_BLOCK \notin DataBlocks
      /\ b \in MapIds /\ c \in MapIds
  BY FreeHeadFacts, ChainInMap, BlockMapAssumption DEF Ends, HasFree, MapIds, DataBlocks
<1>2. Ends(m3, b)
  BY <1>1, ExtendedList DEF Ends
<1>3. /\ s \in Seq(DataBlocks) /\ n \in Nat \ {0} /\ s[1] = b
      /\ \A k \in 1 .. n : s[k] \in Chain(m, b) /\ s[k] \in DataBlocks
      /\ \A k \in 1 .. n : m[s[k]] = IF k < n THEN s[k + 1] ELSE EOF_BLOCK
      /\ \A i, j \in 1 .. n : s[i] = s[j] => i = j
      /\ \E k \in 1 .. n : s[k] = c
  BY BlockSeqFacts
<1>4. s[n] = c
  BY <1>1, <1>3
<1>5. /\ m3[c] = h /\ m3[h] = EOF_BLOCK
      /\ \A x \in Chain(m, b) \ {c} : m3[x] = m[x]
  <2>1. h \notin Chain(m, b) /\ BLKMAP_BID \notin Chain(m, b) /\ Chain(m, b) \subseteq MapIds
    BY ApartFromFree, FreeHeadFacts, ChainInMap DEF Ends
  <2>2. QED
    BY <1>1, <2>1, ExtendedLinks
<1> DEFINE t == Append(s, h)
<1> HIDE DEF h, m3, s
<1>6. /\ t \in Seq(DataBlocks) /\ Len(t) = n + 1 /\ t[n + 1] = h
      /\ \A k \in 1 .. n : t[k] = s[k]
  BY <1>1, <1>3
<1> HIDE DEF t, n
<1>7. ASSUME NEW k \in 1 .. Len(t)
      PROVE  IF k < Len(t) THEN m3[t[k]] = t[k + 1] ELSE m3[t[k]] \notin DataBlocks
  <2>1. CASE k < n
    <3>1. k \in 1 .. n /\ k + 1 \in 1 .. n /\ n \in 1 .. n /\ k # n
      BY <1>3, <1>6, <2>1
    <3>2. s[k] # c /\ m[s[k]] = s[k + 1]
      BY <1>3, <1>4, <2>1, <3>1
    <3>3. QED
      BY <1>3, <1>5, <1>6, <2>1, <3>1, <3>2
  <2>2. CASE k = n
    <3>1. k \in 1 .. n
      BY <1>3, <2>2
    <3>2. QED
      BY <1>3, <1>4, <1>5, <1>6, <2>2, <3>1
  <2>3. CASE k = n + 1
    BY <1>1, <1>5, <1>6, <2>3
  <2>4. QED
    BY <1>3, <1>6, <2>1, <2>2, <2>3
<1>8. Len(t) > 0 /\ t[1] = b
  BY <1>3, <1>6
<1>9. IsList(m3, b, t)
  BY <1>6, <1>7, <1>8 DEF IsList
<1>10. QED
  BY <1>2, <1>4, <1>9, BlockSeqIs DEF h, m3, s, t, n

=============================================================================
