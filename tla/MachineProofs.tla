----------------------------- MODULE MachineProofs -----------------------------
(***************************************************************************)
(* Proofs, for every program, width and page table, that the two versions   *)
(* of the machine keep their types and do the same.                         *)
(* Then that the C version computes N! with fac.s, for every N that the     *)
(* stack is large enough for: an invariant that says, at each instruction,  *)
(* what is in the registers and what the calls that have not returned yet   *)
(* have saved (FacInv).                                                     *)
(***************************************************************************)
EXTENDS MachineProperties, TLAPS, WellFoundedInduction

-----------------------------------------------------------------------------
(* Words and fields.                                                        *)

\* A number of two digits, the lower one below B.
LEMMA Digits ==
    ASSUME NEW A \in Nat \ {0}, NEW B \in Nat \ {0}, NEW a \in 0 .. (A - 1), NEW b \in 0 .. (B - 1)
    PROVE  a * B + b \in 0 .. (A * B - 1)
<1>1. /\ A \in Int /\ B \in Int /\ a \in Int /\ b \in Int
      /\ 0 < B /\ 0 <= a /\ a <= A - 1 /\ 0 <= b /\ b <= B - 1
  OBVIOUS
<1>2. 0 <= a * B /\ a * B \in Int
  BY <1>1
<1>3. 0 <= (A - 1 - a) * B
  BY <1>1
<1>4. (A - 1 - a) * B = A * B - B - a * B
  BY <1>1
<1>5. QED
  BY <1>1, <1>2, <1>3, <1>4

LEMMA WordFacts ==
    /\ WORD \in Nat /\ 2 <= WORD /\ CONSTS <= WORD
    /\ 0 \in Words /\ 1 \in Words
    /\ \A i \in Int : Word(i) \in Words
    /\ \A i \in Words : Word(i) = i
    /\ \A w \in Words : Signed(w) \in Int /\ w \in Int
<1>1. WORD \in Nat /\ 2 <= WORD /\ CONSTS <= WORD
  BY IsaAssumption
<1> HIDE DEF WORD
<1>2. QED
  BY <1>1 DEF Words, Word, Signed

LEMMA FieldFacts ==
    ASSUME NEW i \in Words
    PROVE  /\ Dest(i) \in Registers /\ Source1(i) \in Registers /\ Source2(i) \in Registers
           /\ Constant(i) \in Int /\ (0 <= Constant(i) => Constant(i) \in Words)
<1>1. i \in Int /\ NREG \in Nat \ {0} /\ CONSTS \in Nat \ {0, 1} /\ CONSTS <= WORD /\ WORD \in Nat
  BY WordFacts, IsaAssumption
<1>2. NREG * CONSTS \in Nat \ {0}
  BY <1>1
<1>3. i \div (NREG * CONSTS) \in Int /\ i \div CONSTS \in Int
  BY <1>1, <1>2
<1>4. Dest(i) \in Registers /\ Source1(i) \in Registers
  BY <1>1, <1>3 DEF Dest, Source1, Registers
<1>5. i % CONSTS \in 0 .. (CONSTS - 1)
  BY <1>1
<1>6. Constant(i) \in Int /\ (0 <= Constant(i) => Constant(i) \in Words)
  BY <1>1, <1>5 DEF Constant, Words
<1>7. Source2(i) \in Registers
  BY <1>1, <1>6 DEF Source2, Registers
<1>8. QED
  BY <1>4, <1>6, <1>7

LEMMA ProductWord == ASSUME NEW a \in Words, NEW b \in Words PROVE Product(a, b) \in Words
<1> DEFINE half == OPCODES * NREG
           low  == a * (b % half)
           part == Word(a * (b \div half))
           high == part * half
<1>1. a \in Int /\ b \in Int /\ half \in Nat \ {0}
  BY WordFacts, IsaAssumption
<1> HIDE DEF half
<1>2. b % half \in Int /\ b \div half \in Int
  BY <1>1
<1>3. low \in Int /\ a * (b \div half) \in Int
  BY <1>1, <1>2
<1>4. part \in Int
  BY <1>3, WordFacts
<1> HIDE DEF low, part
<1>5. high \in Int
  BY <1>1, <1>4
<1> HIDE DEF high
<1>6. low + high \in Int
  BY <1>3, <1>5
<1>7. Word(low + high) \in Words
  BY <1>6, WordFacts
<1>8. QED
  BY <1>7, Zenon DEF Product, half, low, part, high

LEMMA InstrWord ==
    ASSUME NEW o \in 0 .. (OPCODES - 1), NEW d \in Registers, NEW s \in Registers, NEW k \in Int
    PROVE  MakeInstr(o, d, s, k) \in Words
<1>1. /\ OPCODES \in Nat \ {0} /\ NREG \in Nat \ {0} /\ CONSTS \in Nat \ {0}
      /\ d \in 0 .. (NREG - 1) /\ s \in 0 .. (NREG - 1) /\ k % CONSTS \in 0 .. (CONSTS - 1)
  BY IsaAssumption DEF Registers
<1>2. OPCODES * NREG \in Nat \ {0} /\ (OPCODES * NREG) * NREG \in Nat \ {0}
  BY <1>1
<1>3. o * NREG + d \in 0 .. (OPCODES * NREG - 1)
  BY <1>1, Digits
<1>4. (o * NREG + d) * NREG + s \in 0 .. ((OPCODES * NREG) * NREG - 1)
  BY <1>1, <1>2, <1>3, Digits
<1>5. ((o * NREG + d) * NREG + s) * CONSTS + (k % CONSTS)
         \in 0 .. (((OPCODES * NREG) * NREG) * CONSTS - 1)
  BY <1>1, <1>2, <1>4, Digits
<1>6. QED
  BY <1>5 DEF MakeInstr, Words, WORD

LEMMA LoadedWords ==
    ASSUME NEW prog \in Seq(Lines), NEW memory \in Memories
    PROVE  Loaded(prog, memory) \in Memories
<1>1. ASSUME NEW a \in Addresses
      PROVE  Loaded(prog, memory)[a] \in Words
  <2>1. a \in Nat
    BY IsaAssumption DEF Addresses
  <2>2. CASE a < Len(prog)
    <3>1. prog[a + 1] \in Lines
      BY <2>1, <2>2
    <3>2. Instr(prog, a) \in Words
      BY <3>1, InstrWord DEF Lines, Instr
    <3>3. QED
      BY <2>2, <3>2 DEF Loaded
  <2>3. CASE ~(a < Len(prog))
    BY <2>3 DEF Loaded, Memories
  <2>4. QED
    BY <2>2, <2>3
<1>2. QED
  BY <1>1 DEF Loaded, Memories

-----------------------------------------------------------------------------
(* The two machines.                                                        *)

\* The instruction set of machine C is the one above.
LEMMA SameIsaC ==
    /\ C!WORD = WORD /\ C!Words = Words /\ C!Registers = Registers
    /\ C!Addresses = Addresses /\ C!LINK = LINK
    /\ C!Arithmetic = Arithmetic /\ C!Branches = Branches
    /\ \A i : C!Word(i) = Word(i) /\ C!Signed(i) = Signed(i)
    /\ \A a, b : C!Product(a, b) = Product(a, b)
    /\ \A i : C!Opcode(i) = Opcode(i) /\ C!Dest(i) = Dest(i)
    /\ \A i : C!Source1(i) = Source1(i) /\ C!Source2(i) = Source2(i)
    /\ \A i : C!Constant(i) = Constant(i)
<1>1. /\ C!WORD = WORD /\ C!Words = Words /\ C!Registers = Registers
      /\ C!Addresses = Addresses /\ C!LINK = LINK
  BY DEF C!WORD, WORD, C!Words, Words, C!Registers, Registers, C!Addresses, Addresses,
         C!LINK, LINK
<1>2. C!Arithmetic = Arithmetic /\ C!Branches = Branches
  BY DEF C!Arithmetic, Arithmetic, C!Branches, Branches, C!ADD, ADD, C!ADDI, ADDI, C!SUB, SUB,
         C!SUBI, SUBI, C!MUL, MUL, C!SGE, SGE, C!SGT, SGT, C!SEQ, SEQ, C!SEQI, SEQI,
         C!BT, BT, C!BF, BF, C!BA, BA
<1>3. \A i : C!Word(i) = Word(i) /\ C!Signed(i) = Signed(i)
  BY <1>1 DEF C!Word, Word, C!Signed, Signed
<1>4. \A a, b : C!Product(a, b) = Product(a, b)
  BY <1>3 DEF C!Product, Product
<1>5. \A i : C!Opcode(i) = Opcode(i) /\ C!Dest(i) = Dest(i)
  BY DEF C!Opcode, Opcode, C!Dest, Dest
<1>6. \A i : C!Source1(i) = Source1(i) /\ C!Constant(i) = Constant(i)
  BY DEF C!Source1, Source1, C!Constant, Constant
<1>7. \A i : C!Source2(i) = Source2(i)
  BY <1>6 DEF C!Source2, Source2
<1>8. QED
  BY <1>1, <1>2, <1>3, <1>4, <1>5, <1>6, <1>7

\* The instruction set of machine Z is the one above.
LEMMA SameIsaZ ==
    /\ Z!WORD = WORD /\ Z!Words = Words /\ Z!Registers = Registers
    /\ Z!Addresses = Addresses /\ Z!LINK = LINK
    /\ Z!Arithmetic = Arithmetic /\ Z!Branches = Branches
    /\ \A i : Z!Word(i) = Word(i) /\ Z!Signed(i) = Signed(i)
    /\ \A a, b : Z!Product(a, b) = Product(a, b)
    /\ \A i : Z!Opcode(i) = Opcode(i) /\ Z!Dest(i) = Dest(i)
    /\ \A i : Z!Source1(i) = Source1(i) /\ Z!Source2(i) = Source2(i)
    /\ \A i : Z!Constant(i) = Constant(i)
<1>1. /\ Z!WORD = WORD /\ Z!Words = Words /\ Z!Registers = Registers
      /\ Z!Addresses = Addresses /\ Z!LINK = LINK
  BY DEF Z!WORD, WORD, Z!Words, Words, Z!Registers, Registers, Z!Addresses, Addresses,
         Z!LINK, LINK
<1>2. Z!Arithmetic = Arithmetic /\ Z!Branches = Branches
  BY DEF Z!Arithmetic, Arithmetic, Z!Branches, Branches, Z!ADD, ADD, Z!ADDI, ADDI, Z!SUB, SUB,
         Z!SUBI, SUBI, Z!MUL, MUL, Z!SGE, SGE, Z!SGT, SGT, Z!SEQ, SEQ, Z!SEQI, SEQI,
         Z!BT, BT, Z!BF, BF, Z!BA, BA
<1>3. \A i : Z!Word(i) = Word(i) /\ Z!Signed(i) = Signed(i)
  BY <1>1 DEF Z!Word, Word, Z!Signed, Signed
<1>4. \A a, b : Z!Product(a, b) = Product(a, b)
  BY <1>3 DEF Z!Product, Product
<1>5. \A i : Z!Opcode(i) = Opcode(i) /\ Z!Dest(i) = Dest(i)
  BY DEF Z!Opcode, Opcode, Z!Dest, Dest
<1>6. \A i : Z!Source1(i) = Source1(i) /\ Z!Constant(i) = Constant(i)
  BY DEF Z!Source1, Source1, Z!Constant, Constant
<1>7. \A i : Z!Source2(i) = Source2(i)
  BY <1>6 DEF Z!Source2, Source2
<1>8. QED
  BY <1>1, <1>2, <1>3, <1>4, <1>5, <1>6, <1>7

\* The operands of an instruction, what it computes, and registers after a writeback.
Src1(r, i) == Signed(r[Source1(i)])
Src2(r, i) == Signed(r[Source2(i)])
Result(r, i) ==
    CASE Opcode(i) = ADD  -> Word(Src1(r, i) + Src2(r, i))
      [] Opcode(i) = ADDI -> Word(Src1(r, i) + Constant(i))
      [] Opcode(i) = SUB  -> Word(Src1(r, i) - Src2(r, i))
      [] Opcode(i) = SUBI -> Word(Src1(r, i) - Constant(i))
      [] Opcode(i) = MUL  -> Product(Word(Src1(r, i)), Word(Src2(r, i)))
      [] Opcode(i) = SGE  -> Truth(Src1(r, i) >= Src2(r, i))
      [] Opcode(i) = SGT  -> Truth(Src1(r, i) > Src2(r, i))
      [] Opcode(i) = SEQ  -> Truth(Src1(r, i) = Src2(r, i))
      [] Opcode(i) = SEQI -> Truth(Src1(r, i) = Constant(i))
Written(r, d, w) == IF d = 0 THEN r ELSE [r EXCEPT ![d] = w]

LEMMA CView ==
    /\ C!op = Opcode(cmem[cpc]) /\ C!constant = Constant(cmem[cpc])
    /\ C!dest_reg = Dest(cmem[cpc])
    /\ C!source1 = Src1(creg, cmem[cpc]) /\ C!source2 = Src2(creg, cmem[cpc])
    /\ C!effective = Word(Src1(creg, cmem[cpc]) + Constant(cmem[cpc]))
    /\ C!Computed = Result(creg, cmem[cpc])
    /\ \A d, w : C!WriteBack(d, w) <=> creg' = Written(creg, d, w)
<1>1. /\ C!op = Opcode(cmem[cpc]) /\ C!constant = Constant(cmem[cpc])
      /\ C!dest_reg = Dest(cmem[cpc])
      /\ C!source1 = Src1(creg, cmem[cpc]) /\ C!source2 = Src2(creg, cmem[cpc])
  BY SameIsaC DEF C!op, C!constant, C!dest_reg, C!source1, C!source2, Src1, Src2
<1>2. C!effective = Word(Src1(creg, cmem[cpc]) + Constant(cmem[cpc]))
  BY <1>1, SameIsaC DEF C!effective
<1>3. C!Computed = Result(creg, cmem[cpc])
  BY <1>1, SameIsaC DEF C!Computed, Result, C!Truth, Truth, C!ADD, ADD, C!ADDI, ADDI, C!SUB, SUB,
     C!SUBI, SUBI, C!MUL, MUL, C!SGE, SGE, C!SGT, SGT, C!SEQ, SEQ, C!SEQI, SEQI
<1>4. \A d, w : C!WriteBack(d, w) <=> creg' = Written(creg, d, w)
  BY DEF C!WriteBack, Written
<1>5. QED
  BY <1>1, <1>2, <1>3, <1>4

LEMMA ZView ==
    /\ Z!constant = Constant(Z!instr) /\ Z!dest_reg = Dest(Z!instr)
    /\ Z!source1 = Src1(zreg, Z!instr) /\ Z!source2 = Src2(zreg, Z!instr)
    /\ Z!wide_addr = Src1(zreg, Z!instr) + Constant(Z!instr)
    /\ Z!effective = Z!Translated(Word(Src1(zreg, Z!instr) + Constant(Z!instr)))
    /\ \A d, w : Z!WriteBack(d, w) <=> zreg' = Written(zreg, d, w)
<1>1. /\ Z!constant = Constant(Z!instr) /\ Z!dest_reg = Dest(Z!instr)
      /\ Z!source1 = Src1(zreg, Z!instr) /\ Z!source2 = Src2(zreg, Z!instr)
  BY SameIsaZ DEF Z!constant, Z!dest_reg, Z!source1, Z!source2, Src1, Src2
<1>2. Z!wide_addr = Src1(zreg, Z!instr) + Constant(Z!instr)
  BY <1>1 DEF Z!wide_addr
<1>3. Z!effective = Z!Translated(Word(Src1(zreg, Z!instr) + Constant(Z!instr)))
  BY <1>2, SameIsaZ DEF Z!effective
<1>4. \A d, w : Z!WriteBack(d, w) <=> zreg' = Written(zreg, d, w)
  BY DEF Z!WriteBack, Written
<1>5. QED
  BY <1>1, <1>2, <1>3, <1>4

\* Where the page table has an entry, the Zig version finds it.
LEMMA TranslatedNear ==
    ASSUME NEW a \in Addresses
    PROVE  Z!Translated(a) = a
<1>1. /\ NPAGES \in Nat /\ PAGESIZE \in Nat \ {0} /\ PageNumbers \in Nat
      /\ NPAGES <= PageNumbers
  BY IsaAssumption
<1>2. 0 <= (PageNumbers - NPAGES) * PAGESIZE
  BY <1>1
<1>3. (PageNumbers - NPAGES) * PAGESIZE = PageNumbers * PAGESIZE - NPAGES * PAGESIZE
  BY <1>1
<1>4. NPAGES * PAGESIZE \in Int /\ PageNumbers * PAGESIZE \in Int
  BY <1>1
<1>5. a \in 0 .. (PageNumbers * PAGESIZE - 1) /\ a \in Int
  BY <1>2, <1>3, <1>4 DEF Addresses
<1> DEFINE n == PageNumbers * PAGESIZE
<1>6. n \in Int /\ a \in 0 .. (n - 1)
  BY <1>4, <1>5
<1> HIDE DEF n
<1>7. a % n = a
  BY <1>6
<1>8. QED
  BY <1>7 DEF Z!Translated, n

-----------------------------------------------------------------------------
(* Types.                                                                   *)

LEMMA ResultWord ==
    ASSUME NEW r \in [Registers -> Words], NEW i \in Words, Opcode(i) \in Arithmetic
    PROVE  Result(r, i) \in Words
<1>1. Src1(r, i) \in Int /\ Src2(r, i) \in Int /\ Constant(i) \in Int
  BY FieldFacts, WordFacts DEF Src1, Src2
<1>2. /\ Word(Src1(r, i) + Src2(r, i)) \in Words /\ Word(Src1(r, i) + Constant(i)) \in Words
      /\ Word(Src1(r, i) - Src2(r, i)) \in Words /\ Word(Src1(r, i) - Constant(i)) \in Words
      /\ Word(Src1(r, i)) \in Words /\ Word(Src2(r, i)) \in Words
  BY <1>1, WordFacts
<1>3. Product(Word(Src1(r, i)), Word(Src2(r, i))) \in Words
  BY <1>2, ProductWord
<1>4. /\ Truth(Src1(r, i) >= Src2(r, i)) \in Words /\ Truth(Src1(r, i) > Src2(r, i)) \in Words
      /\ Truth(Src1(r, i) = Src2(r, i)) \in Words /\ Truth(Src1(r, i) = Constant(i)) \in Words
  BY WordFacts DEF Truth
<1>5. QED
  BY <1>2, <1>3, <1>4
     DEF Result, Arithmetic, ADD, ADDI, SUB, SUBI, MUL, SGE, SGT, SEQ, SEQI

LEMMA WrittenWords ==
    ASSUME NEW r \in [Registers -> Words], NEW d \in Registers, NEW w \in Words
    PROVE  Written(r, d, w) \in [Registers -> Words]
BY IsaAssumption DEF Written, Registers

LEMMA LinkRegister == LINK \in Registers /\ 0 \in Registers
BY IsaAssumption DEF LINK, Registers

LEMMA CTypeStep == ASSUME C!TypeOK, C!Next PROVE C!TypeOK'
<1>1. /\ cpc \in Words /\ creg \in [Registers -> Words] /\ cmem \in [Addresses -> Words]
      /\ cstatus \in {"running", "halted", "illegal", "stray"}
  BY SameIsaC DEF C!TypeOK
<1> SUFFICES /\ cpc' \in Words /\ creg' \in [Registers -> Words] /\ cmem' \in [Addresses -> Words]
             /\ cstatus' \in {"running", "halted", "illegal", "stray"}
  BY SameIsaC DEF C!TypeOK
<1> DEFINE i == cmem[cpc]
<1>2. cpc + 1 \in Int
  BY <1>1, WordFacts
<1>3. C!Increment => cpc' \in Words
  BY <1>2, SameIsaC, WordFacts DEF C!Increment
<1>4. ASSUME cpc \in Addresses
      PROVE  /\ i \in Words /\ Dest(i) \in Registers
             /\ Word(Constant(i)) \in Words /\ Word(Src1(creg, i)) \in Words
             /\ creg[Dest(i)] \in Words
  <2>1. i \in Words
    BY <1>1, <1>4
  <2>2. Constant(i) \in Int /\ Src1(creg, i) \in Int /\ Dest(i) \in Registers
    BY <1>1, <2>1, FieldFacts, WordFacts DEF Src1
  <2>3. QED
    BY <1>1, <2>1, <2>2, WordFacts
<1>5. CASE C!Compute
  <2>1. /\ cpc \in Addresses /\ Opcode(i) \in Arithmetic /\ C!Increment
        /\ creg' = Written(creg, Dest(i), Result(creg, i)) /\ UNCHANGED <<cmem, cstatus>>
    BY <1>5, CView, SameIsaC DEF C!Compute, C!Fetches
  <2>2. QED
    BY <1>1, <1>3, <1>4, <2>1, ResultWord, WrittenWords
<1>6. CASE C!Branch
  <2>1. /\ cpc \in Addresses /\ UNCHANGED <<creg, cmem, cstatus>>
        /\ cpc' = Word(Constant(i)) \/ C!Increment
    BY <1>6, CView, SameIsaC DEF C!Branch, C!Fetches
  <2>2. QED
    BY <1>1, <1>3, <1>4, <2>1
<1>7. CASE C!Load
  <2>1. /\ cpc \in Addresses /\ C!effective \in Addresses /\ C!Increment
        /\ creg' = Written(creg, Dest(i), cmem[C!effective]) /\ UNCHANGED <<cmem, cstatus>>
    BY <1>7, CView, SameIsaC DEF C!Load, C!Fetches
  <2>2. QED
    BY <1>1, <1>3, <1>4, <2>1, WrittenWords
<1>8. CASE C!Store
  <2>1. /\ cpc \in Addresses /\ C!effective \in Addresses /\ C!Increment
        /\ cmem' = [cmem EXCEPT ![C!effective] = creg[Dest(i)]] /\ UNCHANGED <<creg, cstatus>>
    BY <1>8, CView, SameIsaC DEF C!Store, C!Fetches
  <2>2. QED
    BY <1>1, <1>3, <1>4, <2>1
<1>9. CASE C!Call
  <2>1. /\ cpc \in Addresses /\ cpc' = Word(Constant(i))
        /\ creg' = Written(creg, LINK, Word(cpc + 1)) /\ UNCHANGED <<cmem, cstatus>>
    BY <1>9, CView, SameIsaC DEF C!Call, C!Fetches
  <2>2. Word(cpc + 1) \in Words
    BY <1>2, WordFacts
  <2>3. QED
    BY <1>1, <1>4, <2>1, <2>2, WrittenWords, LinkRegister
<1>10. CASE C!Jump
  <2>1. cpc \in Addresses /\ cpc' = Word(Src1(creg, i)) /\ UNCHANGED <<creg, cmem, cstatus>>
    BY <1>10, CView, SameIsaC DEF C!Jump, C!Fetches
  <2>2. QED
    BY <1>1, <1>4, <2>1
<1>11. CASE C!Halt \/ C!Illegal \/ C!Stray
  BY <1>1, <1>11 DEF C!Halt, C!Illegal, C!Stray, C!Strays
<1>12. QED
  BY <1>5, <1>6, <1>7, <1>8, <1>9, <1>10, <1>11 DEF C!Next

\* The arithmetic of the Zig version computes what that of the other does.
LEMMA ZCompute ==
    ASSUME Z!Compute
    PROVE  /\ zstatus = "running" /\ Z!Translated(zpc) \in Addresses
           /\ Opcode(Z!instr) \in Arithmetic /\ Z!Increment
           /\ zreg' = Written(zreg, Dest(Z!instr), Result(zreg, Z!instr))
           /\ UNCHANGED <<zmem, zstatus>>
<1> DEFINE i == Z!instr
<1>1. Z!Increment /\ UNCHANGED <<zmem, zstatus>>
  BY DEF Z!Compute
<1>2. \E o \in Arithmetic : Z!Fetches({o})
  BY DEF Z!Compute, Arithmetic, Z!ADD, ADD, Z!ADDI, ADDI, Z!SUB, SUB, Z!SUBI, SUBI, Z!MUL, MUL,
         Z!SGE, SGE, Z!SGT, SGT, Z!SEQ, SEQ, Z!SEQI, SEQI
<1>3. zstatus = "running" /\ Z!Translated(zpc) \in Addresses /\ Opcode(i) \in Arithmetic
  BY <1>2, SameIsaZ DEF Z!Fetches
<1>4. zreg' = Written(zreg, Dest(i), Result(zreg, i))
  <2>1. \A o : Z!Fetches({o}) => Opcode(i) = o
    BY SameIsaZ DEF Z!Fetches
  <2> DEFINE W(w) == zreg' = Written(zreg, Dest(i), w)
  <2>2. \/ Opcode(i) = ADD  /\ W(Word(Src1(zreg, i) + Src2(zreg, i)))
        \/ Opcode(i) = ADDI /\ W(Word(Src1(zreg, i) + Constant(i)))
        \/ Opcode(i) = SUB  /\ W(Word(Src1(zreg, i) - Src2(zreg, i)))
        \/ Opcode(i) = SUBI /\ W(Word(Src1(zreg, i) - Constant(i)))
        \/ Opcode(i) = MUL  /\ W(Product(Word(Src1(zreg, i)), Word(Src2(zreg, i))))
        \/ Opcode(i) = SGE  /\ W(Truth(Src1(zreg, i) >= Src2(zreg, i)))
        \/ Opcode(i) = SGT  /\ W(Truth(Src1(zreg, i) > Src2(zreg, i)))
        \/ Opcode(i) = SEQ  /\ W(Truth(Src1(zreg, i) = Src2(zreg, i)))
        \/ Opcode(i) = SEQI /\ W(Truth(Src1(zreg, i) = Constant(i)))
    BY <2>1, ZView, SameIsaZ DEF Z!Compute, Z!Truth, Truth, Z!ADD, ADD, Z!ADDI, ADDI, Z!SUB, SUB,
       Z!SUBI, SUBI, Z!MUL, MUL, Z!SGE, SGE, Z!SGT, SGT, Z!SEQ, SEQ, Z!SEQI, SEQI
  <2>3. QED
    BY <2>2 DEF Result, ADD, ADDI, SUB, SUBI, MUL, SGE, SGT, SEQ, SEQI
<1>5. QED
  BY <1>1, <1>3, <1>4

LEMMA ZTypeStep == ASSUME Z!TypeOK, Z!Next PROVE Z!TypeOK'
<1>1. /\ zpc \in Words /\ zreg \in [Registers -> Words] /\ zmem \in [Addresses -> Words]
      /\ zstatus \in {"running", "halted", "panic"}
  BY SameIsaZ DEF Z!TypeOK
<1> SUFFICES /\ zpc' \in Words /\ zreg' \in [Registers -> Words] /\ zmem' \in [Addresses -> Words]
             /\ zstatus' \in {"running", "halted", "panic"}
  BY SameIsaZ DEF Z!TypeOK
<1> DEFINE i == Z!instr
<1>2. zpc + 1 \in Int
  BY <1>1, WordFacts
<1>3. Z!Increment => zpc' \in Words
  BY SameIsaZ DEF Z!Increment, Z!CanIncrement
<1>4. ASSUME Z!Translated(zpc) \in Addresses
      PROVE  /\ i \in Words /\ Dest(i) \in Registers
             /\ 0 <= Constant(i) => Constant(i) \in Words
             /\ Word(Src1(zreg, i)) \in Words /\ zreg[Dest(i)] \in Words
  <2>1. i \in Words
    BY <1>1, <1>4 DEF Z!instr
  <2>2. Src1(zreg, i) \in Int /\ Dest(i) \in Registers
    BY <1>1, <2>1, FieldFacts, WordFacts DEF Src1
  <2>3. QED
    BY <1>1, <2>1, <2>2, FieldFacts, WordFacts
<1>5. CASE Z!Compute
  <2>1. /\ Z!Translated(zpc) \in Addresses /\ Opcode(i) \in Arithmetic /\ Z!Increment
        /\ zreg' = Written(zreg, Dest(i), Result(zreg, i)) /\ UNCHANGED <<zmem, zstatus>>
    BY <1>5, ZCompute
  <2>2. QED
    BY <1>1, <1>3, <1>4, <2>1, ResultWord, WrittenWords
<1>6. CASE Z!Branch
  <2>1. /\ Z!Translated(zpc) \in Addresses /\ UNCHANGED <<zreg, zmem, zstatus>>
        /\ (0 <= Constant(i) /\ zpc' = Constant(i)) \/ Z!Increment
    BY <1>6, ZView, SameIsaZ DEF Z!Branch, Z!Fetches, Z!JumpsTo
  <2>2. QED
    BY <1>1, <1>3, <1>4, <2>1
<1>7. CASE Z!Load
  <2>1. /\ Z!Translated(zpc) \in Addresses /\ Z!effective \in Addresses /\ Z!Increment
        /\ zreg' = Written(zreg, Dest(i), zmem[Z!effective]) /\ UNCHANGED <<zmem, zstatus>>
    BY <1>7, ZView, SameIsaZ DEF Z!Load, Z!Fetches, Z!Reaches
  <2>2. QED
    BY <1>1, <1>3, <1>4, <2>1, WrittenWords
<1>8. CASE Z!Store
  <2>1. /\ Z!Translated(zpc) \in Addresses /\ Z!effective \in Addresses /\ Z!Increment
        /\ zmem' = [zmem EXCEPT ![Z!effective] = zreg[Dest(i)]] /\ UNCHANGED <<zreg, zstatus>>
    BY <1>8, ZView, SameIsaZ DEF Z!Store, Z!Fetches, Z!Reaches
  <2>2. QED
    BY <1>1, <1>3, <1>4, <2>1
<1>9. CASE Z!Call
  <2>1. /\ Z!Translated(zpc) \in Addresses /\ 0 <= Constant(i) /\ zpc' = Constant(i)
        /\ zreg' = Written(zreg, LINK, Word(zpc + 1)) /\ UNCHANGED <<zmem, zstatus>>
    BY <1>9, ZView, SameIsaZ DEF Z!Call, Z!Fetches, Z!JumpsTo
  <2>2. Word(zpc + 1) \in Words
    BY <1>2, WordFacts
  <2>3. QED
    BY <1>1, <1>4, <2>1, <2>2, WrittenWords, LinkRegister
<1>10. CASE Z!Jump
  <2>1. /\ Z!Translated(zpc) \in Addresses /\ zpc' = Word(Src1(zreg, i))
        /\ UNCHANGED <<zreg, zmem, zstatus>>
    BY <1>10, ZView, SameIsaZ DEF Z!Jump, Z!Fetches
  <2>2. QED
    BY <1>1, <1>4, <2>1
<1>11. CASE Z!Halt \/ Z!Panic
  BY <1>1, <1>11 DEF Z!Halt, Z!Panic
<1>12. QED
  BY <1>5, <1>6, <1>7, <1>8, <1>9, <1>10, <1>11 DEF Z!Next

\* The initial states have the types, and the machines differ where it is recorded.
LEMMA MachineInit == Init => TypeOK /\ VersionsAgree
<1> SUFFICES ASSUME Init
             PROVE  TypeOK /\ VersionsAgree
  OBVIOUS
<1>1. PICK start \in Starts : InitC(start) /\ InitZ(start)
  BY DEF Init
<1>2. /\ start.program \in Seq(Lines) /\ start.creg \in [Registers -> Words]
      /\ start.zreg \in [Registers -> Words] /\ start.zmem \in Memories
  BY StartsAssumption DEF RegisterFiles
<1>3. Zeroed \in Memories /\ 0 \in Words /\ 0 \in Registers
  BY WordFacts, LinkRegister DEF Zeroed, Memories
<1>4. /\ cpc = 0 /\ cstatus = "running" /\ creg = [start.creg EXCEPT ![0] = 0]
      /\ cmem = Loaded(start.program, Zeroed)
      /\ zpc = 0 /\ zstatus = "running" /\ zreg = start.zreg
      /\ zmem = Loaded(start.program, start.zmem)
  BY <1>1 DEF InitC, InitZ
<1>5. cmem \in [Addresses -> Words] /\ zmem \in [Addresses -> Words]
  BY <1>2, <1>3, <1>4, LoadedWords DEF Memories
<1>6. C!TypeOK
  BY <1>2, <1>3, <1>4, <1>5, SameIsaC DEF C!TypeOK
<1>7. Z!TypeOK
  BY <1>2, <1>3, <1>4, <1>5, SameIsaZ DEF Z!TypeOK
<1>8. /\ regsApart = {r \in Registers : creg[r] # zreg[r]}
      /\ wordsApart = {a \in Addresses : cmem[a] # zmem[a]}
      /\ guessed = FALSE
  BY DEF Init, InitHistory
<1>9. QED
  BY <1>4, <1>6, <1>7, <1>8 DEF TypeOK, VersionsAgree, Same

LEMMA MachineTypeStep == TypeOK /\ [Next]_vars => TypeOK'
<1> SUFFICES ASSUME TypeOK, [Next]_vars
             PROVE  TypeOK'
  OBVIOUS
<1>1. C!TypeOK'
  <2>1. CASE UNCHANGED <<cpc, creg, cmem, cstatus>>
    BY <2>1 DEF TypeOK, C!TypeOK
  <2>2. CASE C!Next
    BY <2>2, CTypeStep DEF TypeOK
  <2>3. QED
    BY <2>1, <2>2 DEF Next, StepC, vars, machines
<1>2. Z!TypeOK'
  <2>1. CASE UNCHANGED <<zpc, zreg, zmem, zstatus>>
    BY <2>1 DEF TypeOK, Z!TypeOK
  <2>2. CASE Z!Next
    BY <2>2, ZTypeStep DEF TypeOK
  <2>3. QED
    BY <2>1, <2>2 DEF Next, StepZ, vars, machines
<1>3. (regsApart \subseteq Registers /\ wordsApart \subseteq Addresses /\ guessed \in BOOLEAN)'
  <2>1. CASE UNCHANGED history
    BY <2>1 DEF TypeOK, history
  <2>2. CASE Recorded
    BY <2>2 DEF TypeOK, Recorded
  <2>3. QED
    BY <2>1, <2>2 DEF Next, Record, vars
<1>4. QED
  BY <1>1, <1>2, <1>3 DEF TypeOK

-----------------------------------------------------------------------------
(* What the two machines have in common.                                    *)

\* Register files that are the same but in apart, after the same writeback.
LEMMA WrittenApart ==
    ASSUME NEW r1 \in [Registers -> Words], NEW r2 \in [Registers -> Words], NEW apart,
           \A r \in Registers \ apart : r1[r] = r2[r],
           NEW d \in Registers, NEW w,
           NEW r \in Registers, r \notin apart \/ (r = d /\ r # 0)
    PROVE  Written(r1, d, w)[r] = Written(r2, d, w)[r]
BY DEF Written

\* The registers and the word that the instruction in C reads and writes.
LEMMA ReadsAndWrites ==
    ASSUME TypeOK, cpc \in Addresses
    PROVE  LET i == cmem[cpc] IN
           /\ cpc \in WordsRead
           /\ Opcode(i) \in (Arithmetic \cup {BT, BF, LD, ST, JMP}) => Source1(i) \in RegistersRead
           /\ Opcode(i) \in {ADD, SUB, MUL, SGE, SGT, SEQ} => Source2(i) \in RegistersRead
           /\ Opcode(i) = ST => Dest(i) \in RegistersRead
           /\ Opcode(i) = LD /\ C!effective \in Addresses => C!effective \in WordsRead
           /\ \A r \in RegistersWritten :
                 \/ Opcode(i) \in (Arithmetic \cup {LD}) /\ r = Dest(i) /\ r # 0
                 \/ Opcode(i) = CALL /\ r = LINK /\ r # 0
           /\ \A a \in WordsWritten : Opcode(i) = ST /\ a = C!effective
<1> DEFINE i == cmem[cpc]
<1>1. i \in Words
  BY SameIsaC DEF TypeOK, C!TypeOK
<1>2. Source1(i) \in Registers /\ Source2(i) \in Registers /\ Dest(i) \in Registers
  BY <1>1, FieldFacts
<1>3. C!op = Opcode(i) /\ C!dest_reg = Dest(i)
  BY CView
<1>4. QED
  BY <1>2, <1>3 DEF WordsRead, RegistersRead, RegistersWritten, WordsWritten

\* What the two machines read is the same, if the program does not guess.
LEMMA NoGuess ==
    ASSUME TypeOK, Same, cpc \in Addresses, Recorded, ~guessed'
    PROVE  LET i == cmem[cpc] IN
           /\ zmem[cpc] = i
           /\ Opcode(i) \in (Arithmetic \cup {BT, BF, LD, ST, JMP}) => Src1(zreg, i) = Src1(creg, i)
           /\ Opcode(i) \in Arithmetic => Result(zreg, i) = Result(creg, i)
           /\ Opcode(i) = ST => zreg[Dest(i)] = creg[Dest(i)]
           /\ Opcode(i) = LD /\ C!effective \in Addresses => zmem[C!effective] = cmem[C!effective]
<1> DEFINE i == cmem[cpc]
<1>1. RegistersRead \cap regsApart = {} /\ WordsRead \cap wordsApart = {}
  BY DEF Recorded
<1>2. /\ \A r \in RegistersRead : creg[r] = zreg[r]
      /\ \A a \in WordsRead : cmem[a] = zmem[a]
  <2>1. RegistersRead \subseteq Registers /\ WordsRead \subseteq Addresses
    BY DEF RegistersRead, WordsRead
  <2>2. QED
    BY <1>1, <2>1 DEF Same
<1>3. /\ cpc \in WordsRead
      /\ Opcode(i) \in (Arithmetic \cup {BT, BF, LD, ST, JMP}) => Source1(i) \in RegistersRead
      /\ Opcode(i) \in {ADD, SUB, MUL, SGE, SGT, SEQ} => Source2(i) \in RegistersRead
      /\ Opcode(i) = ST => Dest(i) \in RegistersRead
      /\ Opcode(i) = LD /\ C!effective \in Addresses => C!effective \in WordsRead
  BY ReadsAndWrites
<1>4. Opcode(i) \in (Arithmetic \cup {BT, BF, LD, ST, JMP}) => Src1(zreg, i) = Src1(creg, i)
  BY <1>2, <1>3 DEF Src1
<1>5. Opcode(i) \in {ADD, SUB, MUL, SGE, SGT, SEQ} => Src2(zreg, i) = Src2(creg, i)
  BY <1>2, <1>3 DEF Src2
<1>6. ASSUME Opcode(i) \in Arithmetic
      PROVE  Result(zreg, i) = Result(creg, i)
  <2>1. Src1(zreg, i) = Src1(creg, i)
    BY <1>4, <1>6
  <2>2. CASE Opcode(i) \in {ADD, SUB, MUL, SGE, SGT, SEQ}
    BY <1>5, <2>1, <2>2 DEF Result
  <2>3. CASE Opcode(i) \in {ADDI, SUBI, SEQI}
    BY <2>1, <2>3 DEF Result, ADD, ADDI, SUB, SUBI, MUL, SGE, SGT, SEQ, SEQI
  <2>4. QED
    BY <1>6, <2>2, <2>3 DEF Arithmetic
<1>7. QED
  BY <1>2, <1>3, <1>4, <1>6

\* One instruction, the same on both machines, that does not guess.
LEMMA SameStep ==
    ASSUME TypeOK, Same, cstatus = "running", C!Next, Z!Next, Record, ~guessed',
           cstatus' # "stray", zstatus' # "panic"
    PROVE  Same'
<1> DEFINE i == cmem[cpc]
<1>1. /\ zpc = cpc /\ zstatus = "running"
      /\ \A r \in Registers \ regsApart : creg[r] = zreg[r]
      /\ \A a \in Addresses \ wordsApart : cmem[a] = zmem[a]
  BY DEF Same
<1>2. /\ cpc \in Words /\ creg \in [Registers -> Words] /\ cmem \in [Addresses -> Words]
      /\ zreg \in [Registers -> Words] /\ zmem \in [Addresses -> Words]
  BY SameIsaC, SameIsaZ DEF TypeOK, C!TypeOK, Z!TypeOK
<1>3. cpc \in Addresses
  BY SameIsaC DEF C!Next, C!Compute, C!Branch, C!Load, C!Store, C!Call, C!Jump, C!Halt, C!Illegal,
     C!Stray, C!Strays, C!Fetches
<1>4. Recorded
  BY <1>3 DEF Record
<1>5. /\ zmem[cpc] = i
      /\ Opcode(i) \in (Arithmetic \cup {BT, BF, LD, ST, JMP}) => Src1(zreg, i) = Src1(creg, i)
      /\ Opcode(i) \in Arithmetic => Result(zreg, i) = Result(creg, i)
      /\ Opcode(i) = ST => zreg[Dest(i)] = creg[Dest(i)]
      /\ Opcode(i) = LD /\ C!effective \in Addresses => zmem[C!effective] = cmem[C!effective]
  BY <1>3, <1>4, NoGuess
<1>6. Z!Translated(zpc) = cpc /\ Z!instr = i
  BY <1>1, <1>3, <1>5, TranslatedNear DEF Z!instr
<1>7. ~C!Stray /\ ~Z!Panic
  BY DEF C!Stray, C!Strays, Z!Panic
<1>8. /\ i \in Words /\ (0 <= Constant(i) => Word(Constant(i)) = Constant(i))
      /\ Dest(i) \in Registers
  BY <1>2, <1>3, FieldFacts, WordFacts
<1>9. ASSUME Z!Increment, C!Increment
      PROVE  zpc' = cpc'
  <2>1. zpc' = zpc + 1 /\ zpc + 1 \in Words /\ cpc' = Word(cpc + 1)
    BY <1>9, SameIsaC, SameIsaZ DEF Z!Increment, Z!CanIncrement, C!Increment
  <2>2. QED
    BY <1>1, <2>1, WordFacts
<1>10. /\ \A r \in Registers : r \notin regsApart' => r \notin regsApart \/ r \in RegistersWritten
       /\ \A a \in Addresses : a \notin wordsApart' => a \notin wordsApart \/ a \in WordsWritten
  BY <1>4 DEF Recorded
<1>11. /\ \A r \in RegistersWritten :
             \/ Opcode(i) \in (Arithmetic \cup {LD}) /\ r = Dest(i) /\ r # 0
             \/ Opcode(i) = CALL /\ r = LINK /\ r # 0
       /\ \A a \in WordsWritten : Opcode(i) = ST /\ a = C!effective
  BY <1>3, ReadsAndWrites
<1> DEFINE SameRegs == \A r \in Registers \ regsApart : creg[r] = zreg[r]
           SameMem  == \A a \in Addresses \ wordsApart : cmem[a] = zmem[a]
<1>12. ASSUME UNCHANGED <<creg, zreg>>, Opcode(i) \notin Arithmetic \cup {LD, CALL}
       PROVE  SameRegs'
  BY <1>1, <1>10, <1>11, <1>12
<1>13. ASSUME UNCHANGED <<cmem, zmem>>, Opcode(i) # ST
       PROVE  SameMem'
  BY <1>1, <1>10, <1>11, <1>13
<1>14. ASSUME NEW d \in Registers, NEW w,
              creg' = Written(creg, d, w), zreg' = Written(zreg, d, w),
              \A r \in RegistersWritten : r = d /\ r # 0
       PROVE  SameRegs'
  <2> SUFFICES ASSUME NEW r \in Registers, r \notin regsApart'
               PROVE  creg'[r] = zreg'[r]
    OBVIOUS
  <2>1. r \notin regsApart \/ (r = d /\ r # 0)
    BY <1>10, <1>14
  <2>2. Written(creg, d, w)[r] = Written(zreg, d, w)[r]
    BY <1>1, <1>2, <2>1, WrittenApart
  <2>3. QED
    BY <1>14, <2>2
<1>15. ASSUME zpc' = cpc', zstatus' = cstatus', SameRegs', SameMem'
       PROVE  Same'
  BY <1>15 DEF Same
<1> HIDE DEF SameRegs, SameMem
<1>16. ASSUME NEW ops
       PROVE  /\ C!Fetches(ops) <=> Opcode(i) \in ops
              /\ Z!Fetches(ops) <=> Opcode(i) \in ops
  BY <1>1, <1>3, <1>6, SameIsaC, SameIsaZ DEF C!Fetches, Z!Fetches
<1>17. /\ C!Compute => Opcode(i) \in Arithmetic
       /\ C!Branch => Opcode(i) \in Branches
       /\ C!Load => Opcode(i) = LD
       /\ C!Store => Opcode(i) = ST
       /\ C!Call => Opcode(i) = CALL
       /\ C!Jump => Opcode(i) = JMP
       /\ C!Halt => Opcode(i) = HALT
       /\ C!Illegal => Opcode(i) > HALT
  BY <1>16, CView, SameIsaC DEF C!Compute, C!Branch, C!Load, C!Store, C!Call, C!Jump, C!Halt, C!Illegal,
     C!LD, LD, C!ST, ST, C!CALL, CALL, C!JMP, JMP, C!HALT, HALT
<1>18. /\ Z!Compute => Opcode(i) \in Arithmetic
       /\ Z!Branch => Opcode(i) \in Branches
       /\ Z!Load => Opcode(i) = LD
       /\ Z!Store => Opcode(i) = ST
       /\ Z!Call => Opcode(i) = CALL
       /\ Z!Jump => Opcode(i) = JMP
       /\ Z!Halt => Opcode(i) = HALT
  BY <1>6, <1>16, ZCompute, SameIsaZ DEF Z!Branch, Z!Load, Z!Store, Z!Call, Z!Jump, Z!Halt,
     Z!LD, LD, Z!ST, ST, Z!CALL, CALL, Z!JMP, JMP, Z!HALT, HALT
<1>19. /\ ADD = 0 /\ ADDI = 1 /\ SUB = 2 /\ SUBI = 3 /\ SGE = 4 /\ SGT = 5 /\ SEQ = 6
       /\ BT = 7 /\ BF = 8 /\ BA = 9 /\ ST = 10 /\ LD = 11 /\ CALL = 12 /\ JMP = 13
       /\ MUL = 14 /\ SEQI = 15 /\ HALT = 16
  BY DEF ADD, ADDI, SUB, SUBI, SGE, SGT, SEQ, BT, BF, BA, ST, LD, CALL, JMP, MUL, SEQI, HALT
<1>20. \/ C!Compute /\ Z!Compute
       \/ C!Branch /\ Z!Branch
       \/ C!Load /\ Z!Load
       \/ C!Store /\ Z!Store
       \/ C!Call /\ Z!Call
       \/ C!Jump /\ Z!Jump
       \/ C!Halt /\ Z!Halt
  BY <1>7, <1>17, <1>18, <1>19 DEF C!Next, Z!Next, Arithmetic, Branches
<1>21. CASE C!Compute /\ Z!Compute
  <2>1. Opcode(i) \in Arithmetic /\ Opcode(i) # ST /\ Opcode(i) # CALL
    BY <1>17, <1>19, <1>21 DEF Arithmetic
  <2>2. /\ creg' = Written(creg, Dest(i), Result(creg, i)) /\ C!Increment
        /\ UNCHANGED <<cmem, cstatus>>
    BY <1>21, CView DEF C!Compute
  <2>3. /\ zreg' = Written(zreg, Dest(i), Result(creg, i)) /\ Z!Increment
        /\ UNCHANGED <<zmem, zstatus>>
    BY <1>5, <1>6, <1>21, <2>1, ZCompute
  <2>4. SameRegs'
    BY <1>8, <1>11, <1>14, <2>1, <2>2, <2>3
  <2>5. SameMem'
    BY <1>13, <2>1, <2>2, <2>3
  <2>6. QED
    BY <1>1, <1>9, <1>15, <2>2, <2>3, <2>4, <2>5
<1>22. CASE C!Branch /\ Z!Branch
  <2>1. Opcode(i) \in Branches /\ Opcode(i) # ST /\ Opcode(i) \notin Arithmetic \cup {LD, CALL}
    BY <1>17, <1>19, <1>22 DEF Branches, Arithmetic
  <2>2. C!Taken <=> Z!Taken
    <3>1. C!Taken <=> \/ Opcode(i) = BA
                      \/ Opcode(i) = BT /\ Src1(creg, i) # 0
                      \/ Opcode(i) = BF /\ Src1(creg, i) = 0
      BY CView DEF C!Taken, C!BA, BA, C!BT, BT, C!BF, BF
    <3>2. Z!Taken <=> \/ Opcode(i) = BA
                      \/ Opcode(i) = BT /\ Src1(zreg, i) # 0
                      \/ Opcode(i) = BF /\ Src1(zreg, i) = 0
      BY <1>6, <1>16, ZView DEF Z!Taken, Z!BA, BA, Z!BT, BT, Z!BF, BF
    <3>3. Opcode(i) \in {BT, BF} => Src1(zreg, i) = Src1(creg, i)
      BY <1>5
    <3>4. QED
      BY <3>1, <3>2, <3>3
  <2>3. /\ IF C!Taken THEN cpc' = Word(Constant(i)) ELSE C!Increment
        /\ UNCHANGED <<creg, cmem, cstatus>>
    BY <1>22, CView, SameIsaC DEF C!Branch
  <2>4. /\ IF Z!Taken THEN 0 <= Constant(i) /\ zpc' = Constant(i) ELSE Z!Increment
        /\ UNCHANGED <<zreg, zmem, zstatus>>
    BY <1>6, <1>22, ZView DEF Z!Branch, Z!JumpsTo
  <2>5. zpc' = cpc'
    BY <1>8, <1>9, <2>2, <2>3, <2>4
  <2>6. SameRegs' /\ SameMem'
    BY <1>12, <1>13, <2>1, <2>3, <2>4
  <2>7. QED
    BY <1>1, <1>15, <2>3, <2>4, <2>5, <2>6
<1>23. CASE (C!Load /\ Z!Load) \/ (C!Store /\ Z!Store)
  <2>1. Opcode(i) \in {LD, ST}
    BY <1>17, <1>23
  <2>2. C!effective \in Addresses /\ Z!effective = C!effective /\ C!Increment /\ Z!Increment
    <3>1. C!effective \in Addresses /\ C!Increment /\ Z!Increment
      BY <1>23, SameIsaC DEF C!Load, C!Store, Z!Load, Z!Store
    <3>2. Src1(zreg, i) = Src1(creg, i)
      BY <1>5, <2>1
    <3>3. Z!effective = Z!Translated(C!effective)
      BY <1>6, <3>2, CView, ZView
    <3>4. QED
      BY <3>1, <3>3, TranslatedNear
  <2>3. CASE C!Load /\ Z!Load
    <3>1. Opcode(i) = LD /\ Opcode(i) # ST /\ Opcode(i) # CALL
      BY <1>17, <1>19, <2>3
    <3>2. /\ creg' = Written(creg, Dest(i), cmem[C!effective]) /\ UNCHANGED <<cmem, cstatus>>
      BY <2>3, CView DEF C!Load
    <3>3. /\ zreg' = Written(zreg, Dest(i), cmem[C!effective]) /\ UNCHANGED <<zmem, zstatus>>
      BY <1>5, <1>6, <2>2, <2>3, <3>1, ZView DEF Z!Load
    <3>4. SameRegs'
      BY <1>8, <1>11, <1>14, <3>1, <3>2, <3>3
    <3>5. SameMem'
      BY <1>13, <3>1, <3>2, <3>3
    <3>6. QED
      BY <1>1, <1>9, <1>15, <2>2, <3>2, <3>3, <3>4, <3>5
  <2>4. CASE C!Store /\ Z!Store
    <3>1. Opcode(i) = ST /\ Opcode(i) \notin Arithmetic \cup {LD, CALL}
      BY <1>17, <1>19, <2>4 DEF Arithmetic
    <3>2. /\ cmem' = [cmem EXCEPT ![C!effective] = creg[Dest(i)]] /\ UNCHANGED <<creg, cstatus>>
      BY <2>4, CView DEF C!Store
    <3>3. /\ zmem' = [zmem EXCEPT ![C!effective] = creg[Dest(i)]] /\ UNCHANGED <<zreg, zstatus>>
      BY <1>5, <1>6, <2>2, <2>4, <3>1, ZView DEF Z!Store
    <3>4. SameRegs'
      BY <1>12, <3>1, <3>2, <3>3
    <3>5. SameMem'
      <4> SUFFICES ASSUME NEW a \in Addresses, a \notin wordsApart'
                   PROVE  cmem'[a] = zmem'[a]
        BY DEF SameMem
      <4>1. a \notin wordsApart \/ a = C!effective
        BY <1>10, <1>11
      <4>2. QED
        BY <1>1, <1>2, <2>2, <3>2, <3>3, <4>1
    <3>6. QED
      BY <1>1, <1>9, <1>15, <2>2, <3>2, <3>3, <3>4, <3>5
  <2>5. QED
    BY <1>23, <2>3, <2>4
<1>24. CASE C!Call /\ Z!Call
  <2>1. Opcode(i) = CALL /\ Opcode(i) # ST /\ Opcode(i) \notin Arithmetic \cup {LD}
    BY <1>17, <1>19, <1>24 DEF Arithmetic
  <2>2. /\ creg' = Written(creg, LINK, Word(cpc + 1)) /\ cpc' = Word(Constant(i))
        /\ UNCHANGED <<cmem, cstatus>>
    BY <1>24, CView, SameIsaC DEF C!Call
  <2>3. /\ zreg' = Written(zreg, LINK, Word(cpc + 1)) /\ 0 <= Constant(i) /\ zpc' = Constant(i)
        /\ UNCHANGED <<zmem, zstatus>>
    BY <1>1, <1>6, <1>24, ZView, SameIsaZ DEF Z!Call, Z!JumpsTo
  <2>4. SameRegs'
    BY <1>11, <1>14, <2>1, <2>2, <2>3, LinkRegister
  <2>5. SameMem'
    BY <1>13, <2>1, <2>2, <2>3
  <2>6. QED
    BY <1>1, <1>8, <1>15, <2>2, <2>3, <2>4, <2>5
<1>25. CASE C!Jump /\ Z!Jump
  <2>1. Opcode(i) = JMP /\ Opcode(i) # ST /\ Opcode(i) \notin Arithmetic \cup {LD, CALL}
    BY <1>17, <1>19, <1>25 DEF Arithmetic
  <2>2. cpc' = Word(Src1(creg, i)) /\ UNCHANGED <<creg, cmem, cstatus>>
    BY <1>25, CView, SameIsaC DEF C!Jump
  <2>3. zpc' = Word(Src1(creg, i)) /\ UNCHANGED <<zreg, zmem, zstatus>>
    BY <1>5, <1>6, <1>25, <2>1, ZView, SameIsaZ DEF Z!Jump
  <2>4. SameRegs' /\ SameMem'
    BY <1>12, <1>13, <2>1, <2>2, <2>3
  <2>5. QED
    BY <1>1, <1>15, <2>2, <2>3, <2>4
<1>26. CASE C!Halt /\ Z!Halt
  <2>1. Opcode(i) = HALT /\ Opcode(i) # ST /\ Opcode(i) \notin Arithmetic \cup {LD, CALL}
    BY <1>17, <1>19, <1>26 DEF Arithmetic
  <2>2. /\ cstatus' = "halted" /\ UNCHANGED <<cpc, creg, cmem>>
        /\ zstatus' = "halted" /\ UNCHANGED <<zpc, zreg, zmem>>
    BY <1>26 DEF C!Halt, Z!Halt
  <2>3. SameRegs' /\ SameMem'
    BY <1>12, <1>13, <2>1, <2>2
  <2>4. QED
    BY <1>1, <1>15, <2>2, <2>3
<1>27. QED
  BY <1>20, <1>21, <1>22, <1>23, <1>24, <1>25, <1>26

\* A program that has guessed once has guessed.
LEMMA GuessedStays == TypeOK /\ [Next]_vars => (guessed => guessed')
<1> SUFFICES ASSUME TypeOK, [Next]_vars, guessed
             PROVE  guessed'
  OBVIOUS
<1>1. CASE UNCHANGED history
  BY <1>1 DEF history
<1>2. CASE Recorded
  BY <1>2 DEF Recorded
<1>3. QED
  BY <1>1, <1>2 DEF Next, Record, vars

LEMMA VersionsStep == TypeOK /\ VersionsAgree /\ [Next]_vars => VersionsAgree'
<1> SUFFICES ASSUME TypeOK, VersionsAgree, [Next]_vars,
                    ~guessed', zstatus' # "panic", cstatus' # "stray"
             PROVE  Same'
  BY DEF VersionsAgree
<1>1. CASE UNCHANGED vars
  BY <1>1 DEF vars, machines, history, VersionsAgree, Same
<1>2. CASE Next
  <2>1. ~guessed
    BY GuessedStays
  <2>2. zstatus # "panic" /\ cstatus # "stray"
    BY <1>2 DEF Next, StepC, StepZ
  <2>3. Same
    BY <2>1, <2>2 DEF VersionsAgree
  <2>4. cstatus = "running" /\ zstatus = "running"
    BY <1>2, <2>3 DEF Same, Next
  <2>5. QED
    BY <1>2, <2>3, <2>4, SameStep DEF Next, StepC, StepZ
<1>3. QED
  BY <1>1, <1>2

\* A number that is short of a word by less than one is itself, one word on.
LEMMA Residues ==
    ASSUME NEW m \in Nat, NEW x \in Int
    PROVE  /\ x \in 0 .. (m - 1) => x % m = x
           /\ x + m \in 0 .. (m - 1) => x % m = x + m
<1>1. CASE x \in 0 .. (m - 1)
  BY <1>1
<1>2. CASE x + m \in 0 .. (m - 1)
  BY <1>2
<1>3. QED
  BY <1>1, <1>2

\* What a panic of the Zig version stands for.
LEMMA PanicStep ==
    ASSUME TypeOK, Next, VersionsAgree, zstatus = "running", zstatus' = "panic", ~guessed'
    PROVE  \/ cstatus' \in {"stray", "illegal"}
           \/ cpc' \notin Addresses
           \/ C!op = SEQI /\ ~FitsConstant(C!source1)
<1> SUFFICES ASSUME cstatus # "stray"
             PROVE  \/ cstatus' \in {"stray", "illegal"}
                    \/ cpc' \notin Addresses
                    \/ C!op = SEQI /\ ~FitsConstant(C!source1)
  BY DEF Next, StepC
<1> DEFINE i == cmem[cpc]
           k == Constant(i)
           s1 == Src1(creg, i)
<1>0. Same
  BY GuessedStays DEF VersionsAgree
<1>1. /\ zpc = cpc /\ zstatus = cstatus
      /\ cpc \in Words /\ creg \in [Registers -> Words] /\ cmem \in [Addresses -> Words]
      /\ zstatus \in {"running", "halted", "panic"}
      /\ cstatus \in {"running", "halted", "illegal", "stray"}
  BY <1>0, SameIsaC, SameIsaZ DEF TypeOK, C!TypeOK, Z!TypeOK, Same
<1>2. cstatus = "running" /\ C!Next /\ Z!Next
  BY <1>1 DEF Next, StepC, StepZ
<1>3. Z!Panic
  <2>1. zstatus' # zstatus /\ zstatus' # "halted"
    BY <1>1, <1>2
  <2>2. QED
    BY <1>2, <2>1 DEF Z!Next, Z!Compute, Z!Branch, Z!Load, Z!Store, Z!Call, Z!Jump, Z!Halt
<1>4. CASE cpc \notin Addresses
  <2>1. C!Stray
    BY <1>2, <1>4, SameIsaC DEF C!Next, C!Compute, C!Branch, C!Load, C!Store, C!Call, C!Jump, C!Halt,
       C!Illegal, C!Fetches
  <2>2. QED
    BY <2>1 DEF C!Stray, C!Strays
<1>5. CASE cpc \in Addresses
  <2>0. /\ zmem[cpc] = i
        /\ Opcode(i) \in (Arithmetic \cup {BT, BF, LD, ST, JMP}) => Src1(zreg, i) = s1
    <3>1. Recorded
      BY <1>2, <1>5 DEF Next, Record
    <3>2. QED
      BY <1>0, <1>5, <3>1, NoGuess
  <2>1. Z!Translated(zpc) = cpc /\ Z!instr = i
    BY <1>1, <1>5, <2>0, TranslatedNear DEF Z!instr
  <2>2. /\ i \in Words /\ k \in Int /\ -CONSTS <= 2 * k /\ 2 * k < CONSTS
        /\ s1 \in Int /\ -WORD <= 2 * s1 /\ 2 * s1 < WORD
    <3>1. i \in Words
      BY <1>1, <1>5
    <3>2. i % CONSTS \in 0 .. (CONSTS - 1) /\ CONSTS \in Nat /\ k \in Int
      BY <3>1, IsaAssumption, WordFacts, FieldFacts
    <3>3. -CONSTS <= 2 * k /\ 2 * k < CONSTS
      BY <3>2 DEF Constant
    <3>4. creg[Source1(i)] \in Words
      BY <1>1, <3>1, FieldFacts
    <3>5. s1 \in Int /\ -WORD <= 2 * s1 /\ 2 * s1 < WORD
      <4> HIDE DEF WORD
      <4>1. WORD \in Nat /\ creg[Source1(i)] \in 0 .. (WORD - 1)
        BY <3>4, WordFacts DEF Words
      <4>2. QED
        BY <4>1 DEF Src1, Signed
    <3>6. QED
      BY <3>1, <3>2, <3>3, <3>5
  <2> HIDE DEF k, s1
  <2>3. /\ Addresses = 0 .. (NPAGES * PAGESIZE - 1) /\ NPAGES * PAGESIZE \in Nat
        /\ 2 * (NPAGES * PAGESIZE) + CONSTS <= WORD /\ WORD \in Nat /\ CONSTS \in Nat
        /\ Words = 0 .. (WORD - 1)
    BY IsaAssumption DEF Addresses, Words
  <2> DEFINE n == NPAGES * PAGESIZE
  <2>4. n \in Nat /\ 2 * n + CONSTS <= WORD /\ Addresses = 0 .. (n - 1)
    BY <2>3
  <2> HIDE DEF n
  <2>5. ASSUME NEW ops
        PROVE  /\ C!Fetches(ops) <=> Opcode(i) \in ops
               /\ Z!Fetches(ops) <=> Opcode(i) \in ops
    BY <1>1, <1>2, <1>5, <2>1, SameIsaC, SameIsaZ DEF C!Fetches, Z!Fetches
  <2>6. CASE Opcode(i) > HALT
    <3>1. ~C!Compute /\ ~C!Branch /\ ~C!Load /\ ~C!Store /\ ~C!Call /\ ~C!Jump /\ ~C!Halt
      BY <2>5, <2>6, SameIsaC DEF C!Compute, C!Branch, C!Load, C!Store, C!Call, C!Jump, C!Halt,
         Arithmetic, Branches, ADD, ADDI, SUB, SUBI, MUL, SGE, SGT, SEQ, SEQI, BT, BF, BA,
         C!LD, C!ST, C!CALL, C!JMP, C!HALT, HALT
    <3>2. QED
      BY <1>2, <3>1 DEF C!Next, C!Illegal, C!Stray, C!Strays
  <2>7. CASE Z!Fetches({Z!LD, Z!ST}) /\ ~Z!Reaches
    <3>1. Opcode(i) \in {LD, ST}
      BY <2>5, <2>7 DEF Z!LD, LD, Z!ST, ST
    <3>2. C!effective \notin Addresses
      <4> SUFFICES ASSUME C!effective \in Addresses
                   PROVE  FALSE
        OBVIOUS
      <4>0. Src1(zreg, i) = s1
        BY <2>0, <3>1
      <4>1. Z!effective = C!effective
        BY <2>1, <4>0, CView, ZView, TranslatedNear DEF s1
      <4>2. ~Z!IsInt(s1 + k)
        BY <2>1, <2>7, <4>0, <4>1, ZView, SameIsaZ DEF Z!Reaches, k
      <4>3. ~(-WORD <= 2 * (s1 + k) /\ 2 * (s1 + k) < WORD)
        BY <4>2, SameIsaZ DEF Z!IsInt
      <4>4. (s1 + k) % WORD \in 0 .. (n - 1)
        BY <2>4, CView DEF Word, k, s1
      <4>5. CASE 2 * (s1 + k) < -WORD
        <5> HIDE DEF WORD
        <5>1. s1 + k + WORD \in 0 .. (WORD - 1) /\ 2 * (s1 + k + WORD) >= WORD - CONSTS
          BY <2>2, <2>3, <4>5
        <5>2. (s1 + k) % WORD = s1 + k + WORD
          <6>1. WORD \in Nat /\ s1 + k \in Int
            BY <2>2, <2>3
          <6>2. (s1 + k) + WORD \in 0 .. (WORD - 1)
            BY <2>2, <2>3, <5>1
          <6>3. QED
            BY <6>1, <6>2, Residues
        <5>3. QED
          BY <2>3, <2>4, <4>4, <5>1, <5>2
      <4>6. CASE 2 * (s1 + k) >= WORD
        <5> HIDE DEF WORD
        <5>1. s1 + k \in 0 .. (WORD - 1)
          BY <2>2, <2>3, <4>6
        <5>2. (s1 + k) % WORD = s1 + k
          <6>1. WORD \in Nat /\ s1 + k \in Int
            BY <2>2, <2>3
          <6>2. QED
            BY <5>1, <6>1, Residues
        <5>3. QED
          BY <2>2, <2>3, <2>4, <4>4, <4>6, <5>2
      <4>7. QED
        BY <2>2, <2>3, <4>3, <4>5, <4>6
    <3>3. C!Stray
      BY <1>2, <2>5, <3>1, <3>2, CView, SameIsaC DEF C!Next, C!Compute, C!Branch, C!Load, C!Store, C!Call,
         C!Jump, C!Halt, C!Illegal, Arithmetic, Branches, ADD, ADDI, SUB, SUBI, MUL, SGE, SGT, SEQ, SEQI,
         BT, BF, BA, C!LD, LD, C!ST, ST, C!CALL, C!JMP, C!HALT, HALT
    <3>4. QED
      BY <3>3 DEF C!Stray, C!Strays
  <2>8. CASE Z!NarrowsTooMuch
    <3>1. Opcode(i) = SEQI
      BY <2>5, <2>8 DEF Z!NarrowsTooMuch, Z!SEQI, SEQI
    <3>2. Src1(zreg, i) = s1
      BY <2>0, <3>1 DEF Arithmetic
    <3>3. ~FitsConstant(Src1(creg, i))
      BY <2>1, <2>8, <3>2, ZView DEF Z!NarrowsTooMuch, Z!FitsConstant, FitsConstant, s1
    <3>4. QED
      BY <3>1, <3>3, CView
  <2>9. CASE Z!JumpsBelowZero
    <3>1. k < 0 /\ (Z!Taken \/ Opcode(i) = CALL)
      BY <2>1, <2>5, <2>9, ZView DEF Z!JumpsBelowZero, Z!CALL, CALL, k
    <3>2. Z!Taken => Opcode(i) \in Branches /\ C!Taken
      <4>1. Opcode(i) \in {BT, BF} => Src1(zreg, i) = Src1(creg, i)
        BY <2>0 DEF s1
      <4>2. Z!Taken => \/ Opcode(i) = BA
                       \/ Opcode(i) = BT /\ Src1(zreg, i) # 0
                       \/ Opcode(i) = BF /\ Src1(zreg, i) = 0
        BY <2>1, <2>5, ZView DEF Z!Taken, Z!BA, BA, Z!BT, BT, Z!BF, BF
      <4>3. QED
        BY <4>1, <4>2, CView DEF C!Taken, Branches, C!BA, BA, C!BT, BT, C!BF, BF
    <3>3. cpc' = Word(k)
      <4>1. Opcode(i) \in Branches \cup {CALL}
        BY <3>1, <3>2
      <4>2. C!Branch \/ C!Call
        BY <1>2, <1>5, <2>5, <4>1, CView, SameIsaC DEF C!Next, C!Compute, C!Load, C!Store, C!Jump, C!Halt,
           C!Illegal, C!Stray, Arithmetic, Branches, ADD, ADDI, SUB, SUBI, MUL, SGE, SGT, SEQ, SEQI,
           BT, BF, BA, CALL, C!LD, C!ST, C!JMP, C!HALT, HALT
      <4>3. CASE C!Call
        BY <4>3, CView, SameIsaC DEF C!Call, k
      <4>4. CASE C!Branch
        <5>1. Opcode(i) \in Branches
          BY <2>5, <4>4, SameIsaC DEF C!Branch
        <5>2. C!Taken
          BY <3>1, <3>2, <5>1 DEF Branches, BA, BT, BF, CALL
        <5>3. QED
          BY <4>4, <5>2, CView, SameIsaC DEF C!Branch, k
      <4>5. QED
        BY <4>2, <4>3, <4>4
    <3>4. Word(k) \notin Addresses
      <4> HIDE DEF WORD
      <4>1. k + WORD \in 0 .. (WORD - 1) /\ 2 * (k + WORD) >= 2 * WORD - CONSTS
        BY <2>2, <2>3, <3>1
      <4>2. Word(k) = k + WORD
        BY <2>2, <2>3, <4>1, Residues DEF Word
      <4>3. QED
        BY <2>3, <2>4, <4>1, <4>2
    <3>5. QED
      BY <3>3, <3>4
  <2>10. CASE Z!CountsTooFar
    <3> HIDE DEF WORD
    <3>1. cpc \in 0 .. (n - 1) /\ 2 * (cpc + 1) <= WORD - CONSTS
      BY <1>5, <2>3, <2>4
    <3>2. Z!CanIncrement
      BY <1>1, <2>3, <3>1, SameIsaZ DEF Z!CanIncrement
    <3>3. Z!IsInt(Z!Signed(zpc) + 1)
      <4>1. Z!Signed(zpc) = cpc
        BY <1>1, <2>3, <3>1, SameIsaZ DEF Signed
      <4>2. CONSTS >= 2
        BY IsaAssumption
      <4>3. QED
        BY <2>3, <3>1, <4>1, <4>2, SameIsaZ DEF Z!IsInt
    <3>4. QED
      BY <2>10, <3>2, <3>3 DEF Z!CountsTooFar
  <2>11. QED
    BY <1>1, <1>3, <1>5, <2>1, <2>6, <2>7, <2>8, <2>9, <2>10, SameIsaZ
       DEF Z!Panic, Z!HALT, HALT
<1>6. QED
  BY <1>4, <1>5

-----------------------------------------------------------------------------

\* Both machines keep their types: a pc, a register and a word of memory stay words,
\* whatever the program computes.
THEOREM MachineTypeCorrect == Spec => []TypeOK
BY MachineInit, MachineTypeStep, PTL DEF Spec

\* For every program, and whatever either version finds in the registers and the memory
\* that it does not clear: where neither is stopped by what the other would not be, and
\* the program uses nothing that it has not written and that they found different, they
\* are at the same instruction and differ in nothing else.
THEOREM VersionsAlwaysAgree == Spec => []VersionsAgree
BY MachineInit, MachineTypeStep, VersionsStep, PTL DEF Spec

\* A panic of the Zig version always has one of the four causes: what the program used
\* and had not written, an address or an instruction that stops the C version too, or a
\* seqi of a wide number.
THEOREM PanicsAlwaysExplained == Spec => PanicsExplained
<1>1. TypeOK /\ VersionsAgree /\ [Next]_vars =>
        [ zstatus = "running" /\ zstatus' = "panic" =>
            \/ guessed'
            \/ cstatus' \in {"stray", "illegal"}
            \/ cpc' \notin Addresses
            \/ C!op = SEQI /\ ~FitsConstant(C!source1) ]_vars
  BY PanicStep
<1>2. QED
  BY <1>1, MachineTypeCorrect, VersionsAlwaysAgree, PTL DEF Spec, PanicsExplained

-----------------------------------------------------------------------------
(* Arithmetic of words.                                                     *)

\* What is left of a multiple and a remainder.
LEMMA QuotientRemainder ==
    ASSUME NEW b \in Nat \ {0}, NEW q \in Int, NEW r \in 0 .. (b - 1)
    PROVE  (q * b + r) \div b = q /\ (q * b + r) % b = r
<1> DEFINE z == q * b + r
           d == z \div b
           m == z % b
<1>1. z \in Int /\ d \in Int /\ m \in 0 .. (b - 1) /\ z = b * d + m
  OBVIOUS
<1>2. (q - d) * b = m - r
  BY <1>1
<1> HIDE DEF z, d, m
<1>3. q - d \in Int
  BY <1>1
<1> DEFINE e == q - d
<1>4. e \in Int /\ e * b = m - r
  BY <1>2, <1>3
<1> HIDE DEF e
<1>5. ~(1 <= e)
  <2> SUFFICES ASSUME 1 <= e PROVE FALSE
    OBVIOUS
  <2>1. 0 <= (e - 1) * b
    BY <1>4
  <2>2. (e - 1) * b = e * b - b
    BY <1>4
  <2>3. QED
    BY <1>1, <1>4, <2>1, <2>2
<1>6. ~(e <= -1)
  <2> SUFFICES ASSUME e <= -1 PROVE FALSE
    OBVIOUS
  <2>1. 0 <= (-1 - e) * b
    BY <1>4
  <2>2. (-1 - e) * b = -(e * b) - b
    BY <1>4
  <2>3. QED
    BY <1>1, <1>4, <2>1, <2>2
<1>7. e = 0
  BY <1>4, <1>5, <1>6
<1>8. QED
  BY <1>1, <1>4, <1>7 DEF e, z, d, m

\* A multiple of a word makes no difference.
LEMMA SameWord ==
    ASSUME NEW z \in Int, NEW q \in Int
    PROVE  Word(z + q * WORD) = Word(z)
<1> DEFINE d == z \div WORD
           m == z % WORD
<1>1. WORD \in Nat \ {0}
  BY WordFacts
<1> HIDE DEF WORD
<1>2. d \in Int /\ m \in 0 .. (WORD - 1) /\ z = WORD * d + m
  BY <1>1
<1> HIDE DEF d, m
<1>3. z + q * WORD = (d + q) * WORD + m
  BY <1>1, <1>2
<1>4. d + q \in Int
  BY <1>2
<1>5. ((d + q) * WORD + m) % WORD = m
  BY <1>1, <1>2, <1>4, QuotientRemainder
<1>6. QED
  BY <1>3, <1>5 DEF Word, m

\* A word is what its number as an int is stored as.
LEMMA WordOfSigned == ASSUME NEW w \in Words PROVE Word(Signed(w)) = w
<1>1. w \in Int /\ WORD \in Int /\ Word(w) = w
  BY WordFacts
<1>2. Word(w + (-1) * WORD) = Word(w)
  BY <1>1, SameWord
<1> HIDE DEF WORD
<1>3. w + (-1) * WORD = w - WORD
  BY <1>1
<1>4. QED
  BY <1>1, <1>2, <1>3 DEF Signed

\* Product is the low word of a product.
LEMMA ProductIs ==
    ASSUME NEW a \in Words, NEW b \in Words
    PROVE  Product(a, b) = Word(a * b)
<1> DEFINE half == OPCODES * NREG
           low  == b % half
           high == b \div half
           y    == a * high
           d    == y \div WORD
           m    == y % WORD
<1>1. a \in Int /\ b \in Int /\ half \in Nat \ {0} /\ WORD \in Nat \ {0}
  BY WordFacts, IsaAssumption
<1> HIDE DEF half, WORD
<1>2. low \in Int /\ high \in Int /\ b = half * high + low
  BY <1>1
<1> HIDE DEF low, high
<1>3. y \in Int
  BY <1>1, <1>2
<1> HIDE DEF y
<1>4. d \in Int /\ m \in Int /\ y = WORD * d + m
  BY <1>1, <1>3
<1> HIDE DEF d, m
<1>5. a * b = (a * high) * half + a * low
  BY <1>1, <1>2
<1> DEFINE x == a * low
           z == x + m * half
           q == d * half
<1>6. x \in Int /\ a * b = y * half + x
  BY <1>1, <1>2, <1>5 DEF y
<1> HIDE DEF x
<1>7. z \in Int /\ q \in Int
  BY <1>1, <1>4, <1>6
<1>8. (WORD * d + m) * half = (d * half) * WORD + m * half
  BY <1>1, <1>4
<1>9. y * half = q * WORD + m * half
  BY <1>4, <1>8
<1>10. q * WORD \in Int /\ m * half \in Int /\ y * half \in Int
  BY <1>1, <1>3, <1>4, <1>7
<1>11. a * b = z + q * WORD
  BY <1>6, <1>9, <1>10
<1>12. Word(a * b) = Word(z)
  BY <1>7, <1>11, SameWord
<1>13. Product(a, b) = Word(z)
  BY Zenon DEF Product, z, x, m, y, half, low, high, Word
<1>14. QED
  BY <1>12, <1>13

\* The fields of an instruction are those that it was made of.
LEMMA FieldsOf ==
    ASSUME NEW o \in 0 .. (OPCODES - 1), NEW d \in Registers, NEW s \in Registers, NEW k \in Int,
           FitsConstant(k)
    PROVE  LET i == MakeInstr(o, d, s, k)
           IN  /\ Opcode(i) = o /\ Dest(i) = d /\ Source1(i) = s /\ Constant(i) = k
               /\ Source2(i) = k % NREG
<1> DEFINE c == k % CONSTS
           i == MakeInstr(o, d, s, k)
           N == NREG
           K == CONSTS
<1>1. /\ N \in Nat \ {0} /\ K \in Nat \ {0} /\ OPCODES \in Nat
      /\ o \in Int /\ d \in 0 .. (N - 1) /\ s \in 0 .. (N - 1) /\ c \in 0 .. (K - 1)
  BY IsaAssumption DEF Registers
<1>2. i = ((o * N + d) * N + s) * K + c
  BY DEF MakeInstr
<1>3. -K <= 2 * k /\ 2 * k < K
  BY DEF FitsConstant
<1>4. c = IF k >= 0 THEN k ELSE k + K
  BY <1>1, <1>3, Residues
<1> HIDE DEF c, i, N, K
<1>5. i % K = c /\ i \div K = (o * N + d) * N + s
  <2> DEFINE q == (o * N + d) * N + s
  <2>1. q \in Int /\ i = q * K + c
    BY <1>1, <1>2
  <2> HIDE DEF q
  <2>2. i % K = c /\ i \div K = q
    BY <1>1, <2>1, QuotientRemainder
  <2>3. QED
    BY <2>2 DEF q
<1>6. ((o * N + d) * N + s) % N = s
  <2> DEFINE q == o * N + d
  <2>1. q \in Int
    BY <1>1
  <2> HIDE DEF q
  <2>2. (q * N + s) % N = s
    BY <1>1, <2>1, QuotientRemainder
  <2>3. QED
    BY <2>2 DEF q
<1>7. i \div (N * K) = o * N + d
  <2> DEFINE q == o * N + d
             r == s * K + c
             b == N * K
  <2>1. q \in Int /\ r \in 0 .. (b - 1) /\ b \in Nat \ {0}
    BY <1>1, Digits
  <2>2. i = (q * N + s) * K + c
    BY <1>2
  <2>3. (q * N + s) * K = q * (N * K) + s * K
    BY <1>1, <2>1
  <2>4. q * (N * K) \in Int /\ s * K \in Int
    BY <1>1, <2>1
  <2>5. i = q * b + r
    BY <1>1, <2>2, <2>3, <2>4
  <2> HIDE DEF q, r, b
  <2>6. i \div b = q
    BY <2>1, <2>5, QuotientRemainder
  <2>7. QED
    BY <2>6 DEF q, b
<1>8. (o * N + d) % N = d
  BY <1>1, QuotientRemainder
<1>9. i \div (N * N * K) = o
  <2> DEFINE b == N * N * K
             r == (d * N + s) * K + c
  <2>1. N * N \in Nat \ {0} /\ d * N + s \in 0 .. (N * N - 1)
    BY <1>1, Digits
  <2>2. r \in 0 .. (b - 1)
    BY <1>1, <2>1, Digits
  <2>3. b \in Nat \ {0}
    BY <1>1, <2>1
  <2>4. ((o * N + d) * N + s) * K = o * (N * N * K) + (d * N + s) * K
    BY <1>1
  <2>5. o * (N * N * K) \in Int /\ (d * N + s) * K \in Int
    BY <1>1, <2>1
  <2>6. i = o * b + r
    BY <1>1, <1>2, <2>4, <2>5
  <2> HIDE DEF b, r
  <2>7. i \div b = o
    BY <1>1, <2>2, <2>3, <2>6, QuotientRemainder
  <2>8. QED
    BY <2>7 DEF b
<1>10. Opcode(i) = o /\ Dest(i) = d
  BY <1>7, <1>8, <1>9 DEF Opcode, Dest, N, K
<1>11. Source1(i) = s
  BY <1>5, <1>6 DEF Source1, N, K
<1>12. Constant(i) = k
  <2>1. i % CONSTS = c
    BY <1>5 DEF K
  <2>2. Constant(i) = IF 2 * c < K THEN c ELSE c - K
    BY <2>1 DEF Constant, K
  <2>3. QED
    BY <1>1, <1>3, <1>4, <2>2
<1>13. QED
  BY <1>10, <1>11, <1>12 DEF i, Source2

\* Addresses, and the top of the stack, are small: the same as words and as ints.
LEMMA SmallNumbers ==
    ASSUME NEW a \in 0 .. (NPAGES * PAGESIZE)
    PROVE  a \in Words /\ Signed(a) = a /\ Word(a) = a
<1> DEFINE n == NPAGES * PAGESIZE
<1>1. /\ n \in Nat /\ WORD \in Nat /\ CONSTS \in Nat \ {0} /\ 2 * n + CONSTS <= WORD
      /\ \A w \in Words : Word(w) = w
  BY IsaAssumption, WordFacts
<1> HIDE DEF WORD, n
<1>2. a \in 0 .. n
  BY DEF n
<1>3. a \in Words /\ 2 * a < WORD
  BY <1>1, <1>2 DEF Words
<1>4. QED
  BY <1>1, <1>3 DEF Signed

\* Every set of natural numbers that is not empty has a least element.
LEMMA LeastNumber ==
    ASSUME NEW T \in SUBSET Nat, NEW k \in T
    PROVE  \E l \in T : \A j \in T : l <= j
<1>1. PICK l \in T : \A j \in T : <<j, l>> \notin OpToRel(<, Nat)
  BY NatLessThanWellFounded, WFMin
<1>2. ASSUME NEW j \in T
      PROVE  ~(j < l)
  BY <1>1 DEF OpToRel
<1>3. QED
  BY <1>2

\* FacWord is what its recursion says.
LEMMA FacWordIs ==
    /\ FacWord(0) = 1
    /\ \A n \in Nat \ {0} : FacWord(n) = Word(n * FacWord(n - 1))
<1> DEFINE Times(n, w) == Word(n * w)
           IsFac(f, n) == f = [k \in 0 .. n |-> IF k = 0 THEN 1 ELSE Times(k, f[k - 1])]
           T           == {n \in Nat : ~\E f : IsFac(f, n)}
           fac(n)      == CHOOSE f : IsFac(f, n)
<1>1. ASSUME NEW n \in Nat
      PROVE  \E f : IsFac(f, n)
  <2> SUFFICES ASSUME n \in T
               PROVE  FALSE
    OBVIOUS
  <2> HIDE DEF Times
  <2>1. PICK l \in T : \A j \in T : l <= j
    <3>1. T \in SUBSET Nat
      OBVIOUS
    <3> HIDE DEF T
    <3>2. QED
      BY <3>1, LeastNumber
  <2>2. CASE l = 0
    <3>1. IsFac([k \in 0 .. 0 |-> 1], 0)
      OBVIOUS
    <3>2. QED
      BY <2>2, <3>1
  <2>3. CASE l # 0
    <3>1. l \in Nat /\ l - 1 \in Nat
      BY <2>1, <2>3
    <3>2. l - 1 \notin T
      <4> HIDE DEF T
      <4>1. QED
        BY <2>1, <3>1
    <3>3. PICK f : IsFac(f, l - 1)
      BY <3>1, <3>2
    <3> DEFINE g == [k \in 0 .. l |-> IF k < l THEN f[k] ELSE Times(l, f[l - 1])]
    <3>4. ASSUME NEW k \in 0 .. l
          PROVE  g[k] = IF k = 0 THEN 1 ELSE Times(k, g[k - 1])
      BY <2>3, <3>1, <3>3
    <3>5. IsFac(g, l)
      BY <3>4
    <3>6. QED
      BY <3>5
  <2>4. QED
    BY <2>2, <2>3
<1>2. \A n : FacWord(n) = fac(n)[n]
  BY DEF FacWord
<1> HIDE DEF Times, T
<1>3. ASSUME NEW n \in Nat
      PROVE  IsFac(fac(n), n)
  BY <1>1
<1> HIDE DEF fac
<1>4. ASSUME NEW n \in Nat
      PROVE  \A k \in 0 .. n : fac(n)[k] = IF k = 0 THEN 1 ELSE Times(k, fac(n)[k - 1])
  BY <1>3
<1> HIDE DEF IsFac
<1>5. ASSUME NEW n \in Nat \ {0}
      PROVE  fac(n)[n - 1] = fac(n - 1)[n - 1]
  <2> DEFINE U == {k \in Nat : k <= n - 1 /\ fac(n)[k] # fac(n - 1)[k]}
  <2> SUFFICES ASSUME n - 1 \in U
               PROVE  FALSE
    OBVIOUS
  <2>1. PICK l \in U : \A j \in U : l <= j
    <3>1. U \in SUBSET Nat
      OBVIOUS
    <3> HIDE DEF U
    <3>2. QED
      BY <3>1, LeastNumber
  <2>2. l \in 0 .. n /\ l \in 0 .. (n - 1) /\ n - 1 \in Nat /\ fac(n)[l] # fac(n - 1)[l]
    BY <2>1
  <2>3. l # 0 /\ fac(n)[l - 1] # fac(n - 1)[l - 1]
    BY <1>4, <2>2
  <2>4. l - 1 \in U /\ ~(l <= l - 1)
    BY <2>2, <2>3
  <2> HIDE DEF U
  <2>5. QED
    BY <2>1, <2>4
<1>6. FacWord(0) = 1
  BY <1>2, <1>4
<1>7. ASSUME NEW n \in Nat \ {0}
      PROVE  FacWord(n) = Word(n * FacWord(n - 1))
  <2>1. n \in 0 .. n
    OBVIOUS
  <2>2. FacWord(n) = Times(n, fac(n)[n - 1])
    BY <1>2, <1>4, <2>1
  <2>3. FacWord(n - 1) = fac(n)[n - 1]
    BY <1>2, <1>5
  <2>4. QED
    BY <2>2, <2>3 DEF Times
<1>8. QED
  BY <1>6, <1>7

\* It is a word.
LEMMA FacWordType ==
    /\ \A n \in Nat : FacWord(n) \in Words
    /\ FacWord(1) = 1
<1>1. FacWord(1) = 1
  <2>1. FacWord(1) = Word(1 * FacWord(1 - 1)) /\ FacWord(0) = 1 /\ Word(1) = 1
    BY FacWordIs, WordFacts
  <2>2. 1 - 1 = 0 /\ 1 * 1 = 1
    OBVIOUS
  <2>3. QED
    BY <2>1, <2>2
<1> DEFINE T == {n \in Nat : FacWord(n) \notin Words}
<1>2. ASSUME NEW n \in T
      PROVE  FALSE
  <2>1. PICK l \in T : \A j \in T : l <= j
    <3>1. T \in SUBSET Nat
      OBVIOUS
    <3> HIDE DEF T
    <3>2. QED
      BY <1>2, <3>1, LeastNumber
  <2>2. l \in Nat /\ l # 0 /\ FacWord(l) \notin Words
    BY <2>1, FacWordIs, WordFacts
  <2>3. l - 1 \in Nat /\ ~(l <= l - 1)
    BY <2>2
  <2>4. FacWord(l - 1) \in Words
    BY <2>1, <2>3
  <2>5. FacWord(l - 1) \in Int /\ FacWord(l) = Word(l * FacWord(l - 1))
    BY <2>2, <2>4, FacWordIs, WordFacts
  <2>6. l * FacWord(l - 1) \in Int
    BY <2>2, <2>5
  <2>7. QED
    BY <2>2, <2>5, <2>6, WordFacts
<1>3. QED
  BY <1>1, <1>2

-----------------------------------------------------------------------------
(* What the C version does with an instruction.                             *)

\* It takes the step of the instruction that has these fields.
Executes(o, d, s, k) ==
    /\ C!TypeOK /\ C!Next /\ cstatus = "running" /\ cpc \in Addresses
    /\ o \in 0 .. (OPCODES - 1) /\ d \in Registers /\ s \in Registers
    /\ k \in Int /\ FitsConstant(k)
    /\ cmem[cpc] = MakeInstr(o, d, s, k)

LEMMA Executed ==
    ASSUME NEW o, NEW d, NEW s, NEW k, Executes(o, d, s, k)
    PROVE  LET v    == Signed(creg[s])
               next == cpc' = cpc + 1
           IN  /\ o = ADDI => creg' = Written(creg, d, Word(v + k)) /\ next /\ UNCHANGED <<cmem, cstatus>>
               /\ o = SUBI => creg' = Written(creg, d, Word(v - k)) /\ next /\ UNCHANGED <<cmem, cstatus>>
               /\ o = SEQI => creg' = Written(creg, d, Truth(v = k)) /\ next /\ UNCHANGED <<cmem, cstatus>>
               /\ o = MUL  => /\ creg' = Written(creg, d, Word(creg[s] * creg[k % NREG]))
                              /\ next /\ UNCHANGED <<cmem, cstatus>>
               /\ o = BF   => /\ cpc' = IF v = 0 THEN Word(k) ELSE cpc + 1
                              /\ UNCHANGED <<creg, cmem, cstatus>>
               /\ o = LD /\ Word(v + k) \in Addresses =>
                     creg' = Written(creg, d, cmem[Word(v + k)]) /\ next /\ UNCHANGED <<cmem, cstatus>>
               /\ o = ST /\ Word(v + k) \in Addresses =>
                     cmem' = [cmem EXCEPT ![Word(v + k)] = creg[d]] /\ next /\ UNCHANGED <<creg, cstatus>>
               /\ o = CALL => /\ creg' = Written(creg, LINK, cpc + 1) /\ cpc' = Word(k)
                              /\ UNCHANGED <<cmem, cstatus>>
               /\ o = JMP  => cpc' = creg[s] /\ UNCHANGED <<creg, cmem, cstatus>>
               /\ o = HALT => cstatus' = "halted" /\ UNCHANGED <<cpc, creg, cmem>>
<1> DEFINE i == cmem[cpc]
           v == Signed(creg[s])
<1>1. /\ cstatus = "running" /\ cpc \in Addresses /\ C!Next
      /\ creg \in [Registers -> Words] /\ cmem \in [Addresses -> Words]
      /\ o \in 0 .. (OPCODES - 1) /\ d \in Registers /\ s \in Registers /\ k \in Int
  BY SameIsaC DEF Executes, C!TypeOK
<1>2. /\ Opcode(i) = o /\ Dest(i) = d /\ Source1(i) = s /\ Constant(i) = k
      /\ Source2(i) = k % NREG
  BY FieldsOf DEF Executes
<1>3. /\ C!op = o /\ C!constant = k /\ C!dest_reg = d /\ C!source1 = v
      /\ C!source2 = Signed(creg[k % NREG]) /\ C!effective = Word(v + k)
      /\ C!Computed = Result(creg, i)
      /\ \A e, w : C!WriteBack(e, w) <=> creg' = Written(creg, e, w)
  BY <1>2, CView DEF Src1, Src2
<1> HIDE DEF i
<1>4. \A ops : C!Fetches(ops) <=> o \in ops
  BY <1>1, <1>3, SameIsaC DEF C!Fetches, C!op
<1>5. ASSUME C!Increment
      PROVE  cpc' = cpc + 1
  <2>1. cpc \in Int /\ cpc + 1 \in 0 .. (NPAGES * PAGESIZE)
    BY <1>1, IsaAssumption DEF Addresses
  <2>2. QED
    BY <1>5, <2>1, SmallNumbers, SameIsaC DEF C!Increment
<1>6. /\ ADD = 0 /\ ADDI = 1 /\ SUB = 2 /\ SUBI = 3 /\ SGE = 4 /\ SGT = 5 /\ SEQ = 6 /\ BT = 7
      /\ BF = 8 /\ BA = 9 /\ ST = 10 /\ LD = 11 /\ CALL = 12 /\ JMP = 13 /\ MUL = 14
      /\ SEQI = 15 /\ HALT = 16
      /\ C!LD = 11 /\ C!ST = 10 /\ C!CALL = 12 /\ C!JMP = 13 /\ C!HALT = 16
      /\ C!BA = 9 /\ C!BT = 7 /\ C!BF = 8
  BY DEF ADD, ADDI, SUB, SUBI, SGE, SGT, SEQ, BT, BF, BA, ST, LD, CALL, JMP, MUL, SEQI, HALT,
     C!LD, C!ST, C!CALL, C!JMP, C!HALT, C!BA, C!BT, C!BF
<1>7. /\ C!Compute => o \in {0, 1, 2, 3, 4, 5, 6, 14, 15}
      /\ C!Branch => o \in {7, 8, 9}
      /\ C!Load => o = 11 /\ Word(v + k) \in Addresses
      /\ C!Store => o = 10 /\ Word(v + k) \in Addresses
      /\ C!Call => o = 12
      /\ C!Jump => o = 13
      /\ C!Halt => o = 16
      /\ C!Illegal => o > 16
      /\ C!Stray => o \in {10, 11} /\ Word(v + k) \notin Addresses
  BY <1>1, <1>3, <1>4, <1>6, SameIsaC
     DEF C!Compute, C!Branch, C!Load, C!Store, C!Call, C!Jump, C!Halt, C!Illegal, C!Stray,
         Arithmetic, Branches
<1>8. CASE o \in {ADDI, SUBI, SEQI, MUL}
  <2>1. C!Compute
    BY <1>1, <1>6, <1>7, <1>8 DEF C!Next
  <2>2. creg' = Written(creg, d, Result(creg, i)) /\ cpc' = cpc + 1 /\ UNCHANGED <<cmem, cstatus>>
    BY <1>3, <1>5, <2>1 DEF C!Compute
  <2>3. k % NREG \in Registers
    BY <1>1, IsaAssumption DEF Registers
  <2>4. /\ o = ADDI => Result(creg, i) = Word(v + k)
        /\ o = SUBI => Result(creg, i) = Word(v - k)
        /\ o = SEQI => Result(creg, i) = Truth(v = k)
        /\ o = MUL  => Result(creg, i) = Product(Word(v), Word(Signed(creg[k % NREG])))
    BY <1>2, <1>6 DEF Result, Src1, Src2
  <2>5. Product(Word(v), Word(Signed(creg[k % NREG]))) = Word(creg[s] * creg[k % NREG])
    <3>1. creg[s] \in Words /\ creg[k % NREG] \in Words
      BY <1>1, <2>3
    <3>2. QED
      BY <3>1, WordOfSigned, ProductIs
  <2>6. QED
    BY <1>6, <1>8, <2>2, <2>4, <2>5
<1>9. CASE o = BF
  <2>1. C!Branch
    BY <1>1, <1>6, <1>7, <1>9 DEF C!Next
  <2>2. C!Taken <=> v = 0
    BY <1>3, <1>6, <1>9 DEF C!Taken
  <2>3. cpc' = (IF v = 0 THEN Word(k) ELSE cpc + 1) /\ UNCHANGED <<creg, cmem, cstatus>>
    BY <1>3, <1>5, <2>1, <2>2, SameIsaC DEF C!Branch
  <2>4. QED
    BY <1>6, <1>9, <2>3
<1>10. CASE o = LD /\ Word(v + k) \in Addresses
  <2>1. C!Load
    BY <1>1, <1>6, <1>7, <1>10 DEF C!Next
  <2>2. creg' = Written(creg, d, cmem[Word(v + k)]) /\ cpc' = cpc + 1 /\ UNCHANGED <<cmem, cstatus>>
    BY <1>3, <1>5, <2>1 DEF C!Load
  <2>3. QED
    BY <1>6, <1>10, <2>2
<1>11. CASE o = ST /\ Word(v + k) \in Addresses
  <2>1. C!Store
    BY <1>1, <1>6, <1>7, <1>11 DEF C!Next
  <2>2. /\ cmem' = [cmem EXCEPT ![Word(v + k)] = creg[d]] /\ cpc' = cpc + 1
        /\ UNCHANGED <<creg, cstatus>>
    BY <1>3, <1>5, <2>1 DEF C!Store
  <2>3. QED
    BY <1>6, <1>11, <2>2
<1>12. CASE o = CALL
  <2>1. C!Call
    BY <1>1, <1>6, <1>7, <1>12 DEF C!Next
  <2>2. Word(cpc + 1) = cpc + 1
    <3>1. cpc + 1 \in 0 .. (NPAGES * PAGESIZE)
      BY <1>1, IsaAssumption DEF Addresses
    <3>2. QED
      BY <3>1, SmallNumbers
  <2>3. creg' = Written(creg, LINK, cpc + 1) /\ cpc' = Word(k) /\ UNCHANGED <<cmem, cstatus>>
    BY <1>3, <2>1, <2>2, SameIsaC DEF C!Call
  <2>4. QED
    BY <1>6, <1>12, <2>3
<1>13. CASE o = JMP
  <2>1. C!Jump
    BY <1>1, <1>6, <1>7, <1>13 DEF C!Next
  <2>2. Word(v) = creg[s]
    BY <1>1, WordOfSigned
  <2>3. cpc' = creg[s] /\ UNCHANGED <<creg, cmem, cstatus>>
    BY <1>3, <2>1, <2>2, SameIsaC DEF C!Jump
  <2>4. QED
    BY <1>6, <1>13, <2>3
<1>14. CASE o = HALT
  <2>1. C!Halt
    BY <1>1, <1>6, <1>7, <1>14 DEF C!Next
  <2>2. QED
    BY <1>6, <1>14, <2>1 DEF C!Halt
<1>15. QED
  BY <1>6, <1>8, <1>9, <1>10, <1>11, <1>12, <1>13, <1>14

\* The numbers up to the end of memory.
Small == 0 .. (NPAGES * PAGESIZE)

\* Among these nothing is cut.
LEMMA ExecutedSmall ==
    ASSUME NEW o, NEW d, NEW s, NEW k, Executes(o, d, s, k), creg[s] \in Small
    PROVE  LET w    == creg[s]
               next == cpc' = cpc + 1
           IN  /\ o = ADDI /\ w + k \in Small =>
                     creg' = Written(creg, d, w + k) /\ next /\ UNCHANGED <<cmem, cstatus>>
               /\ o = SUBI /\ w - k \in Small =>
                     creg' = Written(creg, d, w - k) /\ next /\ UNCHANGED <<cmem, cstatus>>
               /\ o = SEQI =>
                     creg' = Written(creg, d, Truth(w = k)) /\ next /\ UNCHANGED <<cmem, cstatus>>
               /\ o = BF /\ k \in Small =>
                     cpc' = (IF w = 0 THEN k ELSE cpc + 1) /\ UNCHANGED <<creg, cmem, cstatus>>
               /\ o = LD /\ w + k \in Addresses =>
                     creg' = Written(creg, d, cmem[w + k]) /\ next /\ UNCHANGED <<cmem, cstatus>>
               /\ o = ST /\ w + k \in Addresses =>
                     cmem' = [cmem EXCEPT ![w + k] = creg[d]] /\ next /\ UNCHANGED <<creg, cstatus>>
<1>1. \A a \in Small : Signed(a) = a /\ Word(a) = a
  BY SmallNumbers DEF Small
<1>2. Addresses \subseteq Small
  BY IsaAssumption DEF Addresses, Small
<1>3. Signed(creg[s]) = creg[s]
  BY <1>1
<1> DEFINE w == creg[s]
<1>4. /\ o = ADDI => creg' = Written(creg, d, Word(w + k)) /\ cpc' = cpc + 1 /\ UNCHANGED <<cmem, cstatus>>
      /\ o = SUBI => creg' = Written(creg, d, Word(w - k)) /\ cpc' = cpc + 1 /\ UNCHANGED <<cmem, cstatus>>
      /\ o = SEQI => creg' = Written(creg, d, Truth(w = k)) /\ cpc' = cpc + 1 /\ UNCHANGED <<cmem, cstatus>>
      /\ o = BF   => cpc' = (IF w = 0 THEN Word(k) ELSE cpc + 1) /\ UNCHANGED <<creg, cmem, cstatus>>
      /\ o = LD /\ Word(w + k) \in Addresses =>
            creg' = Written(creg, d, cmem[Word(w + k)]) /\ cpc' = cpc + 1 /\ UNCHANGED <<cmem, cstatus>>
      /\ o = ST /\ Word(w + k) \in Addresses =>
            cmem' = [cmem EXCEPT ![Word(w + k)] = creg[d]] /\ cpc' = cpc + 1 /\ UNCHANGED <<creg, cstatus>>
  BY <1>3, Executed
<1> HIDE DEF w, Small
<1>5. QED
  BY <1>1, <1>2, <1>4 DEF w

-----------------------------------------------------------------------------
(* fac.s.                                                                   *)

\* The stack pointer when fac is called for k, n - k calls deep, and the address
\* that the call returns to: behind the call in main, or the one in fac.
StackAt(n, k)  == StackTop - 1 - 2 * (n - k)
ReturnTo(n, k) == IF k = n THEN 22 ELSE RECUR + 2

\* What that call saves, and what the calls above it and main saved.
Saved(n, k)      == cmem[StackAt(n, k) - 1] = ReturnTo(n, k) /\ cmem[StackAt(n, k) - 2] = k
SavedAbove(n, k) == cmem[StackTop - 1] = 2 /\ \A j \in (k + 1) .. n : Saved(n, j)

\* In the call of fac for k: up to its test, when k is 1, and when it is not, before
\* and after it calls itself.
Entering(n, k) ==
    /\ creg[ARG] = k /\ creg[LINK] = ReturnTo(n, k)
    /\ \/ cpc = FAC /\ creg[SP] = StackAt(n, k)
       \/ cpc = FAC + 1 /\ creg[SP] = StackAt(n, k) /\ cmem[StackAt(n, k) - 1] = ReturnTo(n, k)
       \/ cpc = FAC + 2 /\ creg[SP] = StackAt(n, k) /\ Saved(n, k)
       \/ cpc = FAC + 3 /\ creg[SP] = StackAt(n, k) - 2 /\ Saved(n, k)
       \/ /\ cpc = FAC + 4 /\ creg[SP] = StackAt(n, k) - 2 /\ Saved(n, k)
          /\ creg[TEST] = Truth(k = 1)

LastCall(n, k) ==
    /\ k = 1 /\ creg[LINK] = ReturnTo(n, k)
    /\ \/ cpc = FAC + 5 /\ creg[SP] = StackAt(n, k) - 2
       \/ cpc = FAC + 6 /\ creg[SP] = StackAt(n, k) - 2 /\ creg[ARG] = 1
       \/ cpc = FAC + 7 /\ creg[SP] = StackAt(n, k) /\ creg[ARG] = 1

Recurring(n, k) ==
    /\ k > 1 /\ creg[SP] = StackAt(n, k) - 2 /\ Saved(n, k)
    /\ \/ cpc = RECUR /\ creg[ARG] = k
       \/ cpc = RECUR + 1 /\ creg[ARG] = k - 1

Returning(n, k) ==
    /\ k > 1
    /\ \/ cpc = RECUR + 2 /\ creg[SP] = StackAt(n, k) - 2 /\ Saved(n, k) /\ creg[ARG] = FacWord(k - 1)
       \/ /\ cpc = RECUR + 3 /\ creg[SP] = StackAt(n, k) - 2 /\ Saved(n, k)
          /\ creg[ARG] = FacWord(k - 1) /\ creg[TEST] = k
       \/ cpc = RECUR + 4 /\ creg[SP] = StackAt(n, k) - 2 /\ Saved(n, k) /\ creg[ARG] = FacWord(k)
       \/ /\ cpc = RECUR + 5 /\ creg[SP] = StackAt(n, k) - 2 /\ creg[ARG] = FacWord(k)
          /\ creg[BACK] = ReturnTo(n, k)
       \/ /\ cpc = RECUR + 6 /\ creg[SP] = StackAt(n, k) /\ creg[ARG] = FacWord(k)
          /\ creg[BACK] = ReturnTo(n, k)

InFac(n) ==
    \E k \in 1 .. n :
        /\ SavedAbove(n, k)
        /\ (Entering(n, k) \/ LastCall(n, k) \/ Recurring(n, k) \/ Returning(n, k))

\* Before main calls fac, and after.
Before(n) ==
    \/ cpc = 0
    \/ cpc = 1 /\ creg[SP] = StackTop
    \/ cpc = MAIN /\ creg[SP] = StackTop /\ creg[LINK] = 2
    \/ cpc = MAIN + 1 /\ creg[SP] = StackTop /\ cmem[StackTop - 1] = 2
    \/ cpc = MAIN + 2 /\ creg[SP] = StackTop - 1 /\ cmem[StackTop - 1] = 2
    \/ cpc = MAIN + 3 /\ creg[SP] = StackTop - 1 /\ cmem[StackTop - 1] = 2 /\ creg[ARG] = n

After(n) ==
    /\ creg[ARG] = FacWord(n)
    /\ \/ cpc = MAIN + 4 /\ creg[SP] = StackTop - 1 /\ cmem[StackTop - 1] = 2
       \/ cpc = MAIN + 5 /\ creg[SP] = StackTop - 1 /\ creg[BACK] = 2
       \/ cpc = MAIN + 6 /\ creg[SP] = StackTop /\ creg[BACK] = 2
       \/ cpc \in {2, EXIT} /\ creg[SP] = StackTop

\* fac.s as it was read, and where in it the C version is.
FacInv(n) ==
    /\ program \in Seq(Lines) /\ creg[0] = 0
    /\ \A a \in 0 .. (Len(program) - 1) : cmem[a] = Instr(program, a)
    /\ cstatus \in {"running", "halted"} /\ (cstatus = "halted" => cpc = EXIT)
    /\ (Before(n) \/ InFac(n) \/ After(n))

\* A step of the C version, inside fac.s.
Ready(n) ==
    /\ n \in Arguments /\ Runs(n) /\ StackFits(n, StackTop) /\ FacInv(n)
    /\ C!TypeOK /\ C!Next /\ cstatus = "running"

\* fac.s fits the machine that it was read into.
LEMMA FacFits ==
    ASSUME NEW n \in Arguments, Runs(n), StackFits(n, StackTop), program \in Seq(Lines)
    PROVE  /\ n \in Nat \ {0} /\ Len(program) = 26 /\ 27 + 2 * n <= StackTop
           /\ StackTop \in Nat /\ StackTop <= NPAGES * PAGESIZE /\ NPAGES * PAGESIZE \in Nat
           /\ \A k \in Int : -2 <= k /\ k <= StackTop => FitsConstant(k)
           /\ \A a \in 0 .. 25 : program[a + 1] \in Lines
           /\ {0, SP, ARG, TEST, BACK, LINK} \subseteq Registers
           /\ LINK \notin {0, SP, ARG, TEST} /\ TEST % NREG = TEST
<1>1. /\ StackTop \in Nat /\ StackTop <= NPAGES * PAGESIZE /\ NPAGES * PAGESIZE \in Nat
      /\ 2 * StackTop < CONSTS /\ CONSTS \in Nat /\ n \in Nat /\ NREG \in Nat
  BY FactorialAssumption, IsaAssumption DEF Arguments, FitsConstant
<1>2. program = FacProgram(n, StackTop)
  BY DEF Runs
<1>3. Len(FacProgram(n, StackTop)) = 26
  BY DEF FacProgram
<1>4. n \in Nat \ {0} /\ 27 + 2 * n <= StackTop
  BY <1>1, <1>3 DEF StackFits
<1>5. \A a \in 0 .. 25 : program[a + 1] \in Lines
  <2>1. Len(program) = 26
    BY <1>2, <1>3
  <2>2. \A j \in 1 .. Len(program) : program[j] \in Lines
    OBVIOUS
  <2>3. \A a \in 0 .. 25 : a + 1 \in 1 .. Len(program)
    BY <2>1
  <2>4. QED
    BY <2>2, <2>3
<1>6. program[16] = <<LD, BACK, SP, 1>> /\ program[16] \in Lines
  <2>1. 15 \in 0 .. 25 /\ 15 + 1 = 16
    OBVIOUS
  <2>2. QED
    BY <1>2, <1>5, <2>1 DEF FacProgram
<1>7. BACK \in Registers
  BY <1>6 DEF Lines
<1>8. /\ {0, SP, ARG, TEST, BACK, LINK} \subseteq Registers
      /\ LINK \notin {0, SP, ARG, TEST} /\ TEST % NREG = TEST
  BY <1>1, <1>7 DEF Registers, SP, ARG, TEST, BACK, LINK
<1>9. \A k \in Int : -2 <= k /\ k <= StackTop => FitsConstant(k)
  BY <1>1, <1>4 DEF FitsConstant
<1>10. QED
  BY <1>1, <1>2, <1>3, <1>4, <1>5, <1>8, <1>9

\* The instruction that it executes.
LEMMA FacFetch ==
    ASSUME NEW n, Ready(n), cpc \in 0 .. 25
    PROVE
           /\ cpc = 0  => Executes(ADDI, SP, 0, StackTop)
           /\ cpc = 1  => Executes(CALL, 0, 0, MAIN)
           /\ cpc = 2  => Executes(CALL, 0, 0, EXIT)
           /\ cpc = 3  => Executes(ST, LINK, SP, -1)
           /\ cpc = 4  => Executes(ST, ARG, SP, -2)
           /\ cpc = 5  => Executes(SUBI, SP, SP, 2)
           /\ cpc = 6  => Executes(SEQI, TEST, ARG, 1)
           /\ cpc = 7  => Executes(BF, 0, TEST, RECUR)
           /\ cpc = 8  => Executes(ADDI, ARG, 0, 1)
           /\ cpc = 9  => Executes(ADDI, SP, SP, 2)
           /\ cpc = 10 => Executes(JMP, 0, LINK, 0)
           /\ cpc = 11 => Executes(SUBI, ARG, ARG, 1)
           /\ cpc = 12 => Executes(CALL, 0, 0, FAC)
           /\ cpc = 13 => Executes(LD, TEST, SP, 0)
           /\ cpc = 14 => Executes(MUL, ARG, ARG, TEST)
           /\ cpc = 15 => Executes(LD, BACK, SP, 1)
           /\ cpc = 16 => Executes(ADDI, SP, SP, 2)
           /\ cpc = 17 => Executes(JMP, 0, BACK, 0)
           /\ cpc = 18 => Executes(ST, LINK, SP, -1)
           /\ cpc = 19 => Executes(SUBI, SP, SP, 1)
           /\ cpc = 20 => Executes(ADDI, ARG, 0, n)
           /\ cpc = 21 => Executes(CALL, 0, 0, FAC)
           /\ cpc = 22 => Executes(LD, BACK, SP, 0)
           /\ cpc = 23 => Executes(ADDI, SP, SP, 1)
           /\ cpc = 24 => Executes(JMP, 0, BACK, 0)
           /\ cpc = 25 => Executes(HALT, 0, 0, 0)
<1>1. /\ n \in Arguments /\ Runs(n) /\ StackFits(n, StackTop) /\ program \in Seq(Lines)
      /\ C!TypeOK /\ C!Next /\ cstatus = "running"
      /\ \A a \in 0 .. (Len(program) - 1) : cmem[a] = Instr(program, a)
  BY DEF Ready, FacInv
<1>2. /\ Len(program) = 26 /\ program[cpc + 1] \in Lines /\ cpc \in Addresses
      /\ n \in Nat \ {0} /\ n <= StackTop /\ StackTop \in Nat /\ 27 <= StackTop
      /\ \A k \in Int : -2 <= k /\ k <= StackTop => FitsConstant(k)
  <2>1. /\ Len(program) = 26 /\ n \in Nat \ {0} /\ 27 + 2 * n <= StackTop
        /\ StackTop \in Nat /\ StackTop <= NPAGES * PAGESIZE /\ NPAGES * PAGESIZE \in Nat
        /\ \A k \in Int : -2 <= k /\ k <= StackTop => FitsConstant(k)
        /\ \A a \in 0 .. 25 : program[a + 1] \in Lines
    BY <1>1, FacFits
  <2>2. cpc \in Addresses
    BY <2>1 DEF Addresses
  <2>3. QED
    BY <2>1, <2>2
<1> DEFINE line == program[cpc + 1]
<1>3. cmem[cpc] = MakeInstr(line[1], line[2], line[3], line[4])
  <2>1. cpc \in 0 .. (Len(program) - 1) /\ cpc < Len(program)
    BY <1>2
  <2>2. Instr(program, cpc) = MakeInstr(line[1], line[2], line[3], line[4])
    BY DEF Instr
  <2>3. QED
    BY <1>1, <2>1, <2>2
<1>4. /\ line[1] \in 0 .. (OPCODES - 1) /\ line[2] \in Registers /\ line[3] \in Registers
      /\ line[4] \in Int
  BY <1>2 DEF Lines
<1> HIDE DEF line
<1>5. FitsConstant(line[4]) => Executes(line[1], line[2], line[3], line[4])
  BY <1>1, <1>2, <1>3, <1>4 DEF Executes
<1>6. /\ FitsConstant(StackTop) /\ FitsConstant(n) /\ FitsConstant(-1) /\ FitsConstant(-2)
      /\ FitsConstant(0) /\ FitsConstant(1) /\ FitsConstant(2)
      /\ FitsConstant(TEST) /\ FitsConstant(FAC) /\ FitsConstant(RECUR)
      /\ FitsConstant(MAIN) /\ FitsConstant(EXIT)
  BY <1>2 DEF TEST, FAC, RECUR, MAIN, EXIT
<1>10. cpc = 0 => Executes(ADDI, SP, 0, StackTop)
  <2> SUFFICES ASSUME cpc = 0 PROVE Executes(ADDI, SP, 0, StackTop)
    OBVIOUS
  <2>1. line = <<ADDI, SP, 0, StackTop>>
    BY <1>1 DEF line, Runs, FacProgram
  <2>2. QED
    BY <1>5, <1>6, <2>1
<1>11. cpc = 1 => Executes(CALL, 0, 0, MAIN)
  <2> SUFFICES ASSUME cpc = 1 PROVE Executes(CALL, 0, 0, MAIN)
    OBVIOUS
  <2>1. line = <<CALL, 0, 0, MAIN>>
    BY <1>1 DEF line, Runs, FacProgram
  <2>2. QED
    BY <1>5, <1>6, <2>1
<1>12. cpc = 2 => Executes(CALL, 0, 0, EXIT)
  <2> SUFFICES ASSUME cpc = 2 PROVE Executes(CALL, 0, 0, EXIT)
    OBVIOUS
  <2>1. line = <<CALL, 0, 0, EXIT>>
    BY <1>1 DEF line, Runs, FacProgram
  <2>2. QED
    BY <1>5, <1>6, <2>1
<1>13. cpc = 3 => Executes(ST, LINK, SP, -1)
  <2> SUFFICES ASSUME cpc = 3 PROVE Executes(ST, LINK, SP, -1)
    OBVIOUS
  <2>1. line = <<ST, LINK, SP, -1>>
    BY <1>1 DEF line, Runs, FacProgram
  <2>2. QED
    BY <1>5, <1>6, <2>1
<1>14. cpc = 4 => Executes(ST, ARG, SP, -2)
  <2> SUFFICES ASSUME cpc = 4 PROVE Executes(ST, ARG, SP, -2)
    OBVIOUS
  <2>1. line = <<ST, ARG, SP, -2>>
    BY <1>1 DEF line, Runs, FacProgram
  <2>2. QED
    BY <1>5, <1>6, <2>1
<1>15. cpc = 5 => Executes(SUBI, SP, SP, 2)
  <2> SUFFICES ASSUME cpc = 5 PROVE Executes(SUBI, SP, SP, 2)
    OBVIOUS
  <2>1. line = <<SUBI, SP, SP, 2>>
    BY <1>1 DEF line, Runs, FacProgram
  <2>2. QED
    BY <1>5, <1>6, <2>1
<1>16. cpc = 6 => Executes(SEQI, TEST, ARG, 1)
  <2> SUFFICES ASSUME cpc = 6 PROVE Executes(SEQI, TEST, ARG, 1)
    OBVIOUS
  <2>1. line = <<SEQI, TEST, ARG, 1>>
    BY <1>1 DEF line, Runs, FacProgram
  <2>2. QED
    BY <1>5, <1>6, <2>1
<1>17. cpc = 7 => Executes(BF, 0, TEST, RECUR)
  <2> SUFFICES ASSUME cpc = 7 PROVE Executes(BF, 0, TEST, RECUR)
    OBVIOUS
  <2>1. line = <<BF, 0, TEST, RECUR>>
    BY <1>1 DEF line, Runs, FacProgram
  <2>2. QED
    BY <1>5, <1>6, <2>1
<1>18. cpc = 8 => Executes(ADDI, ARG, 0, 1)
  <2> SUFFICES ASSUME cpc = 8 PROVE Executes(ADDI, ARG, 0, 1)
    OBVIOUS
  <2>1. line = <<ADDI, ARG, 0, 1>>
    BY <1>1 DEF line, Runs, FacProgram
  <2>2. QED
    BY <1>5, <1>6, <2>1
<1>19. cpc = 9 => Executes(ADDI, SP, SP, 2)
  <2> SUFFICES ASSUME cpc = 9 PROVE Executes(ADDI, SP, SP, 2)
    OBVIOUS
  <2>1. line = <<ADDI, SP, SP, 2>>
    BY <1>1 DEF line, Runs, FacProgram
  <2>2. QED
    BY <1>5, <1>6, <2>1
<1>20. cpc = 10 => Executes(JMP, 0, LINK, 0)
  <2> SUFFICES ASSUME cpc = 10 PROVE Executes(JMP, 0, LINK, 0)
    OBVIOUS
  <2>1. line = <<JMP, 0, LINK, 0>>
    BY <1>1 DEF line, Runs, FacProgram
  <2>2. QED
    BY <1>5, <1>6, <2>1
<1>21. cpc = 11 => Executes(SUBI, ARG, ARG, 1)
  <2> SUFFICES ASSUME cpc = 11 PROVE Executes(SUBI, ARG, ARG, 1)
    OBVIOUS
  <2>1. line = <<SUBI, ARG, ARG, 1>>
    BY <1>1 DEF line, Runs, FacProgram
  <2>2. QED
    BY <1>5, <1>6, <2>1
<1>22. cpc = 12 => Executes(CALL, 0, 0, FAC)
  <2> SUFFICES ASSUME cpc = 12 PROVE Executes(CALL, 0, 0, FAC)
    OBVIOUS
  <2>1. line = <<CALL, 0, 0, FAC>>
    BY <1>1 DEF line, Runs, FacProgram
  <2>2. QED
    BY <1>5, <1>6, <2>1
<1>23. cpc = 13 => Executes(LD, TEST, SP, 0)
  <2> SUFFICES ASSUME cpc = 13 PROVE Executes(LD, TEST, SP, 0)
    OBVIOUS
  <2>1. line = <<LD, TEST, SP, 0>>
    BY <1>1 DEF line, Runs, FacProgram
  <2>2. QED
    BY <1>5, <1>6, <2>1
<1>24. cpc = 14 => Executes(MUL, ARG, ARG, TEST)
  <2> SUFFICES ASSUME cpc = 14 PROVE Executes(MUL, ARG, ARG, TEST)
    OBVIOUS
  <2>1. line = <<MUL, ARG, ARG, TEST>>
    BY <1>1 DEF line, Runs, FacProgram
  <2>2. QED
    BY <1>5, <1>6, <2>1
<1>25. cpc = 15 => Executes(LD, BACK, SP, 1)
  <2> SUFFICES ASSUME cpc = 15 PROVE Executes(LD, BACK, SP, 1)
    OBVIOUS
  <2>1. line = <<LD, BACK, SP, 1>>
    BY <1>1 DEF line, Runs, FacProgram
  <2>2. QED
    BY <1>5, <1>6, <2>1
<1>26. cpc = 16 => Executes(ADDI, SP, SP, 2)
  <2> SUFFICES ASSUME cpc = 16 PROVE Executes(ADDI, SP, SP, 2)
    OBVIOUS
  <2>1. line = <<ADDI, SP, SP, 2>>
    BY <1>1 DEF line, Runs, FacProgram
  <2>2. QED
    BY <1>5, <1>6, <2>1
<1>27. cpc = 17 => Executes(JMP, 0, BACK, 0)
  <2> SUFFICES ASSUME cpc = 17 PROVE Executes(JMP, 0, BACK, 0)
    OBVIOUS
  <2>1. line = <<JMP, 0, BACK, 0>>
    BY <1>1 DEF line, Runs, FacProgram
  <2>2. QED
    BY <1>5, <1>6, <2>1
<1>28. cpc = 18 => Executes(ST, LINK, SP, -1)
  <2> SUFFICES ASSUME cpc = 18 PROVE Executes(ST, LINK, SP, -1)
    OBVIOUS
  <2>1. line = <<ST, LINK, SP, -1>>
    BY <1>1 DEF line, Runs, FacProgram
  <2>2. QED
    BY <1>5, <1>6, <2>1
<1>29. cpc = 19 => Executes(SUBI, SP, SP, 1)
  <2> SUFFICES ASSUME cpc = 19 PROVE Executes(SUBI, SP, SP, 1)
    OBVIOUS
  <2>1. line = <<SUBI, SP, SP, 1>>
    BY <1>1 DEF line, Runs, FacProgram
  <2>2. QED
    BY <1>5, <1>6, <2>1
<1>30. cpc = 20 => Executes(ADDI, ARG, 0, n)
  <2> SUFFICES ASSUME cpc = 20 PROVE Executes(ADDI, ARG, 0, n)
    OBVIOUS
  <2>1. line = <<ADDI, ARG, 0, n>>
    BY <1>1 DEF line, Runs, FacProgram
  <2>2. QED
    BY <1>5, <1>6, <2>1
<1>31. cpc = 21 => Executes(CALL, 0, 0, FAC)
  <2> SUFFICES ASSUME cpc = 21 PROVE Executes(CALL, 0, 0, FAC)
    OBVIOUS
  <2>1. line = <<CALL, 0, 0, FAC>>
    BY <1>1 DEF line, Runs, FacProgram
  <2>2. QED
    BY <1>5, <1>6, <2>1
<1>32. cpc = 22 => Executes(LD, BACK, SP, 0)
  <2> SUFFICES ASSUME cpc = 22 PROVE Executes(LD, BACK, SP, 0)
    OBVIOUS
  <2>1. line = <<LD, BACK, SP, 0>>
    BY <1>1 DEF line, Runs, FacProgram
  <2>2. QED
    BY <1>5, <1>6, <2>1
<1>33. cpc = 23 => Executes(ADDI, SP, SP, 1)
  <2> SUFFICES ASSUME cpc = 23 PROVE Executes(ADDI, SP, SP, 1)
    OBVIOUS
  <2>1. line = <<ADDI, SP, SP, 1>>
    BY <1>1 DEF line, Runs, FacProgram
  <2>2. QED
    BY <1>5, <1>6, <2>1
<1>34. cpc = 24 => Executes(JMP, 0, BACK, 0)
  <2> SUFFICES ASSUME cpc = 24 PROVE Executes(JMP, 0, BACK, 0)
    OBVIOUS
  <2>1. line = <<JMP, 0, BACK, 0>>
    BY <1>1 DEF line, Runs, FacProgram
  <2>2. QED
    BY <1>5, <1>6, <2>1
<1>35. cpc = 25 => Executes(HALT, 0, 0, 0)
  <2> SUFFICES ASSUME cpc = 25 PROVE Executes(HALT, 0, 0, 0)
    OBVIOUS
  <2>1. line = <<HALT, 0, 0, 0>>
    BY <1>1 DEF line, Runs, FacProgram
  <2>2. QED
    BY <1>5, <1>6, <2>1
<1>40. QED
  BY <1>10, <1>11, <1>12, <1>13, <1>14, <1>15, <1>16, <1>17, <1>18,
     <1>19, <1>20, <1>21, <1>22, <1>23, <1>24, <1>25, <1>26, <1>27,
     <1>28, <1>29, <1>30, <1>31, <1>32, <1>33, <1>34, <1>35

\* What a step of fac.s leaves alone, and that it stays in fac.s.
Calm ==
    /\ creg'[0] = 0 /\ \A a \in 0 .. 25 : cmem'[a] = cmem[a]
    /\ cstatus' \in {"running", "halted"} /\ (cstatus' = "halted" => cpc' = EXIT)

\* Before main calls fac.
LEMMA FacBefore ==
    ASSUME NEW n, Ready(n), Before(n)
    PROVE  Calm /\ (Before(n)' \/ InFac(n)')
<1>1. /\ n \in Nat \ {0} /\ 27 + 2 * n <= StackTop
      /\ StackTop \in Nat /\ StackTop <= NPAGES * PAGESIZE /\ NPAGES * PAGESIZE \in Nat
      /\ {0, SP, ARG, TEST, BACK, LINK} \subseteq Registers /\ LINK \notin {0, SP, ARG, TEST}
  BY FacFits DEF Ready, FacInv
<1>2. /\ creg \in [Registers -> Words] /\ cmem \in [Addresses -> Words] /\ creg[0] = 0
      /\ cstatus = "running"
  BY SameIsaC DEF Ready, FacInv, C!TypeOK
<1>3. /\ 0 \in Small /\ StackTop \in Small /\ StackTop - 1 \in Small /\ n \in Small
      /\ StackTop - 1 \in Addresses /\ StackTop - 1 \notin 0 .. 25
      /\ 0 + StackTop = StackTop /\ 0 + n = n /\ StackTop + (-1) = StackTop - 1
  BY <1>1 DEF Small, Addresses
<1>4. /\ Word(FAC) = FAC /\ Word(MAIN) = MAIN
  BY <1>1, SmallNumbers DEF FAC, MAIN
<1>5. SP = 1 /\ ARG = 3 /\ FAC = 3 /\ MAIN = 18
  BY DEF SP, ARG, FAC, MAIN
<1>6. CASE cpc = 0
  <2>1. Executes(ADDI, SP, 0, StackTop)
    BY <1>6, FacFetch
  <2>2. creg' = Written(creg, SP, StackTop) /\ cpc' = cpc + 1 /\ UNCHANGED <<cmem, cstatus>>
    BY <1>2, <1>3, <2>1, ExecutedSmall
  <2>3. Calm /\ Before(n)'
    BY <1>1, <1>2, <1>5, <1>6, <2>2 DEF Calm, Before, Written
  <2>4. QED
    BY <2>3
<1>7. CASE cpc = 1 /\ creg[SP] = StackTop
  <2>1. Executes(CALL, 0, 0, MAIN)
    BY <1>7, FacFetch
  <2>2. creg' = Written(creg, LINK, cpc + 1) /\ cpc' = MAIN /\ UNCHANGED <<cmem, cstatus>>
    BY <1>4, <2>1, Executed
  <2>3. Calm /\ Before(n)'
    BY <1>1, <1>2, <1>5, <1>7, <2>2 DEF Calm, Before, Written
  <2>4. QED
    BY <2>3
<1>8. CASE cpc = MAIN /\ creg[SP] = StackTop /\ creg[LINK] = 2
  <2>1. Executes(ST, LINK, SP, -1)
    BY <1>5, <1>8, FacFetch
  <2>2. cmem' = [cmem EXCEPT ![StackTop - 1] = 2] /\ cpc' = cpc + 1 /\ UNCHANGED <<creg, cstatus>>
    BY <1>3, <1>8, <2>1, ExecutedSmall
  <2>3. Calm /\ Before(n)'
    BY <1>2, <1>3, <1>5, <1>8, <2>2 DEF Calm, Before
  <2>4. QED
    BY <2>3
<1>9. CASE cpc = MAIN + 1 /\ creg[SP] = StackTop /\ cmem[StackTop - 1] = 2
  <2>1. Executes(SUBI, SP, SP, 1)
    BY <1>5, <1>9, FacFetch
  <2>2. creg' = Written(creg, SP, StackTop - 1) /\ cpc' = cpc + 1 /\ UNCHANGED <<cmem, cstatus>>
    BY <1>3, <1>9, <2>1, ExecutedSmall
  <2>3. Calm /\ Before(n)'
    BY <1>1, <1>2, <1>5, <1>9, <2>2 DEF Calm, Before, Written
  <2>4. QED
    BY <2>3
<1>10. CASE cpc = MAIN + 2 /\ creg[SP] = StackTop - 1 /\ cmem[StackTop - 1] = 2
  <2>1. Executes(ADDI, ARG, 0, n)
    BY <1>5, <1>10, FacFetch
  <2>2. creg' = Written(creg, ARG, n) /\ cpc' = cpc + 1 /\ UNCHANGED <<cmem, cstatus>>
    BY <1>2, <1>3, <2>1, ExecutedSmall
  <2>3. Calm /\ Before(n)'
    BY <1>1, <1>2, <1>5, <1>10, <2>2 DEF Calm, Before, Written
  <2>4. QED
    BY <2>3
<1>11. CASE cpc = MAIN + 3 /\ creg[SP] = StackTop - 1 /\ cmem[StackTop - 1] = 2 /\ creg[ARG] = n
  <2>1. Executes(CALL, 0, 0, FAC)
    BY <1>5, <1>11, FacFetch
  <2>2. creg' = Written(creg, LINK, cpc + 1) /\ cpc' = FAC /\ UNCHANGED <<cmem, cstatus>>
    BY <1>4, <2>1, Executed
  <2>3. Calm /\ creg'[LINK] = 22 /\ creg'[SP] = StackTop - 1 /\ creg'[ARG] = n
    BY <1>1, <1>2, <1>5, <1>11, <2>2 DEF Calm, Written
  <2>4. StackAt(n, n) = StackTop - 1 /\ ReturnTo(n, n) = 22
    BY <1>1 DEF StackAt, ReturnTo
  <2>5. SavedAbove(n, n)'
    BY <1>1, <1>11, <2>2 DEF SavedAbove
  <2>6. Entering(n, n)'
    BY <1>1, <2>2, <2>3, <2>4 DEF Entering
  <2>7. InFac(n)'
    BY <1>1, <2>5, <2>6 DEF InFac
  <2>8. QED
    BY <2>3, <2>7
<1>12. QED
  BY <1>6, <1>7, <1>8, <1>9, <1>10, <1>11 DEF Before

\* The words that the call of fac for k saves are in memory, behind the program, and
\* apart from those that the calls above it saved.
LEMMA FrameNumbers ==
    ASSUME NEW n \in Nat, NEW k \in 1 .. n, 27 + 2 * n <= StackTop,
           StackTop \in Nat, StackTop <= NPAGES * PAGESIZE, NPAGES * PAGESIZE \in Nat
    PROVE  LET t == StackAt(n, k)
           IN  /\ t \in Small /\ t - 2 \in Small /\ (t - 2) + 2 = t
               /\ t + (-1) = t - 1 /\ t + (-2) = t - 2 /\ (t - 2) + 0 = t - 2 /\ (t - 2) + 1 = t - 1
               /\ t - 1 \in Addresses /\ t - 2 \in Addresses /\ t - 1 # t - 2
               /\ t - 1 \notin 0 .. 25 /\ t - 2 \notin 0 .. 25
               /\ StackTop - 1 \notin {t - 1, t - 2}
               /\ \A j \in (k + 1) .. n : /\ StackAt(n, j) - 1 \notin {t - 1, t - 2}
                                          /\ StackAt(n, j) - 2 \notin {t - 1, t - 2}
               /\ StackAt(n, k - 1) = t - 2
               /\ (k = n => t = StackTop - 1)
               /\ k \in Small /\ k - 1 \in Small
<1>1. k \in Int /\ n - k \in Nat
  OBVIOUS
<1>2. StackAt(n, k) = StackTop - 1 - 2 * (n - k) /\ StackAt(n, k) \in Int
  BY DEF StackAt
<1>3. \A j \in (k + 1) .. n : StackAt(n, j) - 2 >= StackAt(n, k) /\ StackAt(n, j) \in Int
  BY DEF StackAt
<1>4. 28 <= StackAt(n, k) /\ StackAt(n, k) <= StackTop - 1
  BY <1>1, <1>2
<1>5. StackAt(n, k - 1) = StackAt(n, k) - 2
  BY DEF StackAt
<1>6. k = n => StackAt(n, k) = StackTop - 1
  BY <1>2
<1>7. QED
  BY <1>1, <1>2, <1>3, <1>4, <1>5, <1>6 DEF Small, Addresses

\* What a step in fac starts from.
LEMMA InFacFacts ==
    ASSUME NEW n, Ready(n), NEW k \in 1 .. n
    PROVE  /\ n \in Nat \ {0} /\ 27 + 2 * n <= StackTop
           /\ StackTop \in Nat /\ StackTop <= NPAGES * PAGESIZE /\ NPAGES * PAGESIZE \in Nat
           /\ {0, SP, ARG, TEST, BACK, LINK} \subseteq Registers
           /\ LINK \notin {0, SP, ARG, TEST} /\ TEST % NREG = TEST
           /\ creg \in [Registers -> Words] /\ cmem \in [Addresses -> Words] /\ creg[0] = 0
           /\ cstatus = "running"
BY FacFits, SameIsaC DEF Ready, FacInv, C!TypeOK

\* What the calls above have saved stays.
LEMMA SavedAboveStays ==
    ASSUME NEW n, Ready(n), NEW k \in 1 .. n, SavedAbove(n, k),
           \/ cmem' = cmem
           \/ \E w : cmem' = [cmem EXCEPT ![StackAt(n, k) - 1] = w]
           \/ \E w : cmem' = [cmem EXCEPT ![StackAt(n, k) - 2] = w]
    PROVE  SavedAbove(n, k)'
<1> DEFINE t == StackAt(n, k)
<1>1. /\ StackTop - 1 \in Addresses
      /\ StackTop - 1 \notin {t - 1, t - 2}
      /\ \A j \in (k + 1) .. n : /\ StackAt(n, j) - 1 \notin {t - 1, t - 2}
                                 /\ StackAt(n, j) - 2 \notin {t - 1, t - 2}
      /\ \A j \in (k + 1) .. n : StackAt(n, j) - 1 \in Addresses /\ StackAt(n, j) - 2 \in Addresses
  <2>1. /\ n \in Nat /\ 27 + 2 * n <= StackTop /\ StackTop \in Nat /\ StackTop <= NPAGES * PAGESIZE
        /\ NPAGES * PAGESIZE \in Nat
    BY InFacFacts
  <2>2. (k + 1) .. n \subseteq 1 .. n
    BY <2>1
  <2>3. StackTop - 1 \in Addresses
    BY <2>1 DEF Addresses
  <2>4. QED
    BY <2>1, <2>2, <2>3, FrameNumbers
<1> HIDE DEF t
<1>2. \A a \in Addresses : a \notin {t - 1, t - 2} => cmem'[a] = cmem[a]
  BY InFacFacts DEF t
<1>3. cmem'[StackTop - 1] = cmem[StackTop - 1]
  BY <1>1, <1>2
<1>4. \A j \in (k + 1) .. n : Saved(n, j)'
  <2> SUFFICES ASSUME NEW j \in (k + 1) .. n
               PROVE  Saved(n, j)'
    OBVIOUS
  <2>1. Saved(n, j)
    BY DEF SavedAbove
  <2>2. cmem'[StackAt(n, j) - 1] = cmem[StackAt(n, j) - 1] /\ cmem'[StackAt(n, j) - 2] = cmem[StackAt(n, j) - 2]
    BY <1>1, <1>2
  <2>3. QED
    BY <2>1, <2>2 DEF Saved
<1>5. QED
  BY <1>3, <1>4 DEF SavedAbove

\* Up to the test.
LEMMA FacEntering ==
    ASSUME NEW n, Ready(n), NEW k \in 1 .. n, SavedAbove(n, k), Entering(n, k)
    PROVE  Calm /\ SavedAbove(n, k)' /\ (Entering(n, k)' \/ LastCall(n, k)' \/ Recurring(n, k)')
<1> DEFINE t == StackAt(n, k)
<1>1. /\ n \in Nat \ {0} /\ 27 + 2 * n <= StackTop
      /\ StackTop \in Nat /\ StackTop <= NPAGES * PAGESIZE /\ NPAGES * PAGESIZE \in Nat
      /\ {0, SP, ARG, TEST, BACK, LINK} \subseteq Registers /\ LINK \notin {0, SP, ARG, TEST}
      /\ creg \in [Registers -> Words] /\ cmem \in [Addresses -> Words] /\ creg[0] = 0
      /\ cstatus = "running"
  BY InFacFacts
<1>2. /\ t \in Small /\ t - 2 \in Small /\ k \in Small
      /\ t + (-1) = t - 1 /\ t + (-2) = t - 2
      /\ t - 1 \in Addresses /\ t - 2 \in Addresses /\ t - 1 # t - 2
      /\ t - 1 \notin 0 .. 25 /\ t - 2 \notin 0 .. 25
  BY <1>1, FrameNumbers
<1> HIDE DEF t
<1>3. SP = 1 /\ ARG = 3 /\ TEST = 4 /\ FAC = 3 /\ RECUR = 11
  BY DEF SP, ARG, TEST, FAC, RECUR
<1>4. creg[ARG] = k /\ creg[LINK] = ReturnTo(n, k)
  BY DEF Entering
<1>5. CASE cpc = FAC /\ creg[SP] = t
  <2>1. Executes(ST, LINK, SP, -1)
    BY <1>3, <1>5, FacFetch
  <2>2. cmem' = [cmem EXCEPT ![t - 1] = ReturnTo(n, k)] /\ cpc' = cpc + 1 /\ UNCHANGED <<creg, cstatus>>
    BY <1>2, <1>4, <1>5, <2>1, ExecutedSmall
  <2>3. Calm
    BY <1>1, <1>2, <2>2 DEF Calm
  <2>4. SavedAbove(n, k)'
    BY <2>2, SavedAboveStays DEF t
  <2>5. Entering(n, k)'
    BY <1>1, <1>2, <1>3, <1>4, <1>5, <2>2 DEF Entering, t
  <2>6. QED
    BY <2>3, <2>4, <2>5
<1>6. CASE cpc = FAC + 1 /\ creg[SP] = t /\ cmem[t - 1] = ReturnTo(n, k)
  <2>1. Executes(ST, ARG, SP, -2)
    BY <1>3, <1>6, FacFetch
  <2>2. cmem' = [cmem EXCEPT ![t - 2] = k] /\ cpc' = cpc + 1 /\ UNCHANGED <<creg, cstatus>>
    BY <1>2, <1>4, <1>6, <2>1, ExecutedSmall
  <2>3. Calm
    BY <1>1, <1>2, <2>2 DEF Calm
  <2>4. SavedAbove(n, k)'
    BY <2>2, SavedAboveStays DEF t
  <2>5. Saved(n, k)'
    BY <1>1, <1>2, <1>6, <2>2 DEF Saved, t
  <2>6. Entering(n, k)'
    BY <1>3, <1>4, <1>6, <2>2, <2>5 DEF Entering, t
  <2>7. QED
    BY <2>3, <2>4, <2>6
<1>7. ASSUME cmem' = cmem
      PROVE  SavedAbove(n, k)' /\ (Saved(n, k) => Saved(n, k)') /\ \A a \in 0 .. 25 : cmem'[a] = cmem[a]
  BY <1>7, SavedAboveStays DEF Saved
<1>8. CASE cpc = FAC + 2 /\ creg[SP] = t /\ Saved(n, k)
  <2>1. Executes(SUBI, SP, SP, 2)
    BY <1>3, <1>8, FacFetch
  <2>2. creg' = Written(creg, SP, t - 2) /\ cpc' = cpc + 1 /\ UNCHANGED <<cmem, cstatus>>
    BY <1>2, <1>8, <2>1, ExecutedSmall
  <2>3. /\ creg'[0] = 0 /\ creg'[SP] = t - 2 /\ creg'[ARG] = k /\ creg'[LINK] = ReturnTo(n, k)
    BY <1>1, <1>3, <1>4, <2>2 DEF Written
  <2>4. Calm /\ SavedAbove(n, k)' /\ Saved(n, k)'
    BY <1>1, <1>7, <1>8, <2>2, <2>3 DEF Calm
  <2>5. Entering(n, k)'
    BY <1>3, <1>8, <2>2, <2>3, <2>4 DEF Entering, t
  <2>6. QED
    BY <2>4, <2>5
<1>9. CASE cpc = FAC + 3 /\ creg[SP] = t - 2 /\ Saved(n, k)
  <2>1. Executes(SEQI, TEST, ARG, 1)
    BY <1>3, <1>9, FacFetch
  <2>2. creg' = Written(creg, TEST, Truth(k = 1)) /\ cpc' = cpc + 1 /\ UNCHANGED <<cmem, cstatus>>
    BY <1>2, <1>4, <2>1, ExecutedSmall
  <2>3. /\ creg'[0] = 0 /\ creg'[SP] = t - 2 /\ creg'[ARG] = k /\ creg'[LINK] = ReturnTo(n, k)
        /\ creg'[TEST] = Truth(k = 1)
    BY <1>1, <1>3, <1>4, <1>9, <2>2 DEF Written
  <2>4. Calm /\ SavedAbove(n, k)' /\ Saved(n, k)'
    BY <1>1, <1>7, <1>9, <2>2, <2>3 DEF Calm
  <2>5. Entering(n, k)'
    BY <1>3, <1>9, <2>2, <2>3, <2>4 DEF Entering, t
  <2>6. QED
    BY <2>4, <2>5
<1>10. CASE cpc = FAC + 4 /\ creg[SP] = t - 2 /\ Saved(n, k) /\ creg[TEST] = Truth(k = 1)
  <2>1. Executes(BF, 0, TEST, RECUR)
    BY <1>3, <1>10, FacFetch
  <2>2. creg[TEST] \in Small /\ RECUR \in Small /\ (creg[TEST] = 0 <=> k # 1)
    BY <1>1, <1>3, <1>10 DEF Small, Truth
  <2>3. cpc' = (IF k # 1 THEN RECUR ELSE cpc + 1) /\ UNCHANGED <<creg, cmem, cstatus>>
    BY <2>1, <2>2, ExecutedSmall
  <2>4. Calm /\ SavedAbove(n, k)' /\ Saved(n, k)'
    BY <1>1, <1>7, <1>10, <2>3 DEF Calm
  <2>5. k = 1 => LastCall(n, k)'
    BY <1>3, <1>4, <1>10, <2>3 DEF LastCall, t
  <2>6. k # 1 => Recurring(n, k)'
    BY <1>1, <1>3, <1>4, <1>10, <2>3, <2>4 DEF Recurring, t
  <2>7. QED
    BY <2>4, <2>5, <2>6
<1>11. QED
  BY <1>5, <1>6, <1>8, <1>9, <1>10 DEF Entering, t

\* The call for k returns to the one for k + 1, or to main.
LEMMA FacReturn ==
    ASSUME NEW n, Ready(n), NEW k \in 1 .. n, SavedAbove(n, k),
           creg[SP] = StackAt(n, k), creg[ARG] = FacWord(k), cpc' = ReturnTo(n, k),
           UNCHANGED <<creg, cmem, cstatus>>
    PROVE  Calm /\ (InFac(n)' \/ After(n)')
<1>1. /\ n \in Nat \ {0} /\ 27 + 2 * n <= StackTop
      /\ StackTop \in Nat /\ StackTop <= NPAGES * PAGESIZE /\ NPAGES * PAGESIZE \in Nat
      /\ creg[0] = 0 /\ cstatus = "running"
  BY InFacFacts
<1>2. Calm
  BY <1>1 DEF Calm
<1>3. MAIN = 18 /\ RECUR = 11
  BY DEF MAIN, RECUR
<1>4. CASE k = n
  <2>1. StackAt(n, k) = StackTop - 1
    BY <1>1, FrameNumbers, <1>4
  <2>2. cmem[StackTop - 1] = 2
    BY DEF SavedAbove
  <2>3. cpc' = MAIN + 4
    BY <1>3, <1>4 DEF ReturnTo
  <2>4. After(n)'
    BY <1>4, <2>1, <2>2, <2>3 DEF After
  <2>5. QED
    BY <1>2, <2>4
<1>5. CASE k # n
  <2>1. k + 1 \in 1 .. n /\ k + 1 > 1 /\ (k + 1) - 1 = k /\ k + 1 \in (k + 1) .. n
        /\ (k + 1) + 1 .. n \subseteq (k + 1) .. n
    BY <1>1, <1>5
  <2>2. StackAt(n, (k + 1) - 1) = StackAt(n, k + 1) - 2
    BY <1>1, <2>1, FrameNumbers
  <2>3. StackAt(n, k) = StackAt(n, k + 1) - 2
    BY <2>1, <2>2
  <2>4. Saved(n, k + 1) /\ SavedAbove(n, k + 1)
    BY <2>1 DEF SavedAbove
  <2>5. SavedAbove(n, k + 1)'
    BY <2>4 DEF SavedAbove, Saved
  <2>6. Saved(n, k + 1)'
    BY <2>4 DEF Saved
  <2>7. cpc' = RECUR + 2
    BY <1>5 DEF ReturnTo
  <2>8. creg'[ARG] = FacWord((k + 1) - 1)
    BY <2>1
  <2>9. Returning(n, k + 1)'
    BY <2>1, <2>3, <2>6, <2>7, <2>8 DEF Returning
  <2>10. InFac(n)'
    BY <2>1, <2>5, <2>9 DEF InFac
  <2>11. QED
    BY <1>2, <2>10
<1>6. QED
  BY <1>4, <1>5

\* The call for 1 returns 1.
LEMMA FacLastCall ==
    ASSUME NEW n, Ready(n), NEW k \in 1 .. n, SavedAbove(n, k), LastCall(n, k)
    PROVE  Calm /\ (InFac(n)' \/ After(n)')
<1> DEFINE t == StackAt(n, k)
<1>1. /\ n \in Nat \ {0} /\ 27 + 2 * n <= StackTop
      /\ StackTop \in Nat /\ StackTop <= NPAGES * PAGESIZE /\ NPAGES * PAGESIZE \in Nat
      /\ {0, SP, ARG, TEST, BACK, LINK} \subseteq Registers /\ LINK \notin {0, SP, ARG, TEST}
      /\ creg \in [Registers -> Words] /\ cmem \in [Addresses -> Words] /\ creg[0] = 0
      /\ cstatus = "running"
  BY InFacFacts
<1>2. /\ t \in Small /\ t - 2 \in Small /\ (t - 2) + 2 = t /\ 0 \in Small /\ 1 \in Small
  BY <1>1, FrameNumbers DEF Small
<1> HIDE DEF t
<1>3. SP = 1 /\ ARG = 3 /\ FAC = 3
  BY DEF SP, ARG, FAC
<1>4. k = 1 /\ creg[LINK] = ReturnTo(n, k)
  BY DEF LastCall
<1>5. ASSUME cmem' = cmem
      PROVE  SavedAbove(n, k)' /\ \A a \in 0 .. 25 : cmem'[a] = cmem[a]
  BY <1>5, SavedAboveStays
<1>6. ASSUME Calm, SavedAbove(n, k)', LastCall(n, k)'
      PROVE  Calm /\ InFac(n)'
  BY <1>6 DEF InFac
<1>7. CASE cpc = FAC + 5 /\ creg[SP] = t - 2
  <2>1. Executes(ADDI, ARG, 0, 1)
    BY <1>3, <1>7, FacFetch
  <2>2. creg' = Written(creg, ARG, 1) /\ cpc' = cpc + 1 /\ UNCHANGED <<cmem, cstatus>>
    BY <1>1, <1>2, <2>1, ExecutedSmall
  <2>3. creg'[0] = 0 /\ creg'[SP] = t - 2 /\ creg'[ARG] = 1 /\ creg'[LINK] = ReturnTo(n, k)
    BY <1>1, <1>3, <1>4, <1>7, <2>2 DEF Written
  <2>4. Calm /\ SavedAbove(n, k)'
    BY <1>1, <1>5, <2>2, <2>3 DEF Calm
  <2>5. LastCall(n, k)'
    BY <1>3, <1>4, <1>7, <2>2, <2>3 DEF LastCall, t
  <2>6. QED
    BY <1>6, <2>4, <2>5
<1>8. CASE cpc = FAC + 6 /\ creg[SP] = t - 2 /\ creg[ARG] = 1
  <2>1. Executes(ADDI, SP, SP, 2)
    BY <1>3, <1>8, FacFetch
  <2>2. creg' = Written(creg, SP, t) /\ cpc' = cpc + 1 /\ UNCHANGED <<cmem, cstatus>>
    BY <1>2, <1>8, <2>1, ExecutedSmall
  <2>3. creg'[0] = 0 /\ creg'[SP] = t /\ creg'[ARG] = 1 /\ creg'[LINK] = ReturnTo(n, k)
    BY <1>1, <1>2, <1>3, <1>4, <1>8, <2>2 DEF Written
  <2>4. Calm /\ SavedAbove(n, k)'
    BY <1>1, <1>5, <2>2, <2>3 DEF Calm
  <2>5. LastCall(n, k)'
    BY <1>3, <1>4, <1>8, <2>2, <2>3 DEF LastCall, t
  <2>6. QED
    BY <1>6, <2>4, <2>5
<1>9. CASE cpc = FAC + 7 /\ creg[SP] = t /\ creg[ARG] = 1
  <2>1. Executes(JMP, 0, LINK, 0)
    BY <1>3, <1>9, FacFetch
  <2>2. cpc' = ReturnTo(n, k) /\ UNCHANGED <<creg, cmem, cstatus>>
    BY <1>4, <2>1, Executed
  <2>3. creg[ARG] = FacWord(k) /\ creg[SP] = StackAt(n, k)
    BY <1>4, <1>9, FacWordType DEF t
  <2>4. QED
    BY <2>2, <2>3, FacReturn
<1>10. QED
  BY <1>4, <1>7, <1>8, <1>9 DEF LastCall, t

\* The call for k calls fac for k - 1.
LEMMA FacRecurring ==
    ASSUME NEW n, Ready(n), NEW k \in 1 .. n, SavedAbove(n, k), Recurring(n, k)
    PROVE  Calm /\ InFac(n)'
<1> DEFINE t == StackAt(n, k)
<1>1. /\ n \in Nat \ {0} /\ 27 + 2 * n <= StackTop
      /\ StackTop \in Nat /\ StackTop <= NPAGES * PAGESIZE /\ NPAGES * PAGESIZE \in Nat
      /\ {0, SP, ARG, TEST, BACK, LINK} \subseteq Registers /\ LINK \notin {0, SP, ARG, TEST}
      /\ creg \in [Registers -> Words] /\ cmem \in [Addresses -> Words] /\ creg[0] = 0
      /\ cstatus = "running"
  BY InFacFacts
<1>2. k \in Small /\ k - 1 \in Small /\ StackAt(n, k - 1) = t - 2
  BY <1>1, FrameNumbers
<1> HIDE DEF t
<1>3. SP = 1 /\ ARG = 3 /\ FAC = 3 /\ RECUR = 11
  BY DEF SP, ARG, FAC, RECUR
<1>4. k > 1 /\ creg[SP] = t - 2 /\ Saved(n, k)
  BY DEF Recurring, t
<1>5. ASSUME cmem' = cmem
      PROVE  /\ SavedAbove(n, k)' /\ Saved(n, k)' /\ SavedAbove(n, k - 1)'
             /\ \A a \in 0 .. 25 : cmem'[a] = cmem[a]
  <2>1. SavedAbove(n, k)' /\ Saved(n, k)'
    BY <1>4, <1>5, SavedAboveStays DEF Saved
  <2>2. (k - 1) + 1 .. n = {k} \cup ((k + 1) .. n)
    BY <1>1
  <2>3. SavedAbove(n, k - 1)'
    BY <2>1, <2>2 DEF SavedAbove
  <2>4. QED
    BY <1>5, <2>1, <2>3
<1>6. CASE cpc = RECUR /\ creg[ARG] = k
  <2>1. Executes(SUBI, ARG, ARG, 1)
    BY <1>3, <1>6, FacFetch
  <2>2. creg' = Written(creg, ARG, k - 1) /\ cpc' = cpc + 1 /\ UNCHANGED <<cmem, cstatus>>
    BY <1>2, <1>6, <2>1, ExecutedSmall
  <2>3. creg'[0] = 0 /\ creg'[SP] = t - 2 /\ creg'[ARG] = k - 1
    BY <1>1, <1>2, <1>3, <1>4, <2>2 DEF Written
  <2>4. Calm /\ SavedAbove(n, k)' /\ Saved(n, k)'
    BY <1>1, <1>5, <2>2, <2>3 DEF Calm
  <2>5. Recurring(n, k)'
    BY <1>3, <1>4, <1>6, <2>2, <2>3, <2>4 DEF Recurring, t
  <2>6. QED
    BY <2>4, <2>5 DEF InFac
<1>7. CASE cpc = RECUR + 1 /\ creg[ARG] = k - 1
  <2>1. Executes(CALL, 0, 0, FAC)
    BY <1>3, <1>7, FacFetch
  <2>2. Word(FAC) = FAC
    BY <1>1, SmallNumbers DEF FAC
  <2>3. creg' = Written(creg, LINK, cpc + 1) /\ cpc' = FAC /\ UNCHANGED <<cmem, cstatus>>
    BY <2>1, <2>2, Executed
  <2>4. creg'[0] = 0 /\ creg'[SP] = t - 2 /\ creg'[ARG] = k - 1 /\ creg'[LINK] = RECUR + 2
    BY <1>1, <1>3, <1>4, <1>7, <2>3 DEF Written
  <2>5. Calm /\ SavedAbove(n, k - 1)'
    BY <1>1, <1>5, <2>3, <2>4 DEF Calm
  <2>6. k - 1 \in 1 .. n /\ ReturnTo(n, k - 1) = RECUR + 2
    BY <1>1, <1>4 DEF ReturnTo
  <2>7. Entering(n, k - 1)'
    BY <1>2, <2>3, <2>4, <2>6 DEF Entering
  <2>8. QED
    BY <2>5, <2>6, <2>7 DEF InFac
<1>8. QED
  BY <1>6, <1>7 DEF Recurring

\* The call for k multiplies what the one for k - 1 returned.
LEMMA FacReturning ==
    ASSUME NEW n, Ready(n), NEW k \in 1 .. n, SavedAbove(n, k), Returning(n, k)
    PROVE  Calm /\ (InFac(n)' \/ After(n)')
<1> DEFINE t == StackAt(n, k)
<1>1. /\ n \in Nat \ {0} /\ 27 + 2 * n <= StackTop
      /\ StackTop \in Nat /\ StackTop <= NPAGES * PAGESIZE /\ NPAGES * PAGESIZE \in Nat
      /\ {0, SP, ARG, TEST, BACK, LINK} \subseteq Registers /\ TEST % NREG = TEST
      /\ creg \in [Registers -> Words] /\ cmem \in [Addresses -> Words] /\ creg[0] = 0
      /\ cstatus = "running"
  BY InFacFacts
<1>2. /\ t \in Small /\ t - 2 \in Small /\ (t - 2) + 2 = t
      /\ (t - 2) + 0 = t - 2 /\ (t - 2) + 1 = t - 1 /\ t - 1 \in Addresses /\ t - 2 \in Addresses
  BY <1>1, FrameNumbers
<1> HIDE DEF t
<1>3. SP = 1 /\ ARG = 3 /\ TEST = 4 /\ BACK = 5 /\ RECUR = 11
  BY DEF SP, ARG, TEST, BACK, RECUR
<1>4. k > 1
  BY DEF Returning
<1>5. ASSUME cmem' = cmem
      PROVE  /\ SavedAbove(n, k)' /\ (Saved(n, k) => Saved(n, k)')
             /\ \A a \in 0 .. 25 : cmem'[a] = cmem[a]
  BY <1>5, SavedAboveStays DEF Saved
<1>6. ASSUME Calm, SavedAbove(n, k)', Returning(n, k)'
      PROVE  Calm /\ InFac(n)'
  BY <1>6 DEF InFac
<1>7. CASE cpc = RECUR + 2 /\ creg[SP] = t - 2 /\ Saved(n, k) /\ creg[ARG] = FacWord(k - 1)
  <2>1. Executes(LD, TEST, SP, 0)
    BY <1>3, <1>7, FacFetch
  <2>2. cmem[t - 2] = k
    BY <1>7 DEF Saved, t
  <2>3. creg' = Written(creg, TEST, k) /\ cpc' = cpc + 1 /\ UNCHANGED <<cmem, cstatus>>
    BY <1>2, <1>7, <2>1, <2>2, ExecutedSmall
  <2>4. creg'[0] = 0 /\ creg'[SP] = t - 2 /\ creg'[ARG] = FacWord(k - 1) /\ creg'[TEST] = k
    BY <1>1, <1>3, <1>7, <2>3 DEF Written
  <2>5. Calm /\ SavedAbove(n, k)' /\ Saved(n, k)'
    BY <1>1, <1>5, <1>7, <2>3, <2>4 DEF Calm
  <2>6. Returning(n, k)'
    BY <1>3, <1>4, <1>7, <2>3, <2>4, <2>5 DEF Returning, t
  <2>7. QED
    BY <1>6, <2>5, <2>6
<1>8. CASE /\ cpc = RECUR + 3 /\ creg[SP] = t - 2 /\ Saved(n, k)
           /\ creg[ARG] = FacWord(k - 1) /\ creg[TEST] = k
  <2>1. Executes(MUL, ARG, ARG, TEST)
    BY <1>3, <1>8, FacFetch
  <2>2. creg' = Written(creg, ARG, Word(creg[ARG] * creg[TEST])) /\ cpc' = cpc + 1
        /\ UNCHANGED <<cmem, cstatus>>
    <3>1. /\ creg' = Written(creg, ARG, Word(creg[ARG] * creg[TEST % NREG]))
          /\ cpc' = cpc + 1 /\ UNCHANGED <<cmem, cstatus>>
      BY <2>1, Executed
    <3>2. QED
      BY <1>1, <3>1
  <2>3. Word(creg[ARG] * creg[TEST]) = FacWord(k)
    <3>1. k \in Nat \ {0} /\ k \in Int /\ k - 1 \in Nat
      BY <1>1
    <3>2. FacWord(k - 1) \in Words /\ FacWord(k - 1) \in Int /\ FacWord(k) = Word(k * FacWord(k - 1))
      BY <3>1, FacWordType, FacWordIs, WordFacts
    <3>3. FacWord(k - 1) * k = k * FacWord(k - 1)
      BY <3>1, <3>2
    <3>4. QED
      BY <1>8, <3>2, <3>3
  <2>4. creg'[0] = 0 /\ creg'[SP] = t - 2 /\ creg'[ARG] = FacWord(k)
    BY <1>1, <1>3, <1>8, <2>2, <2>3 DEF Written
  <2>5. Calm /\ SavedAbove(n, k)' /\ Saved(n, k)'
    BY <1>1, <1>5, <1>8, <2>2, <2>4 DEF Calm
  <2>6. Returning(n, k)'
    BY <1>3, <1>4, <1>8, <2>2, <2>4, <2>5 DEF Returning, t
  <2>7. QED
    BY <1>6, <2>5, <2>6
<1>9. CASE cpc = RECUR + 4 /\ creg[SP] = t - 2 /\ Saved(n, k) /\ creg[ARG] = FacWord(k)
  <2>1. Executes(LD, BACK, SP, 1)
    BY <1>3, <1>9, FacFetch
  <2>2. cmem[t - 1] = ReturnTo(n, k)
    BY <1>9 DEF Saved, t
  <2>3. creg' = Written(creg, BACK, ReturnTo(n, k)) /\ cpc' = cpc + 1 /\ UNCHANGED <<cmem, cstatus>>
    BY <1>2, <1>9, <2>1, <2>2, ExecutedSmall
  <2>4. creg'[0] = 0 /\ creg'[SP] = t - 2 /\ creg'[ARG] = FacWord(k) /\ creg'[BACK] = ReturnTo(n, k)
    BY <1>1, <1>3, <1>9, <2>3 DEF Written
  <2>5. Calm /\ SavedAbove(n, k)'
    BY <1>1, <1>5, <2>3, <2>4 DEF Calm
  <2>6. Returning(n, k)'
    BY <1>3, <1>4, <1>9, <2>3, <2>4 DEF Returning, t
  <2>7. QED
    BY <1>6, <2>5, <2>6
<1>10. CASE /\ cpc = RECUR + 5 /\ creg[SP] = t - 2 /\ creg[ARG] = FacWord(k)
            /\ creg[BACK] = ReturnTo(n, k)
  <2>1. Executes(ADDI, SP, SP, 2)
    BY <1>3, <1>10, FacFetch
  <2>2. creg' = Written(creg, SP, t) /\ cpc' = cpc + 1 /\ UNCHANGED <<cmem, cstatus>>
    BY <1>2, <1>10, <2>1, ExecutedSmall
  <2>3. creg'[0] = 0 /\ creg'[SP] = t /\ creg'[ARG] = FacWord(k) /\ creg'[BACK] = ReturnTo(n, k)
    BY <1>1, <1>2, <1>3, <1>10, <2>2 DEF Written
  <2>4. Calm /\ SavedAbove(n, k)'
    BY <1>1, <1>5, <2>2, <2>3 DEF Calm
  <2>5. Returning(n, k)'
    BY <1>3, <1>4, <1>10, <2>2, <2>3 DEF Returning, t
  <2>6. QED
    BY <1>6, <2>4, <2>5
<1>11. CASE /\ cpc = RECUR + 6 /\ creg[SP] = t /\ creg[ARG] = FacWord(k)
            /\ creg[BACK] = ReturnTo(n, k)
  <2>1. Executes(JMP, 0, BACK, 0)
    BY <1>3, <1>11, FacFetch
  <2>2. cpc' = ReturnTo(n, k) /\ UNCHANGED <<creg, cmem, cstatus>>
    BY <1>11, <2>1, Executed
  <2>3. QED
    BY <1>11, <2>2, FacReturn DEF t
<1>12. QED
  BY <1>7, <1>8, <1>9, <1>10, <1>11 DEF Returning, t

\* Main returns, and the program halts.
LEMMA FacAfter ==
    ASSUME NEW n, Ready(n), After(n)
    PROVE  Calm /\ After(n)'
<1>1. /\ n \in Nat \ {0} /\ 27 + 2 * n <= StackTop
      /\ StackTop \in Nat /\ StackTop <= NPAGES * PAGESIZE /\ NPAGES * PAGESIZE \in Nat
      /\ {0, SP, ARG, TEST, BACK, LINK} \subseteq Registers /\ LINK \notin {0, SP, ARG, TEST}
  BY FacFits DEF Ready, FacInv
<1>2. /\ creg \in [Registers -> Words] /\ cmem \in [Addresses -> Words] /\ creg[0] = 0
      /\ cstatus = "running"
  BY SameIsaC DEF Ready, FacInv, C!TypeOK
<1>3. /\ StackTop \in Small /\ StackTop - 1 \in Small /\ StackTop - 1 \in Addresses
      /\ (StackTop - 1) + 0 = StackTop - 1 /\ (StackTop - 1) + 1 = StackTop
  BY <1>1 DEF Small, Addresses
<1>4. SP = 1 /\ ARG = 3 /\ BACK = 5 /\ MAIN = 18 /\ EXIT = 25
  BY DEF SP, ARG, BACK, MAIN, EXIT
<1>5. creg[ARG] = FacWord(n)
  BY DEF After
<1>6. CASE cpc = MAIN + 4 /\ creg[SP] = StackTop - 1 /\ cmem[StackTop - 1] = 2
  <2>1. Executes(LD, BACK, SP, 0)
    BY <1>4, <1>6, FacFetch
  <2>2. creg' = Written(creg, BACK, 2) /\ cpc' = cpc + 1 /\ UNCHANGED <<cmem, cstatus>>
    BY <1>3, <1>6, <2>1, ExecutedSmall
  <2>3. Calm /\ After(n)'
    BY <1>1, <1>2, <1>4, <1>5, <1>6, <2>2 DEF Calm, After, Written
  <2>4. QED
    BY <2>3
<1>7. CASE cpc = MAIN + 5 /\ creg[SP] = StackTop - 1 /\ creg[BACK] = 2
  <2>1. Executes(ADDI, SP, SP, 1)
    BY <1>4, <1>7, FacFetch
  <2>2. creg' = Written(creg, SP, StackTop) /\ cpc' = cpc + 1 /\ UNCHANGED <<cmem, cstatus>>
    BY <1>3, <1>7, <2>1, ExecutedSmall
  <2>3. Calm /\ After(n)'
    BY <1>1, <1>2, <1>4, <1>5, <1>7, <2>2 DEF Calm, After, Written
  <2>4. QED
    BY <2>3
<1>8. CASE cpc = MAIN + 6 /\ creg[SP] = StackTop /\ creg[BACK] = 2
  <2>1. Executes(JMP, 0, BACK, 0)
    BY <1>4, <1>8, FacFetch
  <2>2. cpc' = 2 /\ UNCHANGED <<creg, cmem, cstatus>>
    BY <1>8, <2>1, Executed
  <2>3. Calm /\ After(n)'
    BY <1>2, <1>5, <1>8, <2>2 DEF Calm, After
  <2>4. QED
    BY <2>3
<1>9. CASE cpc = 2 /\ creg[SP] = StackTop
  <2>1. Executes(CALL, 0, 0, EXIT)
    BY <1>9, FacFetch
  <2>2. Word(EXIT) = EXIT
    BY <1>1, SmallNumbers DEF EXIT
  <2>3. creg' = Written(creg, LINK, cpc + 1) /\ cpc' = EXIT /\ UNCHANGED <<cmem, cstatus>>
    BY <2>1, <2>2, Executed
  <2>4. creg'[0] = 0 /\ creg'[SP] = StackTop /\ creg'[ARG] = FacWord(n)
    BY <1>1, <1>2, <1>4, <1>5, <1>9, <2>3 DEF Written
  <2>5. QED
    BY <1>2, <2>3, <2>4 DEF Calm, After
<1>10. CASE cpc = EXIT /\ creg[SP] = StackTop
  <2>1. Executes(HALT, 0, 0, 0)
    BY <1>4, <1>10, FacFetch
  <2>2. cstatus' = "halted" /\ UNCHANGED <<cpc, creg, cmem>>
    BY <2>1, Executed
  <2>3. QED
    BY <1>2, <1>5, <1>10, <2>2 DEF Calm, After
<1>11. QED
  BY <1>6, <1>7, <1>8, <1>9, <1>10 DEF After

\* A step of the C version stays in fac.s.
LEMMA FacStep ==
    ASSUME NEW n, Ready(n)
    PROVE  Calm /\ (Before(n)' \/ InFac(n)' \/ After(n)')
<1>1. CASE Before(n)
  BY <1>1, FacBefore
<1>2. CASE InFac(n)
  <2>1. PICK k \in 1 .. n : /\ SavedAbove(n, k)
                            /\ (Entering(n, k) \/ LastCall(n, k) \/ Recurring(n, k) \/ Returning(n, k))
    BY <1>2 DEF InFac
  <2>2. CASE Entering(n, k)
    BY <2>1, <2>2, FacEntering DEF InFac
  <2>3. CASE LastCall(n, k)
    BY <2>1, <2>3, FacLastCall
  <2>4. CASE Recurring(n, k)
    BY <2>1, <2>4, FacRecurring
  <2>5. CASE Returning(n, k)
    BY <2>1, <2>5, FacReturning
  <2>6. QED
    BY <2>1, <2>2, <2>3, <2>4, <2>5
<1>3. CASE After(n)
  BY <1>3, FacAfter
<1>4. QED
  BY <1>1, <1>2, <1>3 DEF Ready, FacInv

\* While main and fac run, and after, the program is what was read.
FactorialInv == \A n \in Arguments : Runs(n) /\ StackFits(n, StackTop) => FacInv(n)

LEMMA FacInit == Init => FactorialInv
<1> SUFFICES ASSUME Init, NEW n \in Arguments, Runs(n), StackFits(n, StackTop)
             PROVE  FacInv(n)
  BY DEF FactorialInv
<1>1. PICK start \in Starts : program = start.program /\ InitC(start)
  BY DEF Init
<1>2. program \in Seq(Lines) /\ start.creg \in [Registers -> Words] /\ 0 \in Registers
  BY <1>1, StartsAssumption, LinkRegister DEF RegisterFiles
<1>3. /\ cpc = 0 /\ cstatus = "running" /\ creg[0] = 0
      /\ cmem = Loaded(program, Zeroed)
  BY <1>1, <1>2 DEF InitC
<1>4. \A a \in 0 .. (Len(program) - 1) : cmem[a] = Instr(program, a)
  <2>1. /\ Len(program) = 26 /\ n \in Nat \ {0} /\ 27 + 2 * n <= StackTop
        /\ StackTop \in Nat /\ StackTop <= NPAGES * PAGESIZE /\ NPAGES * PAGESIZE \in Nat
    BY <1>2, FacFits
  <2>2. \A a \in 0 .. (Len(program) - 1) : a \in Addresses /\ a < Len(program)
    BY <2>1 DEF Addresses
  <2>3. QED
    BY <1>3, <2>2 DEF Loaded
<1>5. QED
  BY <1>2, <1>3, <1>4 DEF FacInv, Before

LEMMA FacInvStep == TypeOK /\ FactorialInv /\ [Next]_vars => FactorialInv'
<1> SUFFICES ASSUME TypeOK, FactorialInv, [Next]_vars,
                    NEW n \in Arguments, Runs(n)', StackFits(n, StackTop)
             PROVE  FacInv(n)'
  BY DEF FactorialInv, StackFits
<1>1. program' = program
  BY DEF Next, vars
<1>2. Runs(n) /\ FacInv(n)
  BY <1>1 DEF Runs, FactorialInv
<1>3. CASE UNCHANGED <<cpc, creg, cmem, cstatus>>
  BY <1>1, <1>2, <1>3 DEF FacInv, Before, InFac, After, SavedAbove, Saved, Entering, LastCall,
     Recurring, Returning
<1>4. CASE cstatus = "running" /\ C!Next
  <2>1. Ready(n)
    BY <1>2, <1>4 DEF Ready, TypeOK
  <2>2. Calm /\ (Before(n)' \/ InFac(n)' \/ After(n)')
    BY <2>1, FacStep
  <2>3. Len(program) = 26 /\ program \in Seq(Lines)
    BY <1>2, FacFits DEF FacInv
  <2>4. 0 .. (Len(program) - 1) = 0 .. 25
    BY <2>3
  <2>5. \A a \in 0 .. (Len(program) - 1) : cmem[a] = Instr(program, a)
    BY <1>2 DEF FacInv
  <2>6. \A a \in 0 .. (Len(program) - 1) : cmem'[a] = Instr(program, a)
    BY Zenon, <2>2, <2>4, <2>5 DEF Calm
  <2>7. \A a \in 0 .. (Len(program') - 1) : cmem'[a] = Instr(program', a)
    BY Zenon, <1>1, <2>6
  <2>8. QED
    BY <1>1, <2>2, <2>3, <2>7 DEF Calm, FacInv
<1>5. QED
  BY <1>3, <1>4 DEF Next, StepC, vars, machines

LEMMA FacInvRight == FactorialInv => FactorialRight
<1> SUFFICES ASSUME FactorialInv, NEW n \in Arguments, Runs(n), StackFits(n, StackTop)
             PROVE  /\ \A a \in 0 .. (Len(program) - 1) : cmem[a] = Instr(program, a)
                    /\ cstatus = "halted" => creg[ARG] = FacWord(n) /\ creg[SP] = StackTop
  BY DEF FactorialRight
<1>1. FacInv(n)
  BY DEF FactorialInv
<1>2. ASSUME cpc = EXIT
      PROVE  creg[ARG] = FacWord(n) /\ creg[SP] = StackTop
  BY <1>1, <1>2 DEF FacInv, Before, InFac, After, Entering, LastCall, Recurring, Returning,
     EXIT, FAC, RECUR, MAIN
<1>3. QED
  BY <1>1, <1>2 DEF FacInv

\* The instruction at an address of fac.s, whose number is l.
LEMMA LineOf ==
    ASSUME NEW n, Ready(n), NEW a \in 0 .. 25, NEW o, NEW d, NEW r, NEW k,
           program[a + 1] = <<o, d, r, k>>, FitsConstant(k)
    PROVE  Opcode(cmem[a]) = o
<1>1. /\ Len(program) = 26 /\ program[a + 1] \in Lines /\ StackTop \in Nat /\ 27 <= StackTop
      /\ StackTop <= NPAGES * PAGESIZE /\ NPAGES * PAGESIZE \in Nat
  <2>1. /\ Len(program) = 26 /\ n \in Nat \ {0} /\ 27 + 2 * n <= StackTop
        /\ StackTop \in Nat /\ StackTop <= NPAGES * PAGESIZE /\ NPAGES * PAGESIZE \in Nat
        /\ \A b \in 0 .. 25 : program[b + 1] \in Lines
    BY FacFits DEF Ready, FacInv
  <2>2. QED
    BY <2>1
<1>2. /\ o \in 0 .. (OPCODES - 1) /\ d \in Registers /\ r \in Registers /\ k \in Int
  BY <1>1 DEF Lines
<1>3. a \in Addresses /\ a \in 0 .. (Len(program) - 1) /\ a < Len(program)
  BY <1>1 DEF Addresses
<1>4. cmem[a] = Instr(program, a)
  BY <1>3 DEF Ready, FacInv
<1>5. Instr(program, a) = MakeInstr(o, d, r, k)
  BY DEF Instr
<1>6. QED
  BY <1>2, <1>4, <1>5, FieldsOf

\* The jumps of fac.s, and the calls behind which they return.
LEMMA JumpsAndCalls ==
    ASSUME NEW n, Ready(n)
    PROVE  /\ \A a \in {1, 12, 21} : Opcode(cmem[a]) = CALL
           /\ \A a \in 0 .. 25 : Opcode(cmem[a]) = JMP => a \in {10, 17, 24}
<1> DEFINE line(a) == FacProgram(n, StackTop)[a + 1]
<1>1. /\ n \in Nat \ {0} /\ n <= StackTop /\ 27 <= StackTop /\ StackTop \in Nat
      /\ \A k \in Int : -2 <= k /\ k <= StackTop => FitsConstant(k)
  <2>1. /\ n \in Nat \ {0} /\ 27 + 2 * n <= StackTop /\ StackTop \in Nat
        /\ \A k \in Int : -2 <= k /\ k <= StackTop => FitsConstant(k)
    BY FacFits DEF Ready, FacInv
  <2>2. QED
    BY <2>1
<1>2. \A a \in 0 .. 25 : program[a + 1] = line(a)
  BY DEF Ready, Runs
<1>3. /\ FitsConstant(StackTop) /\ FitsConstant(n) /\ FitsConstant(-1) /\ FitsConstant(-2)
      /\ FitsConstant(0) /\ FitsConstant(1) /\ FitsConstant(2)
      /\ FitsConstant(TEST) /\ FitsConstant(FAC) /\ FitsConstant(RECUR)
      /\ FitsConstant(MAIN) /\ FitsConstant(EXIT)
  BY <1>1 DEF TEST, FAC, RECUR, MAIN, EXIT
<1>4. \A a \in 0 .. 25 : /\ line(a) = <<line(a)[1], line(a)[2], line(a)[3], line(a)[4]>>
                         /\ FitsConstant(line(a)[4])
                         /\ a \in {1, 12, 21} => line(a)[1] = CALL
                         /\ line(a)[1] = JMP => a \in {10, 17, 24}
  <2> SUFFICES ASSUME NEW a \in 0 .. 25
               PROVE  /\ line(a) = <<line(a)[1], line(a)[2], line(a)[3], line(a)[4]>>
                      /\ FitsConstant(line(a)[4])
                      /\ a \in {1, 12, 21} => line(a)[1] = CALL
                      /\ line(a)[1] = JMP => a \in {10, 17, 24}
    OBVIOUS
  <2> HIDE DEF FitsConstant
  <2>1. CASE a \in 0 .. 8
    BY <1>3, <2>1 DEF FacProgram, CALL, JMP, ADDI, SUBI, ST, LD, SEQI, BF, MUL, HALT
  <2>2. CASE a \in 9 .. 17
    BY <1>3, <2>2 DEF FacProgram, CALL, JMP, ADDI, SUBI, ST, LD, SEQI, BF, MUL, HALT
  <2>3. CASE a \in 18 .. 25
    BY <1>3, <2>3 DEF FacProgram, CALL, JMP, ADDI, SUBI, ST, LD, SEQI, BF, MUL, HALT
  <2>4. QED
    BY <2>1, <2>2, <2>3
<1> HIDE DEF line
<1>5. \A a \in 0 .. 25 : Opcode(cmem[a]) = line(a)[1]
  BY <1>2, <1>4, LineOf
<1>6. QED
  BY <1>4, <1>5

\* A jump ends main or a call of fac, and goes behind the call.
LEMMA FacJumps ==
    ASSUME NEW n, Ready(n), C!op = JMP
    PROVE  Opcode(cmem[cpc' - 1]) = CALL
<1>1. cpc \in 0 .. 25
  BY DEF Ready, FacInv, Before, InFac, After, Entering, LastCall, Recurring, Returning,
     EXIT, FAC, RECUR, MAIN
<1>2. Opcode(cmem[cpc]) = JMP
  BY SameIsaC DEF C!op
<1>3. cpc \in {10, 17, 24}
  BY <1>1, <1>2, JumpsAndCalls
<1>4. cpc' - 1 \in {1, 12, 21}
  <2>1. CASE cpc = 10
    <3>1. Executes(JMP, 0, LINK, 0)
      BY <1>1, <2>1, FacFetch
    <3>2. cpc' = creg[LINK]
      BY <3>1, Executed
    <3>3. PICK k \in 1 .. n : creg[LINK] = ReturnTo(n, k)
      BY <2>1 DEF Ready, FacInv, Before, InFac, After, Entering, LastCall, Recurring, Returning,
         EXIT, FAC, RECUR, MAIN
    <3>4. QED
      BY <3>2, <3>3 DEF ReturnTo, RECUR
  <2>2. CASE cpc = 17
    <3>1. Executes(JMP, 0, BACK, 0)
      BY <1>1, <2>2, FacFetch
    <3>2. cpc' = creg[BACK]
      BY <3>1, Executed
    <3>3. PICK k \in 1 .. n : creg[BACK] = ReturnTo(n, k)
      BY <2>2 DEF Ready, FacInv, Before, InFac, After, Entering, LastCall, Recurring, Returning,
         EXIT, FAC, RECUR, MAIN
    <3>4. QED
      BY <3>2, <3>3 DEF ReturnTo, RECUR
  <2>3. CASE cpc = 24
    <3>1. Executes(JMP, 0, BACK, 0)
      BY <1>1, <2>3, FacFetch
    <3>2. cpc' = creg[BACK]
      BY <3>1, Executed
    <3>3. creg[BACK] = 2
      BY <2>3 DEF Ready, FacInv, Before, InFac, After, Entering, LastCall, Recurring, Returning,
         EXIT, FAC, RECUR, MAIN
    <3>4. QED
      BY <3>2, <3>3
  <2>4. QED
    BY <1>3, <2>1, <2>2, <2>3
<1>5. QED
  BY <1>4, JumpsAndCalls

LEMMA JumpsReturnStep ==
    ASSUME TypeOK, FactorialInv, [Next]_vars
    PROVE  [ \A n \in Arguments :
               Runs(n) /\ StackFits(n, StackTop) /\ cstatus = "running" /\ C!op = JMP
                 => Opcode(cmem[cpc' - 1]) = CALL ]_vars
<1> SUFFICES ASSUME Next, NEW n \in Arguments, Runs(n), StackFits(n, StackTop),
                    cstatus = "running", C!op = JMP
             PROVE  Opcode(cmem[cpc' - 1]) = CALL
  OBVIOUS
<1>1. C!Next
  BY DEF Next, StepC
<1>2. Ready(n)
  BY <1>1 DEF Ready, TypeOK, FactorialInv
<1>3. QED
  BY <1>2, FacJumps

-----------------------------------------------------------------------------

\* fac.s computes N! for every N that its stack is large enough for, whatever the width
\* of a word and the number of registers, without storing into itself, and leaves the
\* stack as it found it.
THEOREM FactorialAlwaysRight == Spec => []FactorialRight
<1>1. Init => FactorialInv
  BY FacInit
<1>2. TypeOK /\ FactorialInv /\ [Next]_vars => FactorialInv'
  BY FacInvStep
<1>3. FactorialInv => FactorialRight
  BY FacInvRight
<1>4. QED
  BY <1>1, <1>2, <1>3, MachineTypeCorrect, PTL DEF Spec

\* However deep the recursion, a jump through a register goes back behind a call.
THEOREM JumpsAlwaysReturn == Spec => JumpsReturn
<1>1. Init => FactorialInv
  BY FacInit
<1>2. TypeOK /\ FactorialInv /\ [Next]_vars => FactorialInv'
  BY FacInvStep
<1>3. TypeOK /\ FactorialInv /\ [Next]_vars =>
        [ \A n \in Arguments :
            Runs(n) /\ StackFits(n, StackTop) /\ cstatus = "running" /\ C!op = JMP
              => Opcode(cmem[cpc' - 1]) = CALL ]_vars
  BY JumpsReturnStep
<1>4. QED
  BY <1>1, <1>2, <1>3, MachineTypeCorrect, PTL DEF Spec, JumpsReturn

================================================================================
