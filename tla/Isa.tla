---------------------------------- MODULE Isa ----------------------------------
(***************************************************************************)
(* The instruction set of the machine of lab3_vm: words, instructions and   *)
(* their fields, and the addresses that there are.  Both versions of the    *)
(* machine (c/machine.c and zig/src/main.zig) define it alike.  The widths  *)
(* are numbers of values, powers of two: a field of five bits is a number   *)
(* below 32.                                                                *)
(***************************************************************************)
EXTENDS Integers, Sequences

CONSTANTS
    NREG,        \* registers (32)
    CONSTS,      \* values of the constant in an instruction (65536)
    OPCODES,     \* values of the field of the operation (64)
    PAGESIZE,    \* words in a page (4)
    NPAGES,      \* entries of the page table (2048)
    PageNumbers  \* values of a page number in the Zig version, a u27 (2^27)

\* A word, 32 bits in the code, is just wide enough for an instruction.
WORD  == OPCODES * NREG * NREG * CONSTS
Words == 0 .. (WORD - 1)

ASSUME IsaAssumption ==
    /\ NREG \in Nat \ {0}
    /\ CONSTS \in Nat \ {0, 1}
    /\ OPCODES \in Nat \ {0}
    /\ PAGESIZE \in Nat \ {0} /\ NPAGES \in Nat \ {0}
    /\ PageNumbers \in Nat /\ NPAGES <= PageNumbers
    /\ CONSTS <= WORD /\ WORD \in Nat
    /\ 2 * (NPAGES * PAGESIZE) + CONSTS <= WORD \* no small sum wraps to an address

Registers == 0 .. (NREG - 1)

\* The addresses that translate finds in the page table.
Addresses == 0 .. (NPAGES * PAGESIZE - 1)

-----------------------------------------------------------------------------
(* Numbers.                                                                 *)

\* The same bits as an int, and the bits of an int that may have overflowed.
Signed(w) == IF 2 * w < WORD THEN w ELSE w - WORD
Word(i)   == i % WORD

\* An int that did not overflow.
IsInt(i) == -WORD <= 2 * i /\ 2 * i < WORD

\* The low word of a product, in parts that stay small.
Product(a, b) == LET half == OPCODES * NREG
                 IN  Word((a * (b % half)) + (Word(a * (b \div half)) * half))

Truth(p) == IF p THEN 1 ELSE 0

-----------------------------------------------------------------------------
(* Operations and the instructions that hold them.                          *)

ADD  == 0
ADDI == 1
SUB  == 2
SUBI == 3
SGE  == 4
SGT  == 5
SEQ  == 6
BT   == 7
BF   == 8
BA   == 9
ST   == 10
LD   == 11
CALL == 12
JMP  == 13
MUL  == 14
SEQI == 15
HALT == 16

Arithmetic == {ADD, ADDI, SUB, SUBI, MUL, SGE, SGT, SEQ, SEQI}
Branches   == {BT, BF, BA}

\* The register of return addresses.
LINK == NREG - 1

\* make_instr
MakeInstr(op, dest, s1, s2) == (((op * NREG + dest) * NREG + s1) * CONSTS) + (s2 % CONSTS)

\* extract_opcode, extract_dest, extract_source1
Opcode(instr)  == instr \div (NREG * NREG * CONSTS)
Dest(instr)    == (instr \div (NREG * CONSTS)) % NREG
Source1(instr) == (instr \div CONSTS) % NREG

\* The constant is signed; its low bits also name the second source register.
FitsConstant(i) == -CONSTS <= 2 * i /\ 2 * i < CONSTS

\* extract_constant
Constant(instr) == LET low == instr % CONSTS IN IF 2 * low < CONSTS THEN low ELSE low - CONSTS
Source2(instr)  == Constant(instr) % NREG

\* A line of a program is an operation and its three operands.
Instr(program, a) ==
    LET line == program[a + 1] IN MakeInstr(line[1], line[2], line[3], line[4])

\* read_program, into a memory that holds something already.
Loaded(program, memory) ==
    [a \in Addresses |-> IF a < Len(program) THEN Instr(program, a) ELSE memory[a]]

=============================================================================
