------------------------------ MODULE ZigMachine ------------------------------
(***************************************************************************)
(* The machine of lab3_vm/zig/src/main.zig: run's loop, one action per kind *)
(* of instruction, in a build with safety checks (Debug is what "zig build" *)
(* makes), where an integer that does not fit, or an index out of bounds,   *)
(* is a panic.  Memory is what it is in module Machine.                     *)
(***************************************************************************)
EXTENDS Isa

VARIABLES
    pc,    \* cpu.pc
    reg,   \* cpu.reg
    mem,   \* what mem.read_memory returns, by address
    status \* what became of the program

vars == <<pc, reg, mem, status>>

TypeOK ==
    /\ pc \in Words
    /\ reg \in [Registers -> Words]
    /\ mem \in [Addresses -> Words]
    /\ status \in {"running", "halted", "panic"}

-----------------------------------------------------------------------------
(* Fetching and decoding.                                                   *)

\* translate truncates the number of the page, so that a far address is one of
\* the page table's again.
Translated(addr) == addr % (PageNumbers * PAGESIZE)

instr      == mem[Translated(pc)]
constant   == Constant(instr)
dest_reg   == Dest(instr)
source1    == Signed(reg[Source1(instr)])
source2    == Signed(reg[Source2(instr)])
wide_addr  == source1 + constant
effective  == Translated(Word(wide_addr))

Fetches(ops) ==
    /\ status = "running"
    /\ Translated(pc) \in Addresses
    /\ Opcode(instr) \in ops

\* "if (writeback and dest_reg != 0)"
WriteBack(dest, w) == reg' = IF dest = 0 THEN reg ELSE [reg EXCEPT ![dest] = w]

\* "cpu.pc += 1", checked.
CanIncrement == pc + 1 \in Words
Increment    == CanIncrement /\ pc' = pc + 1

\* "@as(u32, @intCast(constant))", checked.
JumpsTo(c) == c >= 0 /\ pc' = c

-----------------------------------------------------------------------------
(* The cases of the switch.                                                 *)

\* Arithmetic wraps, and only its overflow is remembered (and printed).  The
\* operand of seqi is narrowed to the constant's width, checked.
Compute ==
    /\ \/ Fetches({ADD})  /\ WriteBack(dest_reg, Word(source1 + source2))
       \/ Fetches({ADDI}) /\ WriteBack(dest_reg, Word(source1 + constant))
       \/ Fetches({SUB})  /\ WriteBack(dest_reg, Word(source1 - source2))
       \/ Fetches({SUBI}) /\ WriteBack(dest_reg, Word(source1 - constant))
       \/ Fetches({MUL})  /\ WriteBack(dest_reg, Product(Word(source1), Word(source2)))
       \/ Fetches({SGE})  /\ WriteBack(dest_reg, Truth(source1 >= source2))
       \/ Fetches({SGT})  /\ WriteBack(dest_reg, Truth(source1 > source2))
       \/ Fetches({SEQ})  /\ WriteBack(dest_reg, Truth(source1 = source2))
       \/ /\ Fetches({SEQI}) /\ FitsConstant(source1)
          /\ WriteBack(dest_reg, Truth(source1 = constant))
    /\ Increment
    /\ UNCHANGED <<mem, status>>

Taken ==
    \/ Fetches({BA})
    \/ Fetches({BT}) /\ source1 # 0
    \/ Fetches({BF}) /\ source1 = 0

Branch ==
    /\ Fetches(Branches)
    /\ IF Taken THEN JumpsTo(constant) ELSE Increment
    /\ UNCHANGED <<reg, mem, status>>

Reaches == IsInt(wide_addr) /\ effective \in Addresses

Load ==
    /\ Fetches({LD}) /\ Reaches
    /\ WriteBack(dest_reg, mem[effective])
    /\ Increment
    /\ UNCHANGED <<mem, status>>

Store ==
    /\ Fetches({ST}) /\ Reaches
    /\ mem' = [mem EXCEPT ![effective] = reg[dest_reg]]
    /\ Increment
    /\ UNCHANGED <<reg, status>>

Call ==
    /\ Fetches({CALL})
    /\ IsInt(Signed(pc) + 1)
    /\ WriteBack(LINK, Word(pc + 1))
    /\ JumpsTo(constant)
    /\ UNCHANGED <<mem, status>>

Jump ==
    /\ Fetches({JMP})
    /\ pc' = Word(source1)
    /\ UNCHANGED <<reg, mem, status>>

Halt ==
    /\ Fetches({HALT})
    /\ status' = "halted"
    /\ UNCHANGED <<pc, reg, mem>>

\* Mutant of NarrowsTooMuch: addi and subi narrow their operand too.
NarrowsInArithmetic == Fetches({SEQI, ADDI, SUBI}) /\ ~FitsConstant(source1)

\* What the checks of a Debug build find, in the order of the code.
NarrowsTooMuch == Fetches({SEQI}) /\ ~FitsConstant(source1)
JumpsBelowZero == (Taken \/ Fetches({CALL})) /\ constant < 0
CountsTooFar   ==
    \/ Fetches({CALL}) /\ ~IsInt(Signed(pc) + 1)
    \/ ~CanIncrement /\ ~Taken /\ Fetches(Arithmetic \cup Branches \cup {LD, ST})

Panic ==
    /\ status = "running"
    /\ \/ Translated(pc) \notin Addresses
       \/ Translated(pc) \in Addresses /\ Opcode(instr) > HALT
       \/ Fetches({LD, ST}) /\ ~Reaches
       \/ NarrowsTooMuch \/ JumpsBelowZero \/ CountsTooFar
    /\ status' = "panic"
    /\ UNCHANGED <<pc, reg, mem>>

-----------------------------------------------------------------------------

Next == Compute \/ Branch \/ Load \/ Store \/ Call \/ Jump \/ Halt \/ Panic

=============================================================================
