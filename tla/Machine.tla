-------------------------------- MODULE Machine --------------------------------
(***************************************************************************)
(* The machine of lab3_vm/c/machine.c: run's loop, one action per kind of   *)
(* instruction.  Signed arithmetic that overflows wraps, as it does in the  *)
(* builds of the Makefile: the result is only stored.                       *)
(*                                                                          *)
(* Page replacement is an assignment: pagefault is empty in this commit,    *)
(* and the first access to memory fails the assertion in                    *)
(* fifo_page_replace.  The memory here is what translate needs of that      *)
(* missing part: after pagefault(p) the words of page p are those that were *)
(* last written to it.  So it is a function of virtual addresses, and the   *)
(* bits that only replacement reads (referenced, modified) are left out.    *)
(***************************************************************************)
EXTENDS Isa

VARIABLES
    pc,    \* cpu.pc
    reg,   \* cpu.reg
    mem,   \* what read_memory returns, by address
    status \* what became of the program

vars == <<pc, reg, mem, status>>

TypeOK ==
    /\ pc \in Words
    /\ reg \in [Registers -> Words]
    /\ mem \in [Addresses -> Words]
    /\ status \in {"running", "halted", "illegal", "stray"}

-----------------------------------------------------------------------------
(* Fetching and decoding.                                                   *)

\* The loop goes on to an instruction with one of these operations.
Fetches(ops) == status = "running" /\ pc \in Addresses /\ Opcode(mem[pc]) \in ops

op        == Opcode(mem[pc])
constant  == Constant(mem[pc])
dest_reg  == Dest(mem[pc])
source1   == Signed(reg[Source1(mem[pc])])
source2   == Signed(reg[Source2(mem[pc])])
effective == Word(source1 + constant)

\* Mutant of WriteBack: register 0 is one like the others.
WriteBackAlways(dest, w) == reg' = [reg EXCEPT ![dest] = w]

\* "if (writeback && dest_reg != 0)"
WriteBack(dest, w) == reg' = IF dest = 0 THEN reg ELSE [reg EXCEPT ![dest] = w]

Increment == pc' = Word(pc + 1)

\* An access outside the page table: what follows is undefined.
Strays == status' = "stray" /\ UNCHANGED <<pc, reg, mem>>

-----------------------------------------------------------------------------
(* The cases of the switch.                                                 *)

Computed ==
    CASE op = ADD  -> Word(source1 + source2)
      [] op = ADDI -> Word(source1 + constant)
      [] op = SUB  -> Word(source1 - source2)
      [] op = SUBI -> Word(source1 - constant)
      [] op = MUL  -> Product(Word(source1), Word(source2))
      [] op = SGE  -> Truth(source1 >= source2)
      [] op = SGT  -> Truth(source1 > source2)
      [] op = SEQ  -> Truth(source1 = source2)
      [] op = SEQI -> Truth(source1 = constant)

Compute ==
    /\ Fetches(Arithmetic)
    /\ WriteBack(dest_reg, Computed)
    /\ Increment
    /\ UNCHANGED <<mem, status>>

\* Mutant of Taken: bf branches when its register is true.
TakenWhenTrue == op = BA \/ (op \in {BT, BF} /\ source1 # 0)

Taken ==
    \/ op = BA
    \/ op = BT /\ source1 # 0
    \/ op = BF /\ source1 = 0

\* Mutant of Branch: pc is signed.
BranchKeepsSign ==
    /\ Fetches(Branches)
    /\ IF Taken THEN pc' = constant ELSE Increment
    /\ UNCHANGED <<reg, mem, status>>

Branch ==
    /\ Fetches(Branches)
    /\ IF Taken THEN pc' = Word(constant) ELSE Increment
    /\ UNCHANGED <<reg, mem, status>>

Load ==
    /\ Fetches({LD})
    /\ effective \in Addresses
    /\ WriteBack(dest_reg, mem[effective])
    /\ Increment
    /\ UNCHANGED <<mem, status>>

Store ==
    /\ Fetches({ST})
    /\ effective \in Addresses
    /\ mem' = [mem EXCEPT ![effective] = reg[dest_reg]]
    /\ Increment
    /\ UNCHANGED <<reg, status>>

\* Mutant of Call: the return address is the call's own.
CallKeepsPc ==
    /\ Fetches({CALL})
    /\ WriteBack(LINK, pc)
    /\ pc' = Word(constant)
    /\ UNCHANGED <<mem, status>>

Call ==
    /\ Fetches({CALL})
    /\ WriteBack(LINK, Word(pc + 1))
    /\ pc' = Word(constant)
    /\ UNCHANGED <<mem, status>>

Jump ==
    /\ Fetches({JMP})
    /\ pc' = Word(source1)
    /\ UNCHANGED <<reg, mem, status>>

Halt ==
    /\ Fetches({HALT})
    /\ status' = "halted"
    /\ UNCHANGED <<pc, reg, mem>>

\* The default of the switch, which exits.
Illegal ==
    /\ status = "running" /\ pc \in Addresses
    /\ op > HALT
    /\ status' = "illegal"
    /\ UNCHANGED <<pc, reg, mem>>

\* The instruction, or the word that it names, is outside the page table.
Stray ==
    \/ status = "running" /\ pc \notin Addresses /\ Strays
    \/ Fetches({LD, ST}) /\ effective \notin Addresses /\ Strays

-----------------------------------------------------------------------------

Next == Compute \/ Branch \/ Load \/ Store \/ Call \/ Jump \/ Halt \/ Illegal \/ Stray

=============================================================================
