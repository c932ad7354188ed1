--------------------------- MODULE MachineProperties ---------------------------
(***************************************************************************)
(* What the two versions of the machine promise each other and the programs *)
(* that they run.                                                           *)
(***************************************************************************)
EXTENDS MachineVersions

CONSTANTS StackTop, \* the constant in the first line of fac.s (1024)
          MaxArg    \* the largest N that is tried

ASSUME FactorialAssumption ==
    /\ StackTop \in Nat /\ MaxArg \in Nat
    /\ FitsConstant(StackTop)          \* it is loaded by an addi
    /\ StackTop <= NPAGES * PAGESIZE   \* the stack starts below it

TypeOK ==
    /\ C!TypeOK /\ Z!TypeOK
    /\ regsApart \subseteq Registers /\ wordsApart \subseteq Addresses
    /\ guessed \in BOOLEAN

Same ==
    /\ cpc = zpc /\ cstatus = zstatus
    /\ \A r \in Registers \ regsApart : creg[r] = zreg[r]
    /\ \A a \in Addresses \ wordsApart : cmem[a] = zmem[a]

\* A program that the Zig version runs without a panic, and the C version without
\* leaving the page table, does the same on both, as long as it uses no register and
\* no word that it has not written and that happened to differ when they started:
\* register 0 is one that no program writes and the Zig version does not clear.
\* Other registers and words than these never come to differ.
VersionsAgree ==
    ~guessed /\ zstatus # "panic" /\ cstatus # "stray" => Same

\* A panic of the Zig version has one of four causes: the program used what the two
\* found different when they started; the C version leaves the page table or meets an
\* illegal instruction, in the same step or at the next fetch (or did before); or seqi
\* compares a number wider than the constant.
PanicsExplained ==
    [][ zstatus = "running" /\ zstatus' = "panic" =>
          \/ guessed'
          \/ cstatus' \in {"stray", "illegal"}
          \/ cpc' \notin Addresses
          \/ C!op = SEQI /\ ~FitsConstant(C!source1) ]_vars

-----------------------------------------------------------------------------
(* fac.s.                                                                   *)

Arguments == 0 .. MaxArg

Runs(n) == program = FacProgram(n, StackTop)

\* fac.s never stores into itself while its stack fits, halts only with N! in
\* the register of the result, and leaves the stack as it found it.
FactorialRight ==
    \A n \in Arguments : Runs(n) /\ StackFits(n, StackTop) =>
        /\ \A a \in 0 .. (Len(program) - 1) : cmem[a] = Instr(program, a)
        /\ cstatus = "halted" => creg[ARG] = FacWord(n) /\ creg[SP] = StackTop

\* A jump through a register returns behind a call, whatever the depth of the
\* recursion.
JumpsReturn ==
    [][ \A n \in Arguments :
          Runs(n) /\ StackFits(n, StackTop) /\ cstatus = "running" /\ C!op = JMP
            => Opcode(cmem[cpc' - 1]) = CALL ]_vars

\* It halts, on the C version.
FactorialHalts ==
    \A n \in Arguments : Runs(n) /\ StackFits(n, StackTop) ~> cstatus = "halted"

=============================================================================
