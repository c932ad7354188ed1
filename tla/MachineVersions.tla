---------------------------- MODULE MachineVersions ----------------------------
(***************************************************************************)
(* The two versions of the machine of lab3_vm, with the same program: they  *)
(* run one instruction each at a time.  What they do not clear when they    *)
(* start may be anything, and need not be the same in both.                 *)
(***************************************************************************)
EXTENDS Factorial

CONSTANT Starts \* the programs, and what happens to be in the registers and the memory

\* Programs that both versions read: a line with a number that does not fit its field
\* is refused by the Zig version and cut by the other.
Lines == (0 .. (OPCODES - 1)) \X Registers \X Registers \X Int

RegisterFiles == [Registers -> Words]
Memories      == [Addresses -> Words]

ASSUME StartsAssumption ==
    \A start \in Starts :
        /\ start.program \in Seq(Lines)
        /\ start.creg \in RegisterFiles
        /\ start.zreg \in RegisterFiles /\ start.zmem \in Memories

VARIABLES
    program, \* the program that was read
    cpc, creg, cmem, cstatus, \* the machine in C
    zpc, zreg, zmem, zstatus, \* the machine in Zig
    \* history variables: the registers and words that were not the same when the
    \* machines started, and that the program has not written since; and whether it
    \* has used what was in one of them
    regsApart, wordsApart, guessed

C == INSTANCE Machine    WITH pc <- cpc, reg <- creg, mem <- cmem, status <- cstatus
Z == INSTANCE ZigMachine WITH pc <- zpc, reg <- zreg, mem <- zmem, status <- zstatus

machines == <<cpc, creg, cmem, cstatus, zpc, zreg, zmem, zstatus>>
history  == <<regsApart, wordsApart, guessed>>
vars     == <<program, machines, history>>

Zeroed == [a \in Addresses |-> 0]

\* The C version clears register 0, and finds the others as they are.  Its memory is
\* static.
InitC(start) ==
    /\ cpc = 0 /\ cstatus = "running"
    /\ creg = [start.creg EXCEPT ![0] = 0]
    /\ cmem = Loaded(start.program, Zeroed)

\* The Zig version leaves all registers and its memory undefined.
InitZ(start) ==
    /\ zpc = 0 /\ zstatus = "running"
    /\ zreg = start.zreg
    /\ zmem = Loaded(start.program, start.zmem)

InitHistory ==
    /\ regsApart = {r \in Registers : creg[r] # zreg[r]}
    /\ wordsApart = {a \in Addresses : cmem[a] # zmem[a]}
    /\ guessed = FALSE

Init ==
    /\ \E start \in Starts : program = start.program /\ InitC(start) /\ InitZ(start)
    /\ InitHistory

-----------------------------------------------------------------------------
(* What the instruction at cpc reads and writes.                            *)

RegistersRead ==
    {r \in Registers :
        \/ C!op \in (Arithmetic \cup {BT, BF, LD, ST, JMP}) /\ r = Source1(cmem[cpc])
        \/ C!op \in {ADD, SUB, MUL, SGE, SGT, SEQ} /\ r = Source2(cmem[cpc])
        \/ C!op = ST /\ r = C!dest_reg}

WordsRead ==
    {a \in Addresses : a = cpc \/ (C!op = LD /\ a = C!effective)}

RegistersWritten ==
    {r \in Registers \ {0} :
        \/ C!op \in (Arithmetic \cup {LD}) /\ r = C!dest_reg
        \/ C!op = CALL /\ r = LINK}

WordsWritten == {a \in Addresses : C!op = ST /\ a = C!effective}

Recorded ==
    /\ guessed' = (guessed \/ RegistersRead \cap regsApart # {}
                           \/ WordsRead \cap wordsApart # {})
    /\ regsApart' = regsApart \ RegistersWritten
    /\ wordsApart' = wordsApart \ WordsWritten

Record ==
    IF cstatus = "running" /\ cpc \in Addresses THEN Recorded ELSE UNCHANGED history

-----------------------------------------------------------------------------

StepC == IF cstatus = "running" THEN C!Next ELSE UNCHANGED <<cpc, creg, cmem, cstatus>>
StepZ == IF zstatus = "running" THEN Z!Next ELSE UNCHANGED <<zpc, zreg, zmem, zstatus>>

Next ==
    /\ "running" \in {cstatus, zstatus}
    /\ StepC /\ StepZ /\ Record
    /\ UNCHANGED program

Spec == Init /\ [][Next]_vars

\* run's loop waits for nothing.
FairSpec == Spec /\ WF_vars(Next)

=============================================================================
