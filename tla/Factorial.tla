------------------------------- MODULE Factorial -------------------------------
(***************************************************************************)
(* The sample program of lab3_vm, fac.s, as read_program reads it: a line   *)
(* for each instruction.  N and the top of the stack, 12 and 1024 in the    *)
(* file, are parameters.                                                    *)
(***************************************************************************)
EXTENDS Isa

SP   == 1
ARG  == 3
TEST == 4
BACK == 5

FAC    == 3
RECUR  == 11
MAIN   == 18
EXIT   == 25

FacProgram(n, top) == <<
    <<ADDI, SP, 0, top>>,      \* initialise stack pointer
    <<CALL, 0, 0, MAIN>>,
    <<CALL, 0, 0, EXIT>>,
    \* FAC
    <<ST, LINK, SP, -1>>,      \* save return address
    <<ST, ARG, SP, -2>>,       \* save parameter N
    <<SUBI, SP, SP, 2>>,
    <<SEQI, TEST, ARG, 1>>,    \* R4 = N == 1
    <<BF, 0, TEST, RECUR>>,
    <<ADDI, ARG, 0, 1>>,       \* return 1
    <<ADDI, SP, SP, 2>>,
    <<JMP, 0, LINK, 0>>,
    \* RECUR: return n * fac(n-1)
    <<SUBI, ARG, ARG, 1>>,
    <<CALL, 0, 0, FAC>>,
    <<LD, TEST, SP, 0>>,       \* reload parameter
    <<MUL, ARG, ARG, TEST>>,
    <<LD, BACK, SP, 1>>,       \* reload return address
    <<ADDI, SP, SP, 2>>,
    <<JMP, 0, BACK, 0>>,
    \* MAIN
    <<ST, LINK, SP, -1>>,
    <<SUBI, SP, SP, 1>>,
    <<ADDI, ARG, 0, n>>,
    <<CALL, 0, 0, FAC>>,
    <<LD, BACK, SP, 0>>,
    <<ADDI, SP, SP, 1>>,
    <<JMP, 0, BACK, 0>>,
    \* EXIT
    <<HALT, 0, 0, 0>> >>

\* The stack takes one word in main and two in each call of fac; it must not grow
\* into the program.
StackFits(n, top) == n >= 1 /\ Len(FacProgram(n, top)) + 2 * n + 1 <= top

\* n!, cut to a word.
FacWord(n) == LET f[k \in 0 .. n] == IF k = 0 THEN 1 ELSE Word(k * f[k - 1]) IN f[n]

=============================================================================
