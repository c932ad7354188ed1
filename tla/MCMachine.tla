------------------------------- MODULE MCMachine -------------------------------
(***************************************************************************)
(* An instance of the two machines for TLC: fac.s with each argument up to  *)
(* one that does not fit the stack, and every operation on its own, with    *)
(* operands at the limits of words and constants.                           *)
(***************************************************************************)
EXTENDS MachineProperties

\* What a Debug build fills undefined memory with, in bits 10, again and again.
CONSTANT Undefined

SampleRegisters == [r \in Registers |-> 3]

\* The Zig version may find what the C version does, but for register 0 or the memory,
\* or nothing alike.
Found(p, registers) ==
    LET like == [registers EXCEPT ![0] = 0]
        junk == [a \in Addresses |-> Undefined]
    IN  {[program |-> p, creg |-> registers, zreg |-> found[1], zmem |-> found[2]] :
            found \in {<<like, Zeroed>>, <<like, junk>>, <<registers, Zeroed>>,
                      <<[r \in Registers |-> Undefined], junk>>}}

\* The operation to try names registers 1 and 2, or register 2 and a large or a
\* negative constant.
Alone(k) ==
    {<< <<o, d, 2, k>>, <<HALT, 0, 0, 0>> >> : o \in 0 .. (HALT + 1), d \in {0, 3}}

\* The last is an address that the Zig version takes for 0.
Operands ==
    {0, CONSTS \div 2 - 1, CONSTS \div 2, WORD \div 2 - 1, WORD - 1, PageNumbers * PAGESIZE}

MCStarts ==
    UNION ({Found(FacProgram(n, StackTop), SampleRegisters) : n \in Arguments}
           \cup {Found(p, [SampleRegisters EXCEPT ![1] = x, ![2] = y]) :
                   p \in Alone(1), x \in Operands, y \in Operands}
           \cup {Found(p, [SampleRegisters EXCEPT ![2] = x]) :
                   p \in Alone(CONSTS \div 2 - 1) \cup Alone(-2), x \in Operands})

=============================================================================
