\* Registers of three bits, constants of seven, words of eighteen; a page table for
\* a program and a stack of ten calls of fac, and some more.  The machines stop.
CONSTANTS
    NREG = 8
    CONSTS = 128
    OPCODES = 32
    PAGESIZE = 4
    NPAGES = 16
    PageNumbers = 8192
    StackTop = 47
    MaxArg = 11
    Starts <- MCStarts
    Undefined = 174762
SPECIFICATION FairSpec
INVARIANTS
    TypeOK
    VersionsAgree
    FactorialRight
PROPERTIES
    PanicsExplained
    JumpsReturn
    FactorialHalts
CHECK_DEADLOCK FALSE
