\* Lines of up to four characters, and longer ones that do not fit.  argv can
\* overrun: the model then ends.
CONSTANTS
    MAXBUF = 6
    MAX_ARG = 2
    Typed = {"word", "blank", "newline", "semicolon", "pipe", "less", "greater", "nul"}
SPECIFICATION FairSpec
INVARIANTS
    TypeOK
    InsideLine
    TokensFit
    ArgumentsAreTokens
PROPERTIES
    ParseReturns
CHECK_DEADLOCK FALSE
