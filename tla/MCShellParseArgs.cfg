\* Two words and more, where argv has room for one and a NULL.
CONSTANTS
    MAXBUF = 8
    MAX_ARG = 1
    Typed = {"word", "blank", "newline"}
SPECIFICATION Spec
INVARIANTS
    ArgvHoldsArguments
CHECK_DEADLOCK FALSE
