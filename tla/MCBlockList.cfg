\* A heap of five headers.  Sizes that need rounding and sizes that do not.  The
\* system may stop: a heap whose break is at its limit when reset forgets the list.
CONSTANTS
    ALIGNMENT = 2
    META_SIZE = 2
    Start = 2
    Limit = 12
    SIZE_MAX = 63
    Sizes = {0, 2, 3}
    NONE = NONE
SPECIFICATION FairSpec
INVARIANTS
    TypeOK
    Tiled
    AllocationsKept
    MergesAll
PROPERTIES
    MergeEnds
CHECK_DEADLOCK FALSE
