\* Two threads; any two requests show it.
CONSTANTS
    FS_NBLOCKS = 4
    EOF_BLOCK = 65535
    BLOCK_SIZE = 1
    DIR_ENTRIES = 1
    Names = {f}
    NoName = NoName
    Offsets = {0}
    WriteSizes = {1}
    Payloads = {Junk}
    Junk = Junk
    Threads = {t1, t2}
    Kinds = {"getattr", "readdir", "read", "create", "truncate", "write"}
SPECIFICATION Spec
SYMMETRY Symmetry
INVARIANTS
    TransfersHitTheirBlock
