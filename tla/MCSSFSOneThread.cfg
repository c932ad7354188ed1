\* One thread, two files on three data blocks.
CONSTANTS
    FS_NBLOCKS = 5
    EOF_BLOCK = 65535
    BLOCK_SIZE = 1
    DIR_ENTRIES = 2
    Names = {f, g}
    NoName = NoName
    Offsets = {0, 1, 2}
    WriteSizes = {1}
    Payloads = {x}
    Junk = Junk
    Threads = {t1}
    Kinds = {"getattr", "readdir", "read", "create", "truncate", "write"}
SPECIFICATION Spec
SYMMETRY NameSymmetry
INVARIANTS
    TypeOK
    StraysOnlyOnLostMap
PROPERTIES
    ImplementsSSFS
