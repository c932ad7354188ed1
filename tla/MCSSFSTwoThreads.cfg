\* Two threads; no symmetry, as liveness needs.  A write follows five links, where the
\* longest list has two and a cycle through block 0 has three.
CONSTANTS
    FS_NBLOCKS = 4
    EOF_BLOCK = 65535
    BLOCK_SIZE = 1
    DIR_ENTRIES = 2
    Names = {f, g}
    NoName = NoName
    Offsets = {5}
    WriteSizes = {1}
    Payloads = {Junk}
    Junk = Junk
    Threads = {t1, t2}
    Kinds = {"create", "write"}
SPECIFICATION FairSpec
PROPERTIES
    RequestsReturn
