\* Two data blocks and a write that needs three.
CONSTANTS
    FS_NBLOCKS = 4
    EOF_BLOCK = 65535
    BLOCK_SIZE = 1
    DIR_ENTRIES = 2
    Names = {f, g}
    NoName = NoName
    Offsets = {0, 1, 2}
    WriteSizes = {1}
    Payloads = {Junk}
    Junk = Junk
SPECIFICATION MountedSpec
INVARIANTS
    BlockZeroInNoFile
