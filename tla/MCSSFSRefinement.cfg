\* Three data blocks of two bytes: writes into the middle, past the end and over
\* a hole, and writes whose end falls in the next block.  One payload tells written
\* bytes from junk.
CONSTANTS
    FS_NBLOCKS = 5
    EOF_BLOCK = 65535
    BLOCK_SIZE = 2
    DIR_ENTRIES = 2
    Names = {f, g}
    NoName = NoName
    NoFile = NoFile
    NoWrite = NoWrite
    Offsets = {0, 1, 4}
    WriteSizes = {1, 2}
    Payloads = {x}
    Junk = Junk
SPECIFICATION Spec
SYMMETRY NameSymmetry
INVARIANTS
    LengthCoversBlocks
PROPERTIES
    ImplementsFileStore
