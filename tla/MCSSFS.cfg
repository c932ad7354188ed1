\* Four data blocks, two files of up to four blocks: the disk can be full.
CONSTANTS
    FS_NBLOCKS = 6
    EOF_BLOCK = 65535
    BLOCK_SIZE = 1
    DIR_ENTRIES = 2
    Names = {f, g}
    NoName = NoName
    Offsets = {0, 1, 2, 3, 4}
    WriteSizes = {1}
    Payloads = {Junk}
    Junk = Junk
SPECIFICATION Spec
SYMMETRY NameSymmetry
INVARIANTS
    TypeOK
    FreeListSound
    EntriesConsistent
    DirWellFormed
    FilesOwnBlocks
    WriteStaysInFile
    WriteTargetOnDisk
    InfoAccounts
PROPERTIES
    LeakOnlyByTruncate
