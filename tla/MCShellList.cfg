\* Two lists that share four cells: rings of one, two and more, and a heap that
\* reuses what was freed.  A PATH of three characters has up to four directories.
\* init_search_path returns, and the model of its shell ends.
CONSTANTS
    Cells = {c1, c2, c3, c4}
    NULL = NULL
    Lists = {l1, l2}
    Others = {x, y}
    EmptyString = EmptyString
    Colon = Colon
    Nul = Nul
    NoPath = NoPath
    MaxPath = 3
    Paths <- MCPaths
    Data <- MCData
    path_dir_list = l1
SPECIFICATION PathSpec
INVARIANTS
    TypeOK
    LinksInverse
    ListsAllocated
    CellsInOneList
    PathKept
PROPERTIES
    ImplementsDataLists
    FreeReturns
CHECK_DEADLOCK FALSE
