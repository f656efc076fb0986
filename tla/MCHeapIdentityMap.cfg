CONSTANTS
    HEAP_SIZE = 100
    ALIGN = 4
    WIDTH = 256
    Pids <- MCPids
    NOPID = "0"
    GlobalFiles <- MCGlobalFiles
    Handle = {1}
    Counts = {1, 2}
    ENTRY_SIZE = 4
    FILE_SIZE = 3
    PROCFS_BUFFER_SIZE = 8
    SHORT_BUFFER_SIZE = 4
    MAX_SHMEM = 2
    NULL = NULL
    Sizes = {0, 1, 33, 36, 100, 101}
    MAX_BLOCKS = 4
    ENTRIES = 4
    VPages = {0, 3, 4}
    Frames = {0, 7}
    Flags = {0, 3}
    OtherSizes = {1, 16}
    MAX_DIRS = 1
SPECIFICATION HeapSpec
PROPERTIES
    IdentityMapsFirstTable
