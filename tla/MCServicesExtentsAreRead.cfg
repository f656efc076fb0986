CONSTANTS
    LOG_SIZE = 2
    LOG_WIDTH = 4
    NOENTRY = NOENTRY
    BLOCKSEC_MAX_RULES = 12
    BLOCKSEC_MAX_DOMAINS = 8
    MAX_LABELS = 2
    Pid = {1, 2, 3}
    Requests <- MCRequests
    NewRules <- MCNewRules
    Removed <- MCRemoved
    NewDomains = {"guest_t"}
    Entered = {"user_t", "guest_t"}
    MAX_CHECKS = 5
    VFS_MAX_MOUNTS = 3
    VFS_MAX_FDS = 2
    Paths <- MCPaths
    Fs = {ramfs, devfs}
    DevFs = {devfs}
    Offsets = {1}
    NULL = NULL
    BLOCK = 3
    SIZE_WIDTH = 6
    Layouts <- MCLayouts
    Sizes = {0, 1, 2, 3, 4, 5}
    DBG_MAX_BP = 3
    Address = {"f", "g"}
    TRAP = "trap"
    Levels = {"info", "error"}
    Pids = {0}
    HIST_SIZE = 3
    INDEX_WIDTH = 8
    WIDTH = 65536
    BYTE_WIDTH = 256
    PERCENT = 100
    Readings <- MCReadings
    NET_MAX_SOCKETS = 3
SPECIFICATION ServicesSpec
INVARIANTS
    ExtentsAreRead
