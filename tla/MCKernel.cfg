CONSTANTS
    p1 = p1
    p2 = p2
    p3 = p3
    NULL = NULL
    Proc <- MCProc3
    Priority <- MCPriority3
    QSIZE = 3
    TIME_SLICE = 2
    SIZE = 6
    Char = {"a", "b", "c", "d", "e", "f", "t", "k", "/"}
    Formats <- MCFormats
    Strings <- MCStrings
    DELIM = "/"
    MAX_APPENDS = 3
SPECIFICATION KernelSpec
INVARIANTS
    CountCoversQueue
    FullQuantumAtDispatch
    TextAsPromised
PROPERTIES
    RoundRobinAdvances
    OnlyRemovalsMakeHoles
    OffStaysOff
