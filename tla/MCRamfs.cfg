CONSTANTS
    x = x
    y = y
    JUNK = JUNK
    Name = {"etc", "host"}
    ETC = "etc"
    HOST = "host"
    Hostname <- MCHostname
    Handle = {h1, h2}
    Byte <- MCByte
    Buffers <- MCBuffers
    Counts = {0, 2}
    WIDTH = 16
    TOTAL = 8
    MAX_NODES = 5
    MAX_SIZE = 3
SYMMETRY MCSymmetry
SPECIFICATION MixSpec
INVARIANTS
    CountersMatchTree
    OnlyWrittenIsRead
PROPERTIES
    PathsLeadRight
    BytesKept
