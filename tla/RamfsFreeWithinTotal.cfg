CONSTANTS
    x = x
    y = y
    JUNK = JUNK
    Name = {"etc", "host"}
    ETC = "etc"
    HOST = "host"
    Hostname <- MCHostname
    Handle = {1, 2}
    Byte <- MCByte
    Buffers <- MCBuffers
    Counts = {0, 1, 2}
    WIDTH = 16
    TOTAL = 8
    MAX_NODES = 3
    MAX_SIZE = 3
SPECIFICATION MixSpec
INVARIANTS
    FreeWithinTotal
