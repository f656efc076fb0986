CONSTANTS
    zero = zero
    one = one
    ZERO = zero
    Byte <- MCByte
    Bursts <- MCBursts
    Sizes <- MCSizes
    MAX_PIPES = 2
    PIPE_SIZE = 2
    MAX_QUEUES = 2
    MSG_MAX = 2
    MSG_MAX_SIZE = 1
    Type <- MCTypes
    Payloads <- MCPayloads
    WIDTH = 4
SPECIFICATION IpcSpec
INVARIANTS
    RingConsistent
PROPERTIES
    PipeIsFifo
    QueueIsFifo
