CONSTANTS
    Key = {"LSHIFT", "RSHIFT", "CTRL", "ALT", "CAPS", "F1", "a"}
    CharKey = {"a"}
    KB_BUFFER_SIZE = 3
    MAX_HELD = 2
    HALF = 3
    HZ = 100
    WIDTH = 5000
    Ms = {0, 9, 10, 29, 30, 50}
    MAX_TICKS = 16
    p1 = p1
    p2 = p2
    NULL = NULL
    QSIZE = 3
    TIME_SLICE = 2
    ANIM_MAX = 2
    Kinds <- MCKinds
    Deltas = {70}
    MAX_STARTS = 3
SPECIFICATION LiveSpec
INVARIANTS
    EndsAreReported
PROPERTIES
    NoStarvationRR
    TopPriorityWins
    KeysInOrder
    NoKeyStuck
    SleepLongEnough
    SleepReturns
    EveryAnimationEnds
