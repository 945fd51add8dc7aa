SPECIFICATION FrontSpec
CONSTANTS
    Bases = {"a/b", "a:b", "c"}
    Safe <- SafeAs
    InMemory = FALSE
    Faults = {"write", "remove"}
    MaxRepeat = 3
    MaxOps = 3
    MAX_SESSIONS = 2
    MAX_TASKS = 3
    MAX_MOVES = 1
    MAX_HANDLES = 1
    Pages = {p1}
    Masks = {1}
    MaxFrames = 5
    MaxAudio = 1
    MaxConnects = 2
    MaxOpens = 1
    Null = Null
INVARIANT NothingLost
CHECK_DEADLOCK FALSE
