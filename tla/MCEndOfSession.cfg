SPECIFICATION AdapterSpec
CONSTANTS
    MAX_SESSIONS = 1
    MAX_TASKS = 2
    MAX_MOVES = 0
    MAX_HANDLES = 0
INVARIANT NothingAfterDisconnect
CHECK_DEADLOCK FALSE
