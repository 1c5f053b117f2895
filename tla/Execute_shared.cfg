SPECIFICATION Spec
CONSTANTS
    Calls = {1, 2}
    Threads = 2
    Fds = {3, 4, 5, 6, 7, 8, 9, 10, 11, 12, 13, 14}
    Capacity = 1
    InputUnits = 1
    Programs <- OneOutput
INVARIANTS OutputsOwn
CHECK_DEADLOCK FALSE
