SPECIFICATION FairSpec
CONSTANTS
    Calls = {1, 2}
    Threads = 2
    Fds = {3, 4, 5, 6, 7, 8, 9, 10}
    Capacity = 1
    InputUnits = 2
    Programs <- Commands
INVARIANTS TypeOK ResultWhole NothingHeld
PROPERTIES IsCommandCall CallEnds
CHECK_DEADLOCK FALSE
