SPECIFICATION Spec
CONSTANTS
    Frames <- FewFrames
    Outcomes <- AllOutcomes
    MaxFrames = 2
    DebugLog = FALSE
    SplitHeaders = TRUE
INVARIANTS MessagesWhole
CHECK_DEADLOCK FALSE
