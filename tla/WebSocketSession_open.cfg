SPECIFICATION Spec
CONSTANTS
    Frames <- FewFrames
    Outcomes <- AllOutcomes
    MaxFrames = 1
    DebugLog = TRUE
    SplitHeaders = FALSE
INVARIANTS NoLateCompletion
CHECK_DEADLOCK FALSE
