SPECIFICATION Spec
CONSTANTS
    Frames <- AllFrames
    Outcomes <- AllOutcomes
    MaxFrames = 2
    DebugLog = FALSE
    SplitHeaders = TRUE
INVARIANTS NoLateCompletion OncloseTold
CHECK_DEADLOCK FALSE
