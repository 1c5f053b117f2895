SPECIFICATION FairSpec
CONSTANTS
    Frames <- AllFrames
    Outcomes <- AllOutcomes
    MaxFrames = 3
    DebugLog = TRUE
    SplitHeaders = FALSE
INVARIANTS TypeOK RepliesInOrder MessagesWhole OncloseBounded
PROPERTIES IsChannel Reclaimed Answered
CHECK_DEADLOCK FALSE
