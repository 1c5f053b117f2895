SPECIFICATION Spec
CONSTANTS
    Arguments <- SomeArguments
    MaxArgs = 4
    Lines <- SomeLines
    MaxLines = 3
    Environments <- SomeEnvironments
    Variable <- SomeVariables
    Number <- Numerals
    LongSpan = 16777216
    IntSpan = 1048576
    PortSpan = 65536
    Tests <- ThreeTests
    Names <- SomeNames
    MaxNames = 3
    DigitBits = 1
    WordBytes = 3
    Polynomial = {4, 5}
    LineChars = 8
    MaxBytes = 4
    NConns = 2
    Requests <- MostRequests
    MaxRequests = 2
    Timeout = 1
    Room = 1
INVARIANTS StartupTypeOK ArgsAsGiven ConfigAsWritten Overridden ColourAsSet NeverGuesses
INVARIANTS CountsTrue SuccessEarned IsRemainder NamesApart
INVARIANTS HttpTypeOK AnswersRight GuardedOrRobbed
PROPERTIES IdleEnds
CHECK_DEADLOCK FALSE
