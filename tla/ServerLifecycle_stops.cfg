SPECIFICATION FairSpec
CONSTANTS
    w1 = w1
    w2 = w2
    Workers <- TwoWorkers
    MaxSignals = 3
INVARIANTS TypeOK ExitIsClean MainOwnsSignals
PROPERTIES SignalShutsDown StopIsCarriedThrough
CHECK_DEADLOCK FALSE
