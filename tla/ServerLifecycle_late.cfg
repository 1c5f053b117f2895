SPECIFICATION FairSpec
CONSTANTS
    w1 = w1
    w2 = w2
    Workers <- TwoWorkers
    MaxSignals = 3
PROPERTIES SignalHeeded
CHECK_DEADLOCK FALSE
