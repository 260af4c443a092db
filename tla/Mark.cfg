SPECIFICATION Spec
CONSTANTS
    Sources = {0, 1, 2}
    Symbols = {1}
    Prices = {1, 4}
    Staleness = 2
    RingSize = 1
    BufferLimit = 0
    MaxRetries = 0
    MaxTime = 3
    MaxUpdates = 3
    MaxLag = 0
    MaxFaults = 1
CHECK_DEADLOCK FALSE
INVARIANTS MarkIsMiddle MarksReachRisk
