SPECIFICATION FairSpec
CONSTANTS
    FirstExpected = 1
    MaxSeq = 4
    SendRingCap = 2
    ReorderCap = 2
    MaxNakRetries = 1
    ResyncGap = 5
    MaxDelay = 5
    NetCap = 1
    NakCap = 1
    Oversize = {2}
    SendFails = TRUE
INVARIANTS NoSilentSkip ReportedIsDelivered
PROPERTIES EventuallyApplied
