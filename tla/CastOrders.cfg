SPECIFICATION FairSpec
CONSTANTS
    FirstExpected = 0
    MaxSeq = 4
    SendRingCap = 2
    ReorderCap = 1
    MaxNakRetries = 1
    ResyncGap = 5
    MaxDelay = 5
    NetCap = 2
    NakCap = 1
    Oversize = {2}
    SendFails = TRUE
PROPERTIES EachOnceInOrder StreamAdvances
