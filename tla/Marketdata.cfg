SPECIFICATION Spec
CONSTANTS
    Depth = 1
    Journal <- TwoJournals
    Served = 1
    Conns = {1}
    ChannelSets <- OneMask
    MaxOutbound = 2
    MaxTipRetries = 2
    MaxAhead <- Ahead
    MaxEvents = 1
    MaxFrames = 2
    MaxBoots = 2
CHECK_DEADLOCK FALSE
INVARIANTS ClientsFollowBooks BookIsTheEngines
