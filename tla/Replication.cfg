SPECIFICATION FairSpec
CONSTANTS
  NoFile = NoFile
  MaxFile = 2
  MaxSeq = 3
  MaxFaults = 1
  FlushEvery = 2
  MaxDay = 1
CHECK_DEADLOCK FALSE
INVARIANTS FilesHoldTheStream ArchiveIsFaithful
PROPERTIES StreamIsFaithful FollowerCatchesUp
