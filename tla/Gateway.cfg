SPECIFICATION Spec
CONSTANTS
  None = None
  Cids = {a}
  Capacity = 1
  Threshold = 1
  Cooldown = 1
  Window = 1
  Burst <- MCBurst
  Conns = {c1}
  MaxOrders = 2
  MaxFills = 1
  MaxRing = 1
  MaxUnsent = 1
  MaxTime = 4
  LastSubmit = 2
  Timeout = 0
  SweepEvery = 1
  CloseGrace = 1
  MaxOutbound = 2
  BeatEvery = 3
  MaxSessions = 1
CHECK_DEADLOCK FALSE
INVARIANTS CidNamesOneOrder LiveIsCancellable SessionsAreServed AdmissionIsSound EveryOrderIsAnswered
