SPECIFICATION ScenarioSpec
CONSTANTS
  Users = {"a", "b"}
  Capacity = 4
  MaxMakers = 4
  Requests <- AllRequests
  MaxOrders = 3
  MaxEvictions = 1
  Mid = 50000
  Tick = 1
  Lot = 1
  NewTicks = {2}
  MaxCrashes = 1
  MaxCheckpoints = 1
  MaxWal = 6
CHECK_DEADLOCK FALSE
INVARIANTS ReplayReproducesBook RestartContinuesLog
