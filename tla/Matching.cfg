SPECIFICATION ScenarioSpec
CONSTANTS
  Users = {"a", "b"}
  Capacity = 5
  MaxMakers = 2
  Requests <- AllRequests
  MaxOrders = 4
  MaxEvictions = 1
  Mid = 30000
  Tick = 1
  Lot = 1
  NewTicks = {5}
INVARIANTS BookAgrees BestIsBest
PROPERTIES ImplementsAbstract
