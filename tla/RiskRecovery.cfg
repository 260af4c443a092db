SPECIFICATION ScenarioSpec
CONSTANTS
  Orders = {1, 2, 3}
  Users = {"a", "b", "c"}
  Members = {"a", "b"}
  Owner <- SmallOwner
  m = m
  s = s
  Nodes = {m, s}
  Free = free
  Seller = {1}
  Qty <- SmallQty
  MaxFaults = 2
SYMMETRY EitherNode
CHECK_DEADLOCK FALSE
INVARIANTS EachFillOnce FreezesFollowOrders
PROPERTIES RowsNeverGoBack
