SPECIFICATION Spec
CONSTANTS
  Mids = {5000, 5003, 15001, 17990}
  Ticks = {1, 3}
  MinMidTicks = 5000
  N = 9
  W = 2
CHECK_DEADLOCK FALSE
INVARIANTS PricesAreFound SearchesAreExact
