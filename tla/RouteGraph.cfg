SPECIFICATION Spec
CONSTANTS
  Tokens = {1, 2, 3}
  NumPools = 5
  Anchors <- TwoAnchors
  MaxHops = 3
  MaxRoutes = 4
  PairFanout = 3
  Generosity = 1
INVARIANTS RoutesAreCycles NoRouteTwice AllCyclesFound
CHECK_DEADLOCK FALSE
