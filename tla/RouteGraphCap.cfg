SPECIFICATION Spec
CONSTANTS
  Tokens = {1, 2, 3}
  NumPools = 4
  Anchors <- TwoAnchors
  MaxHops = 3
  MaxRoutes = 1
  PairFanout = 1
  Generosity = 8
INVARIANTS CapKept
CHECK_DEADLOCK FALSE
