SPECIFICATION FairSpec
CONSTANTS
  Pools = {p1, p2}
  ClPools = {p1}
  ChangedCap = 1
  TickCap = 1
  InBlockOrder = FALSE
  StartBlock = 0
  MaxBlock = 3
  MaxEvents = 4
PROPERTIES TipNeverRegresses
CHECK_DEADLOCK FALSE
