SPECIFICATION Spec
CONSTANTS
  Emitters = {p1, v}
  Pools = {p1, v}
  V4Pools = {v}
  MaxIdx = 2
  MaxBackfill = 1
  Chunk = 1
  StartBlock = 1
  MaxBlock = 4
  MaxLogs = 4
  MaxDrops = 1
INVARIANTS ReplayTellsAll
CHECK_DEADLOCK FALSE
