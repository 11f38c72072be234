SPECIFICATION Spec
CONSTANTS
  Emitters = {p1}
  Pools = {p1}
  V4Pools = {}
  MaxIdx = 2
  MaxBackfill = 1
  Chunk = 1
  StartBlock = 1
  MaxBlock = 4
  MaxLogs = 4
  MaxDrops = 1
INVARIANTS EveryEventTold
CHECK_DEADLOCK FALSE
