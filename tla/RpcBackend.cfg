SPECIFICATION FairSpec
CONSTANTS
  Emitters = {p1, v}
  Pools = {p1, v}
  V4Pools = {v}
  MaxIdx = 3
  MaxBackfill = 1
  Chunk = 1
  StartBlock = 1
  MaxBlock = 4
  MaxLogs = 3
  MaxDrops = 2
INVARIANTS NoEventLost NoGapBeforeStream
PROPERTIES LiveLogIsNew ImplementsFeed
CHECK_DEADLOCK FALSE
