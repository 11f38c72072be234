SPECIFICATION FairSystem
CONSTANTS
  Emitters = {p1, v}
  Pools = {p1, v}
  V4Pools = {v}
  MaxIdx = 3
  MaxBackfill = 0
  Chunk = 1
  ChangedCap = 1
  StartBlock = 1
  MaxBlock = 3
  MaxLogs = 2
  MaxDrops = 1
INVARIANTS NoChangeForgotten BatchCoversItsLogs
PROPERTIES EveryChangeAnnounced TipNeverRegresses
CHECK_DEADLOCK FALSE
