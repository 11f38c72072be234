SPECIFICATION SystemSpec
CONSTANTS
  Words = {0, 1}
  Unset = Unset
  WindowRange = 0
  PatchRange = 1
  MaxLiq = 1
  MaxEvents = 2
  pool = pool
  Others = {d}
  Cap = 1
  Window = 1
INVARIANTS StaleHasCause RestingCacheHasNets QueuedIsOnItsWay
CHECK_DEADLOCK FALSE
