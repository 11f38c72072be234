SPECIFICATION FairSpec
CONSTANTS
  Pools = {p1, p2}
  Cap = 2
  Window = 2
PROPERTIES QueuedIsRead
CHECK_DEADLOCK FALSE
