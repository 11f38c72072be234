SPECIFICATION FairSpec
CONSTANTS
  Routes = {r1, r2}
  Lanes = {l1, l2}
  BlacklistBlocks = 2
  MaxBlock = 1
  MaxOpps = 2
INVARIANTS OneTaskPerRoute GapHasOwner
PROPERTIES SuppressionKeptInOrder RouteReleased CacheSettles
CHECK_DEADLOCK FALSE
