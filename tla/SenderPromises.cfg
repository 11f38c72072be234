SPECIFICATION Spec
CONSTANTS
  Routes = {r1, r2}
  Lanes = {l1}
  BlacklistBlocks = 2
  MaxBlock = 1
  MaxOpps = 2
PROPERTIES SuppressedNotSent SuppressionNeverShortened CacheNeverGoesBack
CHECK_DEADLOCK FALSE
