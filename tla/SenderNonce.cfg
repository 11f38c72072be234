SPECIFICATION Spec
CONSTANTS
  Routes = {r1, r2}
  Lanes = {l1}
  BlacklistBlocks = 2
  MaxBlock = 1
  MaxOpps = 2
PROPERTIES FreshNonce
CHECK_DEADLOCK FALSE
