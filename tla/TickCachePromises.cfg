SPECIFICATION Spec
CONSTANTS
  Words = {0, 1, 2}
  Unset = Unset
  WindowRange = 1
  PatchRange = 1
  MaxLiq = 1
  MaxEvents = 2
PROPERTIES WindowAroundPrice
INVARIANTS StaleOnlyAfterFailure
CHECK_DEADLOCK FALSE
