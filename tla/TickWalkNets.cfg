SPECIFICATION WalkSpec
CHECK_DEADLOCK FALSE
CONSTANTS
  Layouts <- MCLayouts
  Spacing = 2
  WordSize = 2
  MinTick <- MCMinTick
  MaxTick = 7
  Sub = 2
  Amounts = {1, 5, 20}
  MaxSteps = 6
  MaxUnknown = 1
  MaxLost = 1
  MaxChanges = 0
INVARIANT QuoteIsTrue
