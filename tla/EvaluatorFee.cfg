SPECIFICATION Spec
CONSTANTS
  p1 = p1
  p2 = p2
  p3 = p3
  p4 = p4
  Pools <- SomePools
  Kind <- SomeKinds
  Routes <- Overlapping
  Anchor <- Anchored
  Rate <- Rates
  MinProfit <- LeastProfits
  Changes <- SomeChanges
  Grosses <- SomeProfits
  TopN = 2
  DropAge = 0
  InCap = 2
  OutCap = 1
  MaxTime = 1
  MaxBatches = 1
  FirstFee = 8
  UnitPrices = {1}
  PollsPerL1 = 2
  Prio <- Tip
  Margin <- TenPercent
  MaxBlock = 3
INVARIANTS SentPays
PROPERTIES FeeNeverGoesBack
CHECK_DEADLOCK FALSE
