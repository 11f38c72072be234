SPECIFICATION FairSpec
CONSTANTS
  Pools = {p1, p2}
  FeePools = {p1}
  Routes = {{p1, p2}}
  Unset = Unset
  ChangedCap = 2
  MaxVer = 1
  MaxPolls = 1
INVARIANTS MemoOfThisGeneration
PROPERTIES SealPrefetchesRoutes SealQuotedUnlessOvertaken ChangeIsRead
CHECK_DEADLOCK FALSE
