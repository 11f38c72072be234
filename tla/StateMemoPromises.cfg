SPECIFICATION Spec
CONSTANTS
  Pools = {p1, p2}
  FeePools = {p1}
  Routes = {{p1, p2}}
  Unset = Unset
  ChangedCap = 2
  MaxVer = 2
  MaxPolls = 1
INVARIANTS MemoNeverStale
PROPERTIES PollPrefetchesRoutes
CHECK_DEADLOCK FALSE
