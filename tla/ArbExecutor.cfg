SPECIFICATION Spec
CONSTANTS
  WETH = WETH
  U = U
  T = T
  Native = Native
  Nobody = Nobody
  Tokens = {WETH, U, T}
  Anchors = {WETH, U}
  Pools <- MCPools
  MaxHops = 3
  ForceFlashloan = FALSE
  MinProfit = 0
  MaxIn = 2
  MaxOut = 2
  MaxIdle = 1
  MaxTxs = 2
PROPERTIES KeepsLedger NothingLeftBehind RevertHasCause
CHECK_DEADLOCK FALSE
