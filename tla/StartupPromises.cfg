SPECIFICATION Spec
CONSTANTS
  univ3 = univ3  sushi3 = sushi3  univ4 = univ4  univ2 = univ2  aero = aero  algebra = algebra
  unknown = unknown  manager = manager
  c1 = c1  c2 = c2  e1 = e1  d1 = d1  d2 = d2  d3 = d3  p2 = p2  s2 = s2  v2 = v2  g1 = g1  g2 = g2
  WETH = WETH  ETH = ETH  USD = USD  MEME = MEME
  Pools <- MCPools
  Info <- MCInfo
  Dexes <- MCDexes
  Created <- MCCreated
  Weth = WETH
  Native = ETH
  Dynamic = 8388608
  MaxLpFee = 1000000
  Chunk = 2
  MaxBlock = 4
  Setups <- MCSetups
  Anchors <- MCAnchors
  MinDepth <- MCMinDepth
  Blacklist <- MCBlacklist
  Whitelist <- MCWhitelist
  Manager = manager
  ShortFrom <- MCShortFrom
  MaxHolders = 2
  MaxFailed = 1
  Words <- MCWords
  ScanSlots = 3
  View <- MCView
  TickBases <- MCTickBases
  Samples = 2
  Tries = 2
  MaxMoves = 2
PROPERTY ResumesFromCheckpoint
INVARIANTS SameBlock RealDecimals EveryForkMatched
