\* Three opportunities a cycle, drifts of a percent, a pool of 5100.
CONSTANTS
  Tokens = {"USDC", "USDT", "SOL", "WBNB", "BTC"}
  Whitelisted = {"USDC", "USDT", "SOL", "WBNB", "BTC"}
  Stablecoins = {"USDC", "USDT"}
  Dollars = {"USDC", "USDT"}
  Native <- MCAttemptNative
  EvmChains = {"bsc"}
  SizeTiers = {100, 1000, 5000}
  LoanTiers = {5000}
  MinTvl = 100
  MinAge = 24
  LiquidityReference = 1000
  AgeReference = 720
  VolumeReference = 500
  SlippageBps = 5
  MevBps = 5
  MinEdgeBps = 5
  LoanFeeBps = 5
  MaxRouteLength = 3
  GasScale = 100
  CongestedGas <- MCNoThreshold
  DegradedGas <- MCNoThreshold
  NoFigure = NoFigure
  Deals <- MCDeals
  GasOfChain <- MCGasOfChain
  Drifts <- MCDrifts
  PoolCapital = 5100
  CycleTime = 90
  MaxClock = 180
SPECIFICATION AttemptSpec
INVARIANT ExecutesOnlyProfitableSizes
