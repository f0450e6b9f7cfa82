\* Two exchanges of one chain and a gap that is found twice.
SPECIFICATION DexSpec
CONSTANTS
  Tokens = {"USDC", "USDT", "SOL", "WBNB", "BTC"}
  Whitelisted = {"USDC", "USDT", "SOL", "WBNB", "BTC"}
  Stablecoins = {"USDC", "USDT"}
  Dollars = {"USDC", "USDT"}
  Native <- MCNative
  EvmChains = {"bsc"}
  SizeTiers = {100, 1000, 5000}
  LoanTiers = {5000}
  MinTvl = 100
  MinAge = 24
  LiquidityReference = 1000
  AgeReference = 720
  VolumeReference = 500
  SlippageBps = 5
  MevBps = 5
  MinEdgeBps = 5
  LoanFeeBps = 5
  MaxRouteLength = 3
  GasScale = 100
  CongestedGas <- MCCongested
  DegradedGas <- MCDegraded
  NoFigure = NoFigure
  DexVenues <- MCDexVenues
  ChainOrder <- MCChainOrder
  Offers <- MCOffers
  GasReadings <- MCGasReadings
  Durations = {2}
  MaxCycles = 3
INVARIANTS
  OneAttemptPerGap
