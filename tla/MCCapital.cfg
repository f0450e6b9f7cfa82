SPECIFICATION Spec
CONSTANTS
  VolumeFloor = 2
  MaxAgeOfQuotes = 2
  MaxNewHolding = 1200
  OrderSize = 1000
  NotSet = NotSet
  MaxAssets = 1
  LeastAssets = 1
  StaticAssets = {"sol"}
  FixedPairs <- MCFixedPairs
  NotOnBybit <- MCNotOnBybit
  Unreadable = Unreadable
  Silent = Silent
  FeeDivisor = 20
  Unit = 130
  Unknown = Unknown
  Exchanges = {binance, bybit}
  Books <- MCBooks
  Holdings <- MCHoldings
  StartUsdt = 60
  Sizes = {20, 40}
  Quantities = {1, 2}
  Floor = 25
  Margin = 0
  MinNotional = 5
  MaxMoves = 3
  Venues = {binance, bybit}
  Lot = 2
  TakerDivisor = 10
  VenueFloor = 25
  FirstUsdt = 60
  Notionals = {10, 20}
  CoinPrices = {1, 2}
  MaxEvents = 4
  Assets = {btc, eth}
  Watched = btc
  Deltas <- MCDeltas
  Events = {e1, e2, e3, e4}
  ToleranceAbs = 0
  NoMovement = NoMovement
  Sites = {x, y}
  Tops <- MCTops
  Stocks = {0, 1, 3}
  Wallets = {5, 60}
  Request = 40
  SafetyMargin = 1
  LeastNotional = 20
  Ttl = 0
  MaxClock = 1
  NoEntry = NoEntry
  Rows = {1, 2, 3, 4, 5}
  Opp <- MCOpp
  BatchSize = 2
  TotalCapital = 10
  DefaultHolding = 4
  Reentry = 1
  Null = Null
  MaxLives = 2
  MaxFailures = 1
  o1 = o1
  o2 = o2
  k1 = k1
  k2 = k2
  old = old
  big = big
  NoOpp = NoOpp
  Opps = {o1, o2}
  PositionKeys = {k1, k2, old, big}
  LegacyKeys = {old, big}
  Position <- MCPosition
  Holding <- MCHolding
  Capital <- MCAmounts
  Initial = 2
  PerTradeCap = 3
  MaxPositions = 2
  Nets <- MCNets
  UnwindCost = 1
  ReentryDelay = 0
  HardStop = 3
  Liveness = 0
  CheckInterval = 2
  Ledgers <- MCLedgers
  Start = 3
  MaxTime = 4
  Tokens = {"USDC", "USDT", "SOL", "WBNB", "BTC"}
  Whitelisted = {"USDC", "USDT", "SOL", "WBNB", "BTC"}
  Stablecoins = {"USDC", "USDT"}
  Dollars = {"USDC", "USDT"}
  Native <- MCNative
  EvmChains = {"bsc"}
  SizeTiers = {100, 1000, 5000}
  LoanTiers = {5000}
  MinTvl = 100
  MinAge = 24
  LiquidityReference = 1000
  AgeReference = 720
  VolumeReference = 500
  SlippageBps = 5
  MevBps = 5
  MinEdgeBps = 5
  LoanFeeBps = 5
  MaxRouteLength = 3
  GasScale = 100
  CongestedGas <- MCCongested
  DegradedGas <- MCDegraded
  NoFigure = NoFigure
  DexVenues <- MCDexVenues
  ChainOrder <- MCChainOrder
  Offers <- MCOffers
  GasReadings <- MCGasReadings
  Durations = {2}
  MaxCycles = 3
INVARIANTS
  TwinsNeverBothAllocated
  WealthBridge
  FloorHeldButForFees
  StopMeansUnexplained
  SuppressedIsStillRefused
  TrackerCoversLocks
  NoDuplicatePositions
  LedgerReconciles
  ForcedOnce
  PersistentGapAttemptedOnce
  TwinNeverAttempted
PROPERTIES
  GainIsRealized
  NewLocksAreCovered
CHECK_DEADLOCK FALSE
