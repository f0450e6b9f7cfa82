\* Three attempts over many lives; one order; two coins; two observations; one ranked symbol; three scan cycles.
CONSTANTS
  x1 = x1
  x2 = x2
  y1 = y1
  RVN = RVN
  ZIL = ZIL
  Binance = Binance
  Global = Global
  None = None
  Torn = Torn
  Missing = Missing
  Attempts = {x1, x2, y1}
  MaxConcurrent = 1
  IncidentTypes <- MCIncidentTypes
  Keys = {RVN, ZIL, Binance, Global}
  SymbolKey <- MCSymbolKey
  ExchangeKey <- MCExchangeKey
  GlobalKey = Global
  TripThreshold = 2
  Cooldown = 1
  MaxNow = 3
  OrderQty = 3
  TradeQtys = {1, 2}
  MaxPolls = 2
  Price = 2
  Null = Null
  Coins = {"a", "b"}
  BybitPages <- MCBybitPages
  RefreshInterval = 1
  MaxTime = 2
  MaxListings = 1
  NoUniverse = NoUniverse
  Instruments <- MCInstruments
  Nothing = Nothing
  FeeRates = {1, Nothing}
  Readings <- MCReadings
  AccountUsdt = {0, 30}
  Wanted = {20}
  Spread = 2
  RateUnit = 10
  DefaultRate = 1
  Cap = 16
  AccountTtl = 1
  InfoTtl = 1
  LatestTime = 1
  MaxAlterations = 1
  MaxObservations = 2
  Listing <- MCListing
  Quotes <- MCRankedQuotes
  BinanceKeys <- MCBinanceKeys
  BybitKeys <- MCBybitKeys
  BinanceLots <- MCBinanceLots
  BybitLots <- MCBybitLots
  MaxSymbols = 1
  AskPrice = 3
  LegCap = 10
  Purses = {0, 12}
  Hoards = {0, 4}
  LatencyUnit = 10
  MaxTransfers = 1
  NotRead = NotRead
  Universe <- MCUniverse
  Tickers <- MCTickers
  Outcomes <- MCOutcomes
  MinRawSpread = 1
  MaxStageB = 2
  MomentumTopUp = 1
  LastTick = 2
  MaxCycles = 3
  MaxFaults = 1
  Lost = Lost
  Situations <- MCSituations
  Confirmations = 2
  Window = 1
  Persistent = 2
  Lookback = 1
  MaxPerAsset = 8
  MaxExposure = 12
  MaxRebalance = 5
  NoAdvice = NoAdvice
SPECIFICATION OperationsSpec
INVARIANTS
  NoSessionOverARecord
  PausedByItsOwnFailures
  PricedReportIsExact
  UniverseIsOneReading
  ReadIsFresh
  UnknownIsNeverSafe
  ExposureWithinLimits
  NoBuyOnOneSighting
PROPERTIES
  LivesImplementGuard
