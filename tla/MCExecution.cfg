\* One call, two calls, a depth feed and the detection loop.
CONSTANTS
  c1 = c1
  c2 = c2
  coarse = coarse
  fine = fine
  tok = tok
  Attempts = {c1, c2}
  Exchanges = {coarse, fine}
  Symbols = {tok}
  Requests <- MCRequestsAndOversized
  Step <- MCStep
  MinQty <- MCStep
  InitialBalance = 4
  QuoteQtys = {1, 2, 3, 4, 5}
  Fees = {0, 1, 2}
  ListsTrades = {fine}
  LiveTradingEnabled = TRUE
  SymbolAllowlist = {tok}
  AllowedDirections <- MCDirections
  MaxNotionalPerLeg = 1
  MaxConcurrent = 1
  VenueBooks <- MCVenueBooks
  PublishedLevels = 1
  MaxBackoff = 2
  MaxInFlight = 2
  MaxMoves = 3
  NoBook = NoBook
  Venues = {binance, bybit}
  DepthVenues = {bybit}
  SpotPrices = {1, 2}
  MaxQuoteAge = 2
  MaxSkew = 1
  MaxBookAge = 2
  MaxScanWait = 3
  Nothing = Nothing
SPECIFICATION ExecutionSpec
INVARIANTS
  TypeOK
  NeverOversold
  NeutralizedIsFlat
  SlotsCountRunningCalls
  PublishedMirrorsVenue
  NoLostWakeup
  NothingSleptThrough
PROPERTIES
  NoBuyWhileUnreviewed
  RefinesGuardedAttempts
  EveryCallEnds
  EveryUpdateIsScanned
CHECK_DEADLOCK FALSE
