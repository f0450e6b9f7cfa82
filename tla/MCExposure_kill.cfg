\* The kill switch against the DEX loop.
CONSTANTS
  a1 = a1
  a2 = a2
  coarse = coarse
  fine = fine
  bare = bare
  Unpublished = Unpublished
  Attempts = {a1, a2}
  Markets = {coarse, fine, bare}
  Requests <- MCRequests
  Step <- MCStep
  MinNotional <- MCMinNotional
  Prices = {1, 2}
  FeeKinds = {"base", "quote", "several"}
  Fees = {1}
  ListsTrades = {coarse}
  Enabled = TRUE
  MaxUsdtPerAsset = 5
  MaxConcurrent = 1
  c1 = c1
  c2 = c2
  d1 = d1
  CexIds = {c1}
  DexIds = {d1}
  Cutover = {c1}
  Cross = {d1}
  Capital <- MCCapital
  PortfolioTotal = 2
  DexTotal = 2
  PerTradeCap = 2
  CexHolding = 1
  ReentryDelay = 0
  DexHolding = 2
  Inclusions = {1, 2}
  CexResults <- MCCexResults
  DexProfits = {1}
  Gas = 1
  Operations = {"kill"}
  MaxTime = 2
SPECIFICATION ExposureSpec
PROPERTY KillStopsDex
