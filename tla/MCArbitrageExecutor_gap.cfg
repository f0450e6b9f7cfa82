\* One call: a result for every order.
CONSTANTS
  c1 = c1
  c2 = c2
  coarse = coarse
  fine = fine
  tok = tok
  Attempts = {c1}
  Exchanges = {coarse, fine}
  Symbols = {tok}
  Requests <- MCRequestsAndOversized
  Step <- MCStep
  MinQty <- MCStep
  InitialBalance = 4
  QuoteQtys = {1, 2, 3, 4, 5}
  Fees = {0, 1, 2}
  ListsTrades = {fine}
  LiveTradingEnabled = TRUE
  SymbolAllowlist = {tok}
  AllowedDirections <- MCDirections
  MaxNotionalPerLeg = 1
  MaxConcurrent = 1
SPECIFICATION Spec
INVARIANTS
  NoSilentGap
