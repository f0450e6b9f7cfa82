\* Five rows of which two are twins: a batch whose transaction is rolled back.
SPECIFICATION ShadowSpec
CONSTANTS
  Rows = {1, 2, 3, 4, 5}
  Opp <- MCOpp
  BatchSize = 2
  TotalCapital = 10
  DefaultHolding = 4
  Reentry = 1
  Null = Null
  MaxLives = 2
  MaxFailures = 1
INVARIANTS
  CreditedOnce
