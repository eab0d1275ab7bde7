CONSTANTS
  a1 = a1
  a2 = a2
  Accounts = {a1, a2}
  InitialRam = 8
  InitialQuote = 5
  Genesis <- MCGenesis
  Word = 3
  Precision = 20
  MaxRam = 12
  Rates = {0, 2}
  MaxBlocks = 2
SPECIFICATION Spec
INVARIANTS ReservedIsBought MarketIsBooked StakeCoversSale
PROPERTY NeverBelowCurve
