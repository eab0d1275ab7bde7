CONSTANTS
  p1 = p1
  p2 = p2
  Producers = {p1, p2}
  InitialProducers = 15
  Issues = {20, 160}
  MaxTotal = 2
  MaxBucket = 40
  MaxBlocks = 3
  MaxFills = 2
SYMMETRY Symmetry
SPECIFICATION RewardsSpec
INVARIANTS BucketsAreFunded UnpaidIsCovered
PROPERTY ClaimsKeepShares
