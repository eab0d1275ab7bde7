CONSTANTS
  p1 = p1
  p2 = p2
  Producers = {p1, p2}
  InitialProducers = 21
  Issues = {20, 160}
  MaxTotal = 2
  MaxBucket = 40
  MaxBlocks = 3
  MaxFills = 2
SPECIFICATION RewardsSpec
INVARIANT ClaimsCanFill
