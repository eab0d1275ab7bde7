CONSTANTS
  v1 = v1
  v2 = v2
  v3 = v3
  c1 = c1
  Accounts = {v1, v2, v3}
  Persons = {v1, v2, v3}
  NoProxy = NoProxy
  Candidates = {c1}
  Companies = {c1}
  MaxInteriors = 1
  MaxStake = 1
  LastWeek = 1
  ErasureWeeks = {0, 1}
  MaxLeft = 8
  Factor <- MCFactor
SPECIFICATION Spec
SYMMETRY Symmetry
INVARIANTS NoProxyOfProxies ProxiedIsSum VoteAmountIsSum WeightIsVoted TotalCoversWeights
