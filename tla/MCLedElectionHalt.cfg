CONSTANTS
  Candidates = {1, 2}
  Companies = {1, 2}
  maximum_producers = 2
  ElectionPeriod = 1
  WatchPeriod = 2
  MaxWeight = 2
  MaxSkip = 2
  LastSlot = 5
  MaxCount = 2
  MaxUserSteps = 5
SPECIFICATION FairSpec
PROPERTY ElectionsGoOn
