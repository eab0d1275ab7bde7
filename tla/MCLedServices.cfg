CONSTANTS
  f1 = f1
  person = person
  other = other
  Frontiers = {f1}
  Buyers = {person, other}
  Persons = {person}
  Quantities = {20}
  Ratios = {1, 500}
  WindowDays = 3
  SlotsPerDay = 3
  BuyersPeriod = 5
  MaxWeight = 60
SPECIFICATION FairSpec
INVARIANTS WeightIsWindow TotalCoversServices RecentSalesCount
PROPERTY SalesFade
