CONSTANTS
  a1 = a1
  Accounts = {a1}
  Gift = 2
  Amounts = {1, 2}
  MaxHeld = 3
  HandLimits = {1, 6}
SPECIFICATION ResourcesSpec
INVARIANT LimitsAreOwed
PROPERTY HandSetLimitsHold
