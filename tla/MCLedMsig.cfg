CONSTANTS
  l1 = l1
  l2 = l2
  a1 = a1
  a2 = a2
  both = both
  either = either
  key = key
  Keys = {key}
  Levels = {l1, l2}
  Trxs = {both, either}
  NoTrx = NoTrx
  Accounts = {a1, a2}
  Actor <- MCActor
  Sufficient <- MCSufficient
  MaxCopies = 2
  LastBlock = 2
SPECIFICATION Spec
INVARIANTS TypeOK StaysExecutable
PROPERTY ExecutedIsApproved
