CONSTANTS
  a1 = a1
  a2 = a2
  a3 = a3
  NoAccount = NoAccount
  Accounts = {a1, a2, a3}
  MaxAmount = 4
SPECIFICATION Spec
SYMMETRY Symmetry
INVARIANTS SupplyIsBalances AllowanceBacked
PROPERTIES FrozenAccountsHold DelegatedSpendIsCharged LedgerRefined
