------------------------------ MODULE LedToken ------------------------------
(***************************************************************************)
(* The led.token contract: one token symbol, its issuer and supply, the    *)
(* balance rows of the accounts, the allowance an account has granted, and *)
(* the accounts the contract has frozen.                                   *)
(*                                                                         *)
(* An action of the contract is one atomic step.  A failed check() aborts  *)
(* the transaction and undoes it, so it is a disabled step here.  The      *)
(* tables are keyed by the symbol and no action touches two symbols; the   *)
(* module keeps one.  Who pays for a row's RAM, memos and notifications    *)
(* are left out, and so are the authorities: the account that must sign is *)
(* the first parameter of its action, or the contract's administrator.     *)
(***************************************************************************)
EXTENDS Integers, FiniteSets, Functions

CONSTANTS Accounts,    \* the account names of the chain
          NoAccount,   \* the issuer of a token that was never created
          MaxAmount    \* asset::max_amount

ASSUME AccountsAssumption == IsFiniteSet(Accounts) /\ NoAccount \notin Accounts
ASSUME MaxAmountAssumption == MaxAmount \in Nat /\ MaxAmount > 1

VARIABLES
  issuer,      \* stat row: the issuer, NoAccount when there is no row
  supply,      \* stat row: the tokens in circulation
  max_supply,  \* stat row: the most there may ever be
  accounts,    \* the accounts that have a balance row
  balance,     \* the amount in the row, 0 without one
  allowances,  \* the owners that have an allowance row
  allowance,   \* the amount in the row, 0 without one
  spender,     \* the account named in the row, NoAccount without one
  frozens      \* the frozen accounts

stat == <<issuer, supply, max_supply>>
allowance_rows == <<allowances, allowance, spender>>
vars == <<stat, accounts, balance, allowance_rows, frozens>>

Quantities == 1 .. MaxAmount

Created == issuer # NoAccount

NotFrozenUnchecked(a) == TRUE    \* slip: a handler that forgets check_frozen
NotFrozen(a) == a \notin frozens                          \* check_frozen

CanPay(a, q) == a \in accounts /\ balance[a] >= q         \* sub_balance's checks

-----------------------------------------------------------------------------
(* The allowance row of one owner. *)

SetAllowance(owner, s, q) ==
  /\ allowances' = allowances \cup {owner}
  /\ allowance' = [allowance EXCEPT ![owner] = q]
  /\ spender' = [spender EXCEPT ![owner] = s]

EraseAllowance(owner) ==
  /\ allowances' = allowances \ {owner}
  /\ allowance' = [allowance EXCEPT ![owner] = 0]
  /\ spender' = [spender EXCEPT ![owner] = NoAccount]

\* slip: the draw is checked and never charged
DrawAllowanceUncharged(owner, q) ==
  owner \in allowances /\ allowance[owner] >= q /\ UNCHANGED allowance_rows

\* A third party draws q of it: the row goes when nothing is left.
DrawAllowance(owner, q) ==
  /\ owner \in allowances
  /\ allowance[owner] >= q
  /\ IF allowance[owner] = q
       THEN EraseAllowance(owner)
       ELSE SetAllowance(owner, spender[owner], allowance[owner] - q)

\* slip: only an emptied balance ends the allowance
ClampAllowanceIfEmpty(owner, left) ==
  IF owner \in allowances /\ left = 0 THEN EraseAllowance(owner)
                                      ELSE UNCHANGED allowance_rows

\* The owner itself is left with "left" tokens: the row may not promise more.
ClampAllowance(owner, left) ==
  CASE owner \in allowances /\ left = 0 -> EraseAllowance(owner)
    [] owner \in allowances /\ left # 0 /\ allowance[owner] > left ->
         SetAllowance(owner, spender[owner], left)
    [] OTHER -> UNCHANGED allowance_rows

-----------------------------------------------------------------------------
Init ==
  /\ issuer = NoAccount
  /\ supply = 0
  /\ max_supply = 0
  /\ accounts = {}
  /\ balance = [a \in Accounts |-> 0]
  /\ allowances = {}
  /\ allowance = [a \in Accounts |-> 0]
  /\ spender = [a \in Accounts |-> NoAccount]
  /\ frozens = {}

\* slip: an existing stat row is overwritten
CreateTwice(iss, maximum_supply) ==
  /\ NotFrozen(iss)
  /\ issuer' = iss
  /\ max_supply' = maximum_supply
  /\ UNCHANGED <<supply, accounts, balance, allowance_rows, frozens>>

\* A maximum of 0 stands for the largest one; max_amount itself is refused.
Create(iss, maximum_supply) ==
  /\ ~ Created
  /\ NotFrozen(iss)
  /\ maximum_supply # MaxAmount
  /\ issuer' = iss
  /\ supply' = 0
  /\ max_supply' = IF maximum_supply = 0 THEN MaxAmount - 1 ELSE maximum_supply
  /\ UNCHANGED <<accounts, balance, allowance_rows, frozens>>

ChangeIssuer(to) ==
  /\ Created
  /\ NotFrozen(to)
  /\ issuer' = to
  /\ UNCHANGED <<supply, max_supply, accounts, balance, allowance_rows, frozens>>

Issue(to, q) ==
  /\ Created
  /\ NotFrozen(to)
  /\ to = issuer
  /\ q <= max_supply - supply
  /\ supply' = supply + q
  /\ accounts' = accounts \cup {to}
  /\ balance' = [balance EXCEPT ![to] = @ + q]
  /\ UNCHANGED <<issuer, max_supply, allowance_rows, frozens>>

Burn(owner, q) ==
  /\ Created
  /\ NotFrozen(owner)
  /\ CanPay(owner, q)
  /\ balance' = [balance EXCEPT ![owner] = @ - q]
  /\ supply' = supply - q
  /\ ClampAllowance(owner, balance[owner] - q)
  /\ UNCHANGED <<issuer, max_supply, accounts, frozens>>

BurnFrom(burner, owner, q) ==
  /\ burner # owner
  /\ Created
  /\ NotFrozen(owner)
  /\ spender[owner] = burner
  /\ DrawAllowance(owner, q)
  /\ CanPay(owner, q)
  /\ balance' = [balance EXCEPT ![owner] = @ - q]
  /\ supply' = supply - q
  /\ UNCHANGED <<issuer, max_supply, accounts, frozens>>

\* slip: a receiver's row that exists is overwritten, not increased
MoveBalanceOver(from, to, q) ==
  /\ CanPay(from, q)
  /\ accounts' = accounts \cup {to}
  /\ balance' = [balance EXCEPT ![from] = @ - q, ![to] = q]

\* sub_balance of from, then add_balance of to, which opens a row if it must.
MoveBalance(from, to, q) ==
  /\ CanPay(from, q)
  /\ accounts' = accounts \cup {to}
  /\ balance' = [balance EXCEPT ![from] = @ - q, ![to] = @ + q]

Transfer(from, to, q) ==
  /\ from # to
  /\ Created
  /\ NotFrozen(from)
  /\ MoveBalance(from, to, q)
  /\ ClampAllowance(from, balance[from] - q)
  /\ UNCHANGED <<stat, frozens>>

Approve(owner, s, q) ==
  /\ Created
  /\ NotFrozen(owner)
  /\ CanPay(owner, q)
  /\ SetAllowance(owner, s, q)
  /\ UNCHANGED <<stat, accounts, balance, frozens>>

\* The amount left in the row is compared; the name in the row is not.
TransferFrom(s, from, to, q) ==
  /\ from # to
  /\ s # from
  /\ Created
  /\ NotFrozen(from)
  /\ DrawAllowance(from, q)
  /\ MoveBalance(from, to, q)
  /\ UNCHANGED <<stat, frozens>>

IncAllowance(owner, q) ==
  /\ NotFrozen(owner)
  /\ owner \in accounts
  /\ owner \in allowances
  /\ balance[owner] >= allowance[owner] + q
  /\ SetAllowance(owner, spender[owner], allowance[owner] + q)
  /\ UNCHANGED <<stat, accounts, balance, frozens>>

\* The row stays when its amount reaches 0.
DecAllowance(owner, q) ==
  /\ NotFrozen(owner)
  /\ owner \in allowances
  /\ allowance[owner] >= q
  /\ SetAllowance(owner, spender[owner], allowance[owner] - q)
  /\ UNCHANGED <<stat, accounts, balance, frozens>>

Open(owner) ==
  /\ Created
  /\ NotFrozen(owner)
  /\ accounts' = accounts \cup {owner}
  /\ UNCHANGED <<stat, balance, allowance_rows, frozens>>

Close(owner) ==
  /\ NotFrozen(owner)
  /\ owner \in accounts
  /\ balance[owner] = 0
  /\ accounts' = accounts \ {owner}
  /\ UNCHANGED <<stat, balance, allowance_rows, frozens>>

Freeze(account) ==
  /\ account \notin frozens
  /\ frozens' = frozens \cup {account}
  /\ UNCHANGED <<stat, accounts, balance, allowance_rows>>

Unfreeze(account) ==
  /\ account \in frozens
  /\ frozens' = frozens \ {account}
  /\ UNCHANGED <<stat, accounts, balance, allowance_rows>>

-----------------------------------------------------------------------------
Admin ==
  \E a \in Accounts :
    \/ \E m \in 0 .. MaxAmount : Create(a, m)
    \/ ChangeIssuer(a)
    \/ Freeze(a)
    \/ Unfreeze(a)

\* What an account does with its own rows.
OwnAction(a) ==
  \/ \E q \in Quantities :
       \/ Issue(a, q)
       \/ Burn(a, q)
       \/ IncAllowance(a, q)
       \/ DecAllowance(a, q)
       \/ \E b \in Accounts : Transfer(a, b, q) \/ Approve(a, b, q)
  \/ Open(a)
  \/ Close(a)

\* What an account does with what another one has allowed.
DelegatedAction(a) ==
  \E owner \in Accounts, q \in Quantities :
    \/ BurnFrom(a, owner, q)
    \/ \E to \in Accounts : TransferFrom(a, owner, to, q)

Next ==
  \/ Admin
  \/ \E a \in Accounts : OwnAction(a)
  \/ \E a \in Accounts : DelegatedAction(a)

Spec == Init /\ [][Next]_vars

-----------------------------------------------------------------------------
(* Every table holds what its row type allows, and an absent row holds     *)
(* nothing.                                                                *)
TypeOK ==
  /\ issuer \in Accounts \cup {NoAccount}
  /\ supply \in Nat
  /\ max_supply \in 0 .. MaxAmount - 1
  /\ accounts \subseteq Accounts
  /\ balance \in [Accounts -> Nat]
  /\ allowances \subseteq Accounts
  /\ allowance \in [Accounts -> Nat]
  /\ spender \in [Accounts -> Accounts \cup {NoAccount}]
  /\ frozens \subseteq Accounts
  /\ \A a \in Accounts : a \notin accounts => balance[a] = 0
  /\ \A a \in Accounts : a \notin allowances => allowance[a] = 0

(* The supply in the stat row is the sum of all balance rows, and it never *)
(* passes the maximum: eight actions change a balance and each must keep   *)
(* the other table in step.                                                *)
SupplyIsBalances ==
  /\ supply = SumFunctionOnSet(balance, Accounts)
  /\ supply <= max_supply

(* An allowance row is always covered: its owner has a balance row that is *)
(* not empty and holds at least what the row promises.  transferfrom and   *)
(* burnfrom rely on it: they never clamp, and close() never looks at the   *)
(* allowance table.                                                        *)
AllowanceBacked ==
  \A a \in allowances :
    a \in accounts /\ balance[a] > 0 /\ allowance[a] <= balance[a]

(* While an account is frozen nothing takes tokens from it, changes what   *)
(* it allows or closes its row, whoever acts.  It may still receive.       *)
FrozenAccountsHold ==
  [][\A a \in frozens :
       /\ balance'[a] >= balance[a]
       /\ allowance'[a] = allowance[a] /\ spender'[a] = spender[a]
       /\ a \in accounts => a \in accounts']_vars

(* What leaves a balance without an action of its owner is charged, token  *)
(* for token, to the allowance the owner has granted.                      *)
DelegatedSpendIsCharged ==
  [][\A a \in Accounts :
       balance'[a] < balance[a] =>
         \/ OwnAction(a)
         \/ allowance[a] - allowance'[a] = balance[a] - balance'[a]]_vars

-----------------------------------------------------------------------------
(* The token implements the abstract ledger of module TokenLedger.         *)
Abstract == INSTANCE TokenLedger WITH held <- frozens
LedgerRefined == Abstract!Spec

=============================================================================
