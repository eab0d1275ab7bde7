--------------------------- MODULE LedTokenProofs ---------------------------
(***************************************************************************)
(* Theorems about led.token, for every set of accounts and every           *)
(* max_amount.  The inductive invariant is the conjunction of the three    *)
(* invariants the runs check and of Uncreated: a burn keeps the supply     *)
(* natural only because the supply is the sum of the balances, and a draw  *)
(* keeps an allowance backed only because it was backed before.            *)
(***************************************************************************)
EXTENDS LedToken, LedRewards, SumTheorems

\* A token that was never created has no supply and no cap.
Uncreated == ~ Created => supply = 0 /\ max_supply = 0

IInv == TypeOK /\ SupplyIsBalances /\ AllowanceBacked /\ Uncreated

Total(b) == SumFunctionOnSet(b, Accounts)

-----------------------------------------------------------------------------
(* What the balance updates do to the sum of the balances. *)

LEMMA TotalUpdate ==
  ASSUME NEW b \in [Accounts -> Nat], NEW a \in Accounts, NEW v \in Nat
  PROVE  Total([b EXCEPT ![a] = v]) = Total(b) - b[a] + v
<1>. DEFINE c == [b EXCEPT ![a] = v]
<1>1. \A x \in Accounts : b[x] \in Int /\ c[x] \in Int
  OBVIOUS
<1>2. c[a] = v /\ \A x \in Accounts \ {a} : c[x] = b[x]
  OBVIOUS
<1>. HIDE DEF c
<1>3. SumFunctionOnSet(c, Accounts) = SumFunctionOnSet(b, Accounts) - b[a] + c[a]
  BY <1>1, <1>2, AccountsAssumption, SumUpdate
<1>. QED
  BY <1>2, <1>3 DEF Total, c

LEMMA TotalMove ==
  ASSUME NEW b \in [Accounts -> Nat], NEW d \in [Accounts -> Nat],
         NEW x \in Accounts, NEW y \in Accounts, NEW q \in Nat, x # y,
         d[x] = b[x] - q, d[y] = b[y] + q,
         \A z \in Accounts \ {x, y} : d[z] = b[z]
  PROVE  Total(d) = Total(b)
<1>. DEFINE c == [b EXCEPT ![x] = d[x]]
<1>1. c \in [Accounts -> Nat] /\ c[y] = b[y] /\ d = [c EXCEPT ![y] = d[y]]
  OBVIOUS
<1>2. Total(c) = Total(b) - b[x] + d[x]
  BY TotalUpdate
<1>. HIDE DEF c
<1>3. Total(d) = Total(c) - c[y] + d[y]
  <2>1. \A v \in Nat : Total([c EXCEPT ![y] = v]) = Total(c) - c[y] + v
    BY <1>1, TotalUpdate
  <2>. QED  BY <1>1, <2>1
<1>4. Total(b) \in Int /\ b[x] \in Nat /\ b[y] \in Nat
  BY AccountsAssumption, SumType DEF Total
<1>. QED
  BY <1>1, <1>2, <1>3, <1>4

LEMMA TotalBounds ==
  ASSUME NEW b \in [Accounts -> Nat], NEW a \in Accounts
  PROVE  Total(b) \in Nat /\ b[a] <= Total(b)
BY AccountsAssumption, SumNatural, SumBoundsTerm DEF Total

-----------------------------------------------------------------------------
LEMMA InitIInv == Init => IInv
<1>. SUFFICES ASSUME Init PROVE IInv
  OBVIOUS
<1>1. TypeOK
  BY MaxAmountAssumption DEF Init, TypeOK
<1>2. SumFunctionOnSet(balance, Accounts) = 0
  BY AccountsAssumption, SumZero DEF Init
<1>3. SupplyIsBalances
  BY <1>2 DEF Init, SupplyIsBalances
<1>. QED
  BY <1>1, <1>3 DEF IInv, AllowanceBacked, Uncreated, Init

LEMMA NextIInv == IInv /\ [Next]_vars => IInv'
<1>. SUFFICES ASSUME IInv, [Next]_vars PROVE IInv'
  OBVIOUS
<1>. USE DEF IInv
<1>0. /\ supply = Total(balance)
      /\ \A a \in Accounts : balance[a] \in Nat /\ balance[a] <= supply
  BY TotalBounds DEF SupplyIsBalances, TypeOK, Total
<1>1. ASSUME NEW a \in Accounts, NEW m \in 0 .. MaxAmount, Create(a, m) PROVE IInv'
  BY <1>1, AccountsAssumption, MaxAmountAssumption
  DEF Create, TypeOK, SupplyIsBalances, AllowanceBacked, allowance_rows, Uncreated, Created
<1>2. ASSUME NEW a \in Accounts, ChangeIssuer(a) PROVE IInv'
  BY <1>2, AccountsAssumption
  DEF ChangeIssuer, TypeOK, SupplyIsBalances, AllowanceBacked, allowance_rows, Uncreated, Created
<1>3. ASSUME NEW a \in Accounts, Freeze(a) PROVE IInv'
  BY <1>3 DEF Freeze, TypeOK, SupplyIsBalances, AllowanceBacked, stat, allowance_rows,
              Uncreated, Created
<1>4. ASSUME NEW a \in Accounts, Unfreeze(a) PROVE IInv'
  BY <1>4 DEF Unfreeze, TypeOK, SupplyIsBalances, AllowanceBacked, stat, allowance_rows,
              Uncreated, Created
<1>5. ASSUME NEW a \in Accounts, NEW q \in Quantities, Issue(a, q) PROVE IInv'
  <2>1. TypeOK' /\ balance[a] + q \in Nat /\ q \in Nat
    BY <1>5 DEF Issue, TypeOK, Quantities, allowance_rows
  <2>2. Total([balance EXCEPT ![a] = balance[a] + q])
          = Total(balance) - balance[a] + (balance[a] + q)
    BY <2>1, TotalUpdate DEF TypeOK
  <2>3. SupplyIsBalances'
    BY <1>0, <1>5, <2>1, <2>2 DEF Issue, SupplyIsBalances, Total, TypeOK
  <2>4. AllowanceBacked' /\ Uncreated'
    BY <1>5, <2>1
    DEF Issue, AllowanceBacked, Uncreated, Created, TypeOK, allowance_rows, Quantities
  <2>. QED  BY <2>1, <2>3, <2>4
<1>6. ASSUME NEW a \in Accounts, NEW q \in Quantities,
             NotFrozen(a), CanPay(a, q), Created,
             balance' = [balance EXCEPT ![a] = @ - q],
             supply' = supply - q,
             ClampAllowance(a, balance[a] - q) \/ DrawAllowance(a, q),
             UNCHANGED <<issuer, max_supply, accounts, frozens>>
      PROVE  IInv'
  <2>1. TypeOK' /\ balance[a] - q \in Nat /\ q \in Nat
    BY <1>0, <1>6
    DEF CanPay, ClampAllowance, DrawAllowance, SetAllowance, EraseAllowance,
        TypeOK, Quantities, allowance_rows
  <2>2. Total([balance EXCEPT ![a] = balance[a] - q])
          = Total(balance) - balance[a] + (balance[a] - q)
    BY <2>1, TotalUpdate DEF TypeOK
  <2>3. SupplyIsBalances'
    BY <1>0, <1>6, <2>1, <2>2 DEF SupplyIsBalances, Total, TypeOK
  <2>4. AllowanceBacked' /\ Uncreated'
    BY <1>6, <2>1
    DEF ClampAllowance, DrawAllowance, SetAllowance, EraseAllowance, AllowanceBacked,
        Uncreated, Created, TypeOK, allowance_rows, Quantities
  <2>. QED  BY <2>1, <2>3, <2>4
<1>7. ASSUME NEW a \in Accounts, NEW q \in Quantities, Burn(a, q) PROVE IInv'
  BY <1>6, <1>7 DEF Burn
<1>8. ASSUME NEW a \in Accounts, NEW b \in Accounts, NEW q \in Quantities,
             BurnFrom(a, b, q)
      PROVE  IInv'
  BY <1>6, <1>8 DEF BurnFrom
<1>9. ASSUME NEW a \in Accounts, NEW b \in Accounts, NEW q \in Quantities, a # b,
             MoveBalance(a, b, q),
             ClampAllowance(a, balance[a] - q) \/ DrawAllowance(a, q),
             UNCHANGED <<stat, frozens>>
      PROVE  IInv'
  <2>1. TypeOK' /\ q \in Nat /\ q <= balance[a]
    BY <1>0, <1>9
    DEF MoveBalance, CanPay, ClampAllowance, DrawAllowance, SetAllowance, EraseAllowance,
        TypeOK, Quantities, stat, allowance_rows
  <2>2. Total(balance') = Total(balance)
    <3>1. balance \in [Accounts -> Nat] /\ balance' \in [Accounts -> Nat] /\ a # b
      BY <1>9, <2>1 DEF TypeOK
    <3>2. /\ balance'[a] = balance[a] - q
          /\ balance'[b] = balance[b] + q
          /\ \A z \in Accounts \ {a, b} : balance'[z] = balance[z]
      BY <1>9, <3>1 DEF MoveBalance
    <3>. QED  BY <2>1, <3>1, <3>2, TotalMove
  <2>3. SupplyIsBalances'
    BY <1>0, <1>9, <2>2 DEF MoveBalance, SupplyIsBalances, Total, stat
  <2>4. AllowanceBacked' /\ Uncreated'
    BY <1>9, <2>1
    DEF MoveBalance, ClampAllowance, DrawAllowance, SetAllowance, EraseAllowance,
        AllowanceBacked, Uncreated, Created, TypeOK, stat, allowance_rows, Quantities
  <2>. QED  BY <2>1, <2>3, <2>4
<1>10. ASSUME NEW a \in Accounts, NEW b \in Accounts, NEW q \in Quantities,
              Transfer(a, b, q)
       PROVE  IInv'
  BY <1>9, <1>10 DEF Transfer
<1>11. ASSUME NEW a \in Accounts, NEW b \in Accounts, NEW c \in Accounts,
              NEW q \in Quantities, TransferFrom(a, b, c, q)
       PROVE  IInv'
  BY <1>9, <1>11 DEF TransferFrom
<1>12. ASSUME NEW a \in Accounts, NEW s \in Accounts \cup {NoAccount}, NEW q \in Nat,
              SetAllowance(a, s, q), a \in accounts, q <= balance[a], balance[a] > 0,
              UNCHANGED <<stat, accounts, balance, frozens>>
       PROVE  IInv'
  BY <1>12
  DEF SetAllowance, TypeOK, SupplyIsBalances, AllowanceBacked, Uncreated, Created, stat
<1>13. ASSUME NEW a \in Accounts, NEW q \in Quantities, IncAllowance(a, q) PROVE IInv'
  <2>1. /\ a \in accounts /\ a \in allowances /\ balance[a] >= allowance[a] + q
        /\ SetAllowance(a, spender[a], allowance[a] + q)
        /\ UNCHANGED <<stat, accounts, balance, frozens>>
    BY <1>13 DEF IncAllowance
  <2>2. /\ balance[a] \in Nat /\ allowance[a] \in Nat /\ q \in Nat
        /\ spender[a] \in Accounts \cup {NoAccount}
    BY DEF TypeOK, Quantities
  <2>3. balance[a] > 0
    BY <2>1 DEF AllowanceBacked
  <2>4. allowance[a] + q \in Nat /\ allowance[a] + q <= balance[a]
    BY <2>1, <2>2
  <2>. QED  BY <1>12, <2>1, <2>2, <2>3, <2>4
<1>14. ASSUME NEW a \in Accounts, NEW q \in Quantities, DecAllowance(a, q) PROVE IInv'
  <2>1. /\ a \in allowances /\ q <= allowance[a]
        /\ SetAllowance(a, spender[a], allowance[a] - q)
        /\ UNCHANGED <<stat, accounts, balance, frozens>>
    BY <1>14 DEF DecAllowance
  <2>2. /\ balance[a] \in Nat /\ allowance[a] \in Nat /\ q \in Nat
        /\ spender[a] \in Accounts \cup {NoAccount}
    BY DEF TypeOK, Quantities
  <2>3. a \in accounts /\ balance[a] > 0 /\ allowance[a] <= balance[a]
    BY <2>1 DEF AllowanceBacked
  <2>4. allowance[a] - q \in Nat /\ allowance[a] - q <= balance[a]
    BY <2>1, <2>2, <2>3
  <2>. QED  BY <1>12, <2>1, <2>2, <2>3, <2>4
<1>15. ASSUME NEW a \in Accounts, NEW b \in Accounts, NEW q \in Quantities,
              Approve(a, b, q)
       PROVE  IInv'
  BY <1>12, <1>15 DEF Approve, CanPay, Quantities, TypeOK
<1>16. ASSUME NEW a \in Accounts, Open(a) \/ Close(a) PROVE IInv'
  BY <1>16
  DEF Open, Close, TypeOK, SupplyIsBalances, AllowanceBacked, Uncreated, Created,
      stat, allowance_rows
<1>17. ASSUME UNCHANGED vars PROVE IInv'
  BY <1>17
  DEF vars, stat, allowance_rows, TypeOK, SupplyIsBalances, AllowanceBacked, Uncreated, Created
<1>. QED
  <2>1. CASE Admin
    BY <2>1, <1>1, <1>2, <1>3, <1>4 DEF Admin
  <2>2. ASSUME NEW a \in Accounts, OwnAction(a) PROVE IInv'
    BY <2>2, <1>5, <1>7, <1>10, <1>13, <1>14, <1>15, <1>16 DEF OwnAction
  <2>3. ASSUME NEW a \in Accounts, DelegatedAction(a) PROVE IInv'
    BY <2>3, <1>8, <1>11 DEF DelegatedAction
  <2>. QED  BY <2>1, <2>2, <2>3, <1>17 DEF Next

(***************************************************************************)
(* Every reachable state satisfies the three invariants.                   *)
(***************************************************************************)
LEMMA Invariance == Spec => []IInv
BY InitIInv, NextIInv, PTL DEF Spec

\* The tables always hold what their row types allow.
THEOREM TypeCorrect == Spec => []TypeOK
BY Invariance, PTL DEF IInv

\* The supply of the token is always the sum of its balances, below the cap.
THEOREM SupplyConserved == Spec => []SupplyIsBalances
BY Invariance, PTL DEF IInv

\* Every allowance row is always covered by the balance of its owner.
THEOREM AllowancesAreBacked == Spec => []AllowanceBacked
BY Invariance, PTL DEF IInv

-----------------------------------------------------------------------------
(***************************************************************************)
(* What one step may never do, and what a step of the token is to a reader *)
(* who sees balances only.                                                 *)
(***************************************************************************)

FrozenStep ==
  \A a \in frozens :
    /\ balance'[a] >= balance[a]
    /\ allowance'[a] = allowance[a] /\ spender'[a] = spender[a]
    /\ a \in accounts => a \in accounts'

ChargedStep ==
  \A a \in Accounts :
    balance'[a] < balance[a] =>
      \/ OwnAction(a)
      \/ allowance[a] - allowance'[a] = balance[a] - balance'[a]

\* Freezing and unfreezing the abstract ledger's holder is Toggle; a new or an
\* enlarged balance is Mint; and so on.
LEMMA AdminStep ==
  ASSUME IInv, Admin
  PROVE  /\ FrozenStep
         /\ balance' = balance
         /\ Abstract!Next \/ UNCHANGED Abstract!vars
<1>1. ASSUME NEW a \in Accounts, NEW m \in 0 .. MaxAmount, Create(a, m)
      PROVE  Abstract!Next
  <2>1. max_supply' \in 1 .. MaxAmount - 1
    BY <1>1, MaxAmountAssumption DEF Create
  <2>2. Abstract!SetCap(max_supply')
    BY <1>1 DEF Create, Abstract!SetCap, IInv, Uncreated
  <2>. QED  BY <2>1, <2>2 DEF Abstract!Next
<1>2. ASSUME NEW a \in Accounts, Freeze(a) \/ Unfreeze(a) PROVE Abstract!Next
  BY <1>2 DEF Freeze, Unfreeze, Abstract!Next, Abstract!Toggle, stat
<1>3. ASSUME NEW a \in Accounts, ChangeIssuer(a) PROVE UNCHANGED Abstract!vars
  BY <1>3 DEF ChangeIssuer, Abstract!vars
<1>4. FrozenStep /\ balance' = balance
  BY DEF Admin, Create, ChangeIssuer, Freeze, Unfreeze, FrozenStep, allowance_rows, IInv, TypeOK
<1>. QED
  BY <1>1, <1>2, <1>3, <1>4 DEF Admin

LEMMA OwnStep ==
  ASSUME IInv, NEW a \in Accounts, OwnAction(a)
  PROVE  /\ FrozenStep
         /\ \A b \in Accounts \ {a} : balance'[b] >= balance[b]
         /\ Abstract!Next \/ UNCHANGED Abstract!vars
<1>1. ASSUME NEW q \in Quantities, Issue(a, q) PROVE Abstract!Next
  <2>1. Abstract!Mint(a, q)
    BY <1>1 DEF Issue, Abstract!Mint, NotFrozen, IInv, TypeOK, Quantities
  <2>. QED  BY <2>1 DEF Abstract!Next, Quantities
<1>2. ASSUME NEW q \in Quantities, Burn(a, q) PROVE Abstract!Next
  <2>1. Abstract!Destroy(a, q)
    BY <1>2 DEF Burn, CanPay, Abstract!Destroy, NotFrozen
  <2>. QED  BY <2>1 DEF Abstract!Next, Quantities
<1>3. ASSUME NEW b \in Accounts, NEW q \in Quantities, Transfer(a, b, q)
      PROVE  Abstract!Next
  <2>1. Abstract!Move(a, b, q)
    BY <1>3 DEF Transfer, MoveBalance, CanPay, Abstract!Move, NotFrozen, stat
  <2>. QED  BY <2>1 DEF Abstract!Next, Quantities
<1>4. ASSUME NEW q \in Quantities, IncAllowance(a, q) \/ DecAllowance(a, q)
      PROVE  UNCHANGED Abstract!vars
  BY <1>4 DEF IncAllowance, DecAllowance, Abstract!vars, stat
<1>5. ASSUME NEW b \in Accounts, NEW q \in Quantities, Approve(a, b, q)
      PROVE  UNCHANGED Abstract!vars
  BY <1>5 DEF Approve, Abstract!vars, stat
<1>6. ASSUME Open(a) \/ Close(a) PROVE UNCHANGED Abstract!vars
  BY <1>6 DEF Open, Close, Abstract!vars, stat
<1>7. FrozenStep /\ \A b \in Accounts \ {a} : balance'[b] >= balance[b]
  BY DEF OwnAction, Issue, Burn, Transfer, IncAllowance, DecAllowance, Approve, Open, Close,
         MoveBalance, ClampAllowance, SetAllowance, EraseAllowance, NotFrozen, CanPay,
         FrozenStep, allowance_rows, Quantities, IInv, TypeOK
<1>. QED
  BY <1>1, <1>2, <1>3, <1>4, <1>5, <1>6, <1>7 DEF OwnAction

LEMMA DelegatedStep ==
  ASSUME IInv, NEW s \in Accounts, DelegatedAction(s)
  PROVE  FrozenStep /\ ChargedStep /\ Abstract!Next
<1>1. ASSUME NEW a \in Accounts, NEW q \in Quantities, BurnFrom(s, a, q)
      PROVE  FrozenStep /\ ChargedStep /\ Abstract!Next
  <2>1. Abstract!Destroy(a, q)
    BY <1>1 DEF BurnFrom, CanPay, Abstract!Destroy, NotFrozen
  <2>2. FrozenStep /\ ChargedStep
    BY <1>1
    DEF BurnFrom, CanPay, DrawAllowance, SetAllowance, EraseAllowance, NotFrozen, FrozenStep,
        ChargedStep, Quantities, IInv, TypeOK
  <2>. QED  BY <2>1, <2>2 DEF Abstract!Next, Quantities
<1>2. ASSUME NEW a \in Accounts, NEW b \in Accounts, NEW q \in Quantities,
             TransferFrom(s, a, b, q)
      PROVE  FrozenStep /\ ChargedStep /\ Abstract!Next
  <2>1. Abstract!Move(a, b, q)
    BY <1>2 DEF TransferFrom, MoveBalance, CanPay, Abstract!Move, NotFrozen, stat
  <2>2. FrozenStep /\ ChargedStep
    BY <1>2
    DEF TransferFrom, MoveBalance, CanPay, DrawAllowance, SetAllowance, EraseAllowance,
        NotFrozen, FrozenStep, ChargedStep, Quantities, IInv, TypeOK
  <2>. QED  BY <2>1, <2>2 DEF Abstract!Next, Quantities
<1>. QED
  BY <1>1, <1>2 DEF DelegatedAction

LEMMA StepFacts ==
  IInv /\ [Next]_vars =>
    /\ [FrozenStep]_vars
    /\ [ChargedStep]_vars
    /\ [Abstract!Next]_(Abstract!vars)
<1>. SUFFICES ASSUME IInv, [Next]_vars
              PROVE  /\ FrozenStep \/ UNCHANGED vars
                     /\ ChargedStep \/ UNCHANGED vars
                     /\ Abstract!Next \/ UNCHANGED Abstract!vars
  OBVIOUS
<1>1. CASE Admin
  BY <1>1, AdminStep DEF ChargedStep, IInv, TypeOK
<1>2. ASSUME NEW a \in Accounts, OwnAction(a) PROVE ChargedStep
  <2>1. \A b \in Accounts : balance[b] \in Nat /\ balance'[b] \in Nat
    BY NextIInv DEF IInv, TypeOK
  <2>2. \A b \in Accounts \ {a} : balance'[b] >= balance[b]
    BY <1>2, OwnStep
  <2>3. \A b \in Accounts : balance'[b] < balance[b] => b = a
    BY <2>1, <2>2
  <2>. QED  BY <1>2, <2>3, Zenon DEF ChargedStep
<1>3. CASE \E a \in Accounts : OwnAction(a)
  BY <1>2, <1>3, OwnStep
<1>4. CASE \E a \in Accounts : DelegatedAction(a)
  BY <1>4, DelegatedStep
<1>5. CASE UNCHANGED vars
  BY <1>5 DEF vars, stat, Abstract!vars
<1>. QED
  BY <1>1, <1>3, <1>4, <1>5 DEF Next

\* Whoever acts, a frozen account gives nothing away.
THEOREM FrozenHold == Spec => FrozenAccountsHold
<1>1. IInv /\ [Next]_vars => [FrozenStep]_vars
  BY StepFacts
<1>. QED
  BY <1>1, Invariance, PTL DEF Spec, FrozenAccountsHold, FrozenStep

\* What others take from an account is charged to what it has allowed.
THEOREM DelegatedSpendCharged == Spec => DelegatedSpendIsCharged
<1>1. IInv /\ [Next]_vars => [ChargedStep]_vars
  BY StepFacts
<1>. QED
  BY <1>1, Invariance, PTL DEF Spec, DelegatedSpendIsCharged, ChargedStep

\* The token implements the abstract ledger: every step moves, mints or
\* destroys what a ledger of balances may, or changes nothing it shows.
THEOREM ImplementsLedger == Spec => LedgerRefined
<1>1. Init => Abstract!Init
  BY DEF Init, Abstract!Init
<1>2. IInv /\ [Next]_vars => [Abstract!Next]_(Abstract!vars)
  BY StepFacts
<1>. QED
  BY <1>1, <1>2, Invariance, PTL DEF Spec, LedgerRefined, Abstract!Spec

-----------------------------------------------------------------------------
(***************************************************************************)
(* The rewards, which led.system issues and pays in led.token, for any     *)
(* number of producers, any issues and any weights that totals cover.  The *)
(* three facts that make the inductive invariant need each other: a claim  *)
(* takes no more than a bucket holds, because the claimer's unpaid blocks  *)
(* are no more than the total, and the total stays natural for that reason. *)
(***************************************************************************)
\* A share by a part of the whole is no more than there is, rounded down.
LEMMA ShareBounds ==
  ASSUME NEW amount \in Nat, NEW part \in Nat, NEW whole \in Nat, part <= whole
  PROVE  /\ Share(amount, part, whole) \in Nat
         /\ Share(amount, part, whole) <= amount
         /\ Share(amount, part, whole) * whole <= amount * part
<1>1. CASE whole = 0
  BY <1>1 DEF Share
<1>2. CASE whole > 0
  <2>. DEFINE n == amount * part
              q == n \div whole
  <2>1. n \in Nat /\ Share(amount, part, whole) = q
    <3>1. n \in Nat
      OBVIOUS
    <3>. HIDE DEF n
    <3>2. Quotient(n, whole) = q
      BY <3>1 DEF Quotient
    <3>. QED  BY <1>2, <3>1, <3>2 DEF Share, n
  <2>2. q \in Nat /\ q * whole <= n /\ n < (q + 1) * whole
    <3>. HIDE DEF n
    <3>. QED  BY <1>2, <2>1
  <2>3. n <= amount * whole
    OBVIOUS
  <2>4. q < amount + 1
    <3>1. q * whole < (amount + 1) * whole
      <4>1. (amount + 1) * whole = amount * whole + whole
        OBVIOUS
      <4>. HIDE DEF n, q
      <4>. QED  BY <1>2, <2>1, <2>2, <2>3, <4>1
    <3>. HIDE DEF n, q
    <3>. QED  BY <1>2, <2>2, <3>1
  <2>. HIDE DEF n, q
  <2>5. q <= amount /\ q * whole <= n
    BY <2>2, <2>4
  <2>. QED  BY <2>1, <2>2, <2>5 DEF n
<1>. QED  BY <1>1, <1>2

\* A share by a negative weight is negative, whatever the weight.
LEMMA ShareNegative ==
  ASSUME NEW amount \in Nat, NEW part \in Int, part < 0, NEW whole \in Nat
  PROVE  Share(amount, part, whole) \in Int /\ Share(amount, part, whole) <= 0
<1>1. CASE whole = 0
  BY <1>1 DEF Share
<1>2. CASE whole > 0
  <2>. DEFINE n == amount * part
  <2>1. n \in Int /\ n <= 0
    OBVIOUS
  <2>. HIDE DEF n
  <2>2. Quotient(n, whole) \in Int /\ Quotient(n, whole) <= 0
    <3>1. CASE n = 0
      BY <1>2, <3>1 DEF Quotient
    <3>2. CASE n < 0
      <4>1. PICK m \in Nat : m = - n
        BY <2>1, <3>2
      <4>2. m \div whole \in Nat
        BY <1>2
      <4>3. Quotient(n, whole) = - (m \div whole)
        BY <2>1, <3>2, <4>1 DEF Quotient
      <4>. QED  BY <4>2, <4>3
    <3>. QED  BY <2>1, <3>1, <3>2
  <2>. QED  BY <1>2, <2>2 DEF Share, n
<1>. QED  BY <1>1, <1>2

RewardsInv ==
  /\ RewardsTypeOK
  /\ Backed
  /\ UnpaidIsCovered

Unpaid(u) == SumFunctionOnSet(u, Producers)

LEMMA ProducersHaveRows ==
  /\ producers = rows["frontier"] \cup rows["interior"]
  /\ producers' = rows'["frontier"] \cup rows'["interior"]
BY DEF producers, Kinds

LEMMA UnpaidOfFunction ==
  ASSUME NEW u, DOMAIN u = Producers
  PROVE  SumFunction(u) = Unpaid(u)
BY DEF SumFunction, Unpaid

\* What one producer's count does to the sum.
LEMMA UnpaidUpdate ==
  ASSUME NEW u \in [Producers -> Nat], NEW p \in Producers, NEW n \in Nat
  PROVE  /\ Unpaid(u) \in Nat /\ u[p] <= Unpaid(u)
         /\ Unpaid([u EXCEPT ![p] = n]) = Unpaid(u) - u[p] + n
<1>. DEFINE w == [u EXCEPT ![p] = n]
<1>1. \A x \in Producers : u[x] \in Int /\ w[x] \in Int
  OBVIOUS
<1>2. w[p] = n /\ \A x \in Producers \ {p} : w[x] = u[x]
  OBVIOUS
<1>3. Unpaid(u) \in Nat /\ u[p] <= Unpaid(u)
  BY RewardsAssumption, SumNatural, SumBoundsTerm DEF Unpaid
<1>. HIDE DEF w
<1>4. SumFunctionOnSet(w, Producers) = SumFunctionOnSet(u, Producers) - u[p] + w[p]
  BY <1>1, <1>2, RewardsAssumption, SumUpdate
<1>. QED  BY <1>2, <1>3, <1>4 DEF Unpaid, w

LEMMA RewardsInitInv == RewardsInit => RewardsInv
<1>. SUFFICES ASSUME RewardsInit PROVE RewardsInv
  OBVIOUS
<1>1. RewardsTypeOK
  <2>1. rows \in [Kinds -> SUBSET Producers] /\ rows["frontier"] \cap rows["interior"] = {}
    BY DEF RewardsInit, Kinds
  <2>2. bucket \in [Buckets -> Nat] /\ bucket_balance \in [Buckets -> Nat] /\ unfunded \in Nat
    BY DEF RewardsInit
  <2>3. is_active \cup rested \subseteq producers /\ unpaid_blocks \in [Producers -> Nat]
    BY DEF RewardsInit
  <2>4. activated \in BOOLEAN /\ last_bucket_fill \in {"never", "now", "earlier"}
    BY DEF RewardsInit
  <2>5. total_unpaid_blocks \in Nat /\ half_year_cnt \in Nat
    BY DEF RewardsInit
  <2>6. maximum_producers \in Nat
    BY RewardsAssumption DEF RewardsInit
  <2>7. fills \in 0 .. MaxFills
    BY RewardsAssumption DEF RewardsInit
  <2>. QED  BY <2>1, <2>2, <2>3, <2>4, <2>5, <2>6, <2>7 DEF RewardsTypeOK
<1>2. UnpaidIsCovered
  <2>1. SumFunctionOnSet(unpaid_blocks, Producers) = 0
    BY RewardsAssumption, SumZero DEF RewardsInit
  <2>2. SumFunction(unpaid_blocks) = Unpaid(unpaid_blocks)
    BY UnpaidOfFunction DEF RewardsInit
  <2>. QED  BY <2>1, <2>2 DEF RewardsInit, UnpaidIsCovered, Unpaid
<1>3. Backed
  BY DEF RewardsInit, Backed, Buckets
<1>. QED  BY <1>1, <1>2, <1>3 DEF RewardsInv

-----------------------------------------------------------------------------
(* claimrewards. *)

LEMMA UnpaidFacts ==
  ASSUME RewardsInv, NEW p \in Producers
  PROVE  /\ unpaid_blocks \in [Producers -> Nat] /\ total_unpaid_blocks \in Nat
         /\ Unpaid(unpaid_blocks) \in Nat /\ Unpaid(unpaid_blocks) <= total_unpaid_blocks
         /\ unpaid_blocks[p] \in Nat /\ unpaid_blocks[p] <= total_unpaid_blocks
<1>1. unpaid_blocks \in [Producers -> Nat] /\ total_unpaid_blocks \in Nat
  BY DEF RewardsInv, RewardsTypeOK
<1>2. Unpaid(unpaid_blocks) \in Nat /\ unpaid_blocks[p] <= Unpaid(unpaid_blocks)
  BY <1>1, UnpaidUpdate
<1>3. Unpaid(unpaid_blocks) <= total_unpaid_blocks
  BY <1>1, UnpaidOfFunction DEF RewardsInv, UnpaidIsCovered
<1>. QED  BY <1>1, <1>2, <1>3

\* No pay is more than its bucket holds, and only a pay for votes is negative.
LEMMA PayBounds ==
  ASSUME RewardsInv, NEW p \in Producers, NEW filled \in [Buckets -> Nat],
         NEW weight \in Int, NEW total \in Nat, weight <= total,
         weight < 0 => p \in rows["interior"], NEW b \in Buckets
  PROVE  /\ Pay(p, filled, weight, total)[b] \in Int
         /\ Pay(p, filled, weight, total)[b] <= filled[b]
         /\ b # "vote" => Pay(p, filled, weight, total)[b] >= 0
<1>1. filled[b] \in Nat
  OBVIOUS
<1>2. /\ Share(filled[b], unpaid_blocks[p], total_unpaid_blocks) \in Nat
      /\ Share(filled[b], unpaid_blocks[p], total_unpaid_blocks) <= filled[b]
  <2>1. /\ unpaid_blocks[p] \in Nat /\ total_unpaid_blocks \in Nat
        /\ unpaid_blocks[p] <= total_unpaid_blocks
    BY UnpaidFacts
  <2>. QED  BY <1>1, <2>1, ShareBounds
<1>3. CASE weight >= 0
  <2>1. weight \in Nat
    BY <1>3
  <2>2. /\ Share(filled[b], weight, total) \in Nat
        /\ Share(filled[b], weight, total) <= filled[b]
    BY <1>1, <2>1, ShareBounds
  <2>. QED  BY <1>1, <1>2, <2>2 DEF Pay
<1>4. CASE weight < 0
  <2>1. p \notin rows["frontier"]
    BY <1>4 DEF RewardsInv, RewardsTypeOK
  <2>2. /\ Share(filled[b], weight, total) \in Int
        /\ Share(filled[b], weight, total) <= 0
    BY <1>1, <1>4, ShareNegative
  <2>. QED  BY <1>1, <1>2, <2>1, <2>2 DEF Pay
<1>. QED  BY <1>3, <1>4

\* Beyond the block bucket's share for the claimer nothing leaves it.
LEMMA BlockPay ==
  ASSUME RewardsInv, NEW p \in Producers, NEW filled \in [Buckets -> Nat],
         NEW weight, NEW total
  PROVE  Pay(p, filled, weight, total)["block"] * total_unpaid_blocks
           <= filled["block"] * unpaid_blocks[p]
<1>1. "block" \in Buckets /\ filled["block"] \in Nat
  BY DEF Buckets
<1>2. Pay(p, filled, weight, total)["block"]
        = Share(filled["block"], unpaid_blocks[p], total_unpaid_blocks)
  BY <1>1 DEF Pay
<1>. QED  BY <1>1, <1>2, UnpaidFacts, ShareBounds

LEMMA PayOutKeeps ==
  ASSUME RewardsInv, NEW p \in Producers,
         NEW filled \in [Buckets -> Nat], NEW received \in [Buckets -> Nat],
         \A b \in Buckets : filled[b] = bucket[b] + received[b],
         NEW weight \in Int, NEW total \in Nat, weight <= total,
         weight < 0 => p \in rows["interior"],
         PayOut(p, filled, received, weight, total)
  PROVE  /\ bucket' \in [Buckets -> Nat] /\ bucket_balance' \in [Buckets -> Nat]
         /\ unfunded' \in Nat /\ Backed'
         /\ bucket'["block"] * total_unpaid_blocks
              >= bucket["block"] * (total_unpaid_blocks - unpaid_blocks[p])
<1>. DEFINE pay == Pay(p, filled, weight, total)
<1>1. /\ bucket' = [b \in Buckets |-> filled[b] - pay[b]]
      /\ bucket_balance' = [b \in Buckets |-> bucket_balance[b] + received[b] - Spent(pay[b])]
      /\ unfunded' = unfunded + (IF pay["vote"] < 0 THEN - pay["vote"] ELSE 0)
      /\ \A b \in Buckets : Spent(pay[b]) <= bucket_balance[b] + received[b]
  BY DEF PayOut
<1>2. \A b \in Buckets : /\ pay[b] \in Int /\ pay[b] <= filled[b]
                         /\ b # "vote" => pay[b] >= 0
                         /\ filled[b] \in Nat /\ received[b] \in Nat
  BY PayBounds
<1>3. /\ bucket \in [Buckets -> Nat] /\ bucket_balance \in [Buckets -> Nat]
      /\ unfunded \in Nat /\ {"block", "ctb", "vote"} \subseteq Buckets
  BY DEF RewardsInv, RewardsTypeOK, Buckets
<1>4. \A n \in Int : Spent(n) = IF n > 0 THEN n ELSE 0
  BY DEF Spent, Saving
<1>5. pay["block"] * total_unpaid_blocks <= filled["block"] * unpaid_blocks[p]
  BY BlockPay
<1>6. /\ bucket["block"] \in Nat /\ filled["block"] \in Nat /\ pay["block"] \in Nat
      /\ bucket["block"] <= filled["block"]
      /\ bucket'["block"] = filled["block"] - pay["block"]
  <2>. HIDE DEF pay
  <2>. QED  BY <1>1, <1>2, <1>3
<1>. HIDE DEF pay
<1>7. bucket' \in [Buckets -> Nat]
  BY <1>1, <1>2
<1>8. \A b \in Buckets :
        /\ bucket_balance'[b] = bucket_balance[b] + received[b] - Spent(pay[b])
        /\ Spent(pay[b]) \in Nat /\ Spent(pay[b]) = IF pay[b] > 0 THEN pay[b] ELSE 0
        /\ bucket'[b] = bucket[b] + received[b] - pay[b]
  <2>. SUFFICES ASSUME NEW b \in Buckets
                PROVE  /\ bucket_balance'[b] = bucket_balance[b] + received[b] - Spent(pay[b])
                       /\ Spent(pay[b]) \in Nat /\ Spent(pay[b]) = IF pay[b] > 0 THEN pay[b] ELSE 0
                       /\ bucket'[b] = bucket[b] + received[b] - pay[b]
    OBVIOUS
  <2>1. bucket_balance'[b] = bucket_balance[b] + received[b] - Spent(pay[b])
    BY <1>1
  <2>2. pay[b] \in Int
    BY <1>2
  <2>3. Spent(pay[b]) = IF pay[b] > 0 THEN pay[b] ELSE 0
    BY <1>4, <2>2
  <2>4. Spent(pay[b]) \in Nat
    BY <2>2, <2>3
  <2>5. bucket'[b] = filled[b] - pay[b] /\ filled[b] = bucket[b] + received[b]
    BY <1>1
  <2>6. bucket[b] \in Nat /\ received[b] \in Nat
    BY <1>3
  <2>. HIDE DEF Spent
  <2>. QED  BY <2>1, <2>2, <2>3, <2>4, <2>5, <2>6
<1>9. \A b \in Buckets : bucket_balance'[b] \in Nat
  BY <1>1, <1>2, <1>3, <1>8
<1>10. bucket_balance' \in [Buckets -> Nat]
  BY <1>1, <1>9
<1>11. unfunded' \in Nat
  <2>1. pay["vote"] \in Int
    BY <1>2, <1>3
  <2>. QED  BY <1>1, <1>3, <2>1
<1>12. Backed'
  <2>1. ASSUME NEW b \in {"block", "ctb"}
        PROVE  bucket'[b] <= bucket_balance'[b]
    <3>1. b \in Buckets /\ b # "vote"
      BY <1>3
    <3>2. bucket[b] <= bucket_balance[b]
      BY DEF RewardsInv, Backed
    <3>3. bucket_balance'[b] = bucket_balance[b] + received[b] - pay[b]
      BY <1>2, <1>8, <3>1
    <3>. QED  BY <1>2, <1>3, <1>8, <3>1, <3>2, <3>3
  <2>2. bucket'["vote"] <= bucket_balance'["vote"] + unfunded'
    <3>1. /\ pay["vote"] \in Int /\ received["vote"] \in Nat
          /\ bucket["vote"] \in Nat /\ bucket_balance["vote"] \in Nat
      BY <1>2, <1>3
    <3>2. bucket["vote"] <= bucket_balance["vote"] + unfunded
      BY DEF RewardsInv, Backed
    <3>3. /\ bucket_balance'["vote"] = bucket_balance["vote"] + received["vote"]
                                        - (IF pay["vote"] > 0 THEN pay["vote"] ELSE 0)
          /\ bucket'["vote"] = bucket["vote"] + received["vote"] - pay["vote"]
      BY <1>3, <1>8
    <3>4. CASE pay["vote"] < 0
      <4>1. unfunded' = unfunded - pay["vote"]
        BY <1>1, <1>3, <3>1, <3>4
      <4>. QED  BY <1>3, <3>1, <3>2, <3>3, <3>4, <4>1
    <3>5. CASE pay["vote"] >= 0
      <4>1. unfunded' = unfunded
        BY <1>1, <1>3, <3>1, <3>5
      <4>2. bucket_balance'["vote"] = bucket_balance["vote"] + received["vote"] - pay["vote"]
        BY <3>1, <3>3, <3>5
      <4>. QED  BY <1>3, <3>1, <3>2, <3>3, <4>1, <4>2
    <3>. QED  BY <3>1, <3>4, <3>5
  <2>. QED  BY <2>1, <2>2 DEF Backed
<1>13. bucket'["block"] * total_unpaid_blocks
         >= bucket["block"] * (total_unpaid_blocks - unpaid_blocks[p])
  <2>. DEFINE T == total_unpaid_blocks
              u == unpaid_blocks[p]
              f == filled["block"]
              y == pay["block"]
              o == bucket["block"]
  <2>1. T \in Nat /\ u \in Nat /\ u <= T
    BY UnpaidFacts
  <2>2. f \in Nat /\ y \in Nat /\ o \in Nat /\ o <= f /\ y * T <= f * u
    BY <1>5, <1>6
  <2>. HIDE DEF T, u, f, y, o
  <2>3. (f - y) * T = f * T - y * T /\ f * (T - u) = f * T - f * u
    BY <2>1, <2>2
  <2>4. o * (T - u) <= f * (T - u)
    BY <2>1, <2>2
  <2>5. (f - y) * T >= o * (T - u)
    BY <2>1, <2>2, <2>3, <2>4
  <2>. QED  BY <1>6, <2>5 DEF T, u, f, y, o
<1>. QED  BY <1>7, <1>10, <1>11, <1>12, <1>13

LEMMA BucketAmounts ==
  ASSUME RewardsInv, NEW new_tokens \in Nat, CanFill(new_tokens)
  PROVE  ToBucket(new_tokens) \in [Buckets -> Nat]
<1>1. half_year_cnt \in Nat /\ new_tokens \div 4 \in Nat
  BY DEF RewardsInv, RewardsTypeOK
<1>2. ToProducers(new_tokens) \in Nat
  BY <1>1 DEF ToProducers
<1>3. \A b \in Buckets : ToBucket(new_tokens)[b] \in Int /\ ToBucket(new_tokens)[b] > 0
  BY <1>2 DEF CanFill, ToBucket
<1>4. ToBucket(new_tokens) = [b \in Buckets |-> ToBucket(new_tokens)[b]]
  BY DEF ToBucket
<1>. QED  BY <1>3, <1>4

\* A claim pays out of what the buckets hold, after it has filled them or not.
LEMMA ClaimPays ==
  ASSUME RewardsInv, NEW p \in Producers, NEW weight \in Int, NEW total \in Nat, weight <= total,
         ClaimRewards(p, weight, total)
  PROVE  /\ bucket' \in [Buckets -> Nat] /\ bucket_balance' \in [Buckets -> Nat]
         /\ unfunded' \in Nat /\ Backed'
         /\ bucket'["block"] * total_unpaid_blocks
              >= bucket["block"] * (total_unpaid_blocks - unpaid_blocks[p])
<1>1. bucket \in [Buckets -> Nat] /\ (weight < 0 => p \in rows["interior"])
  BY DEF RewardsInv, RewardsTypeOK, ClaimRewards
<1>2. ASSUME NEW new_tokens \in Issues, CanFill(new_tokens),
             PayOut(p, [b \in Buckets |-> bucket[b] + ToBucket(new_tokens)[b]],
                    ToBucket(new_tokens), weight, total)
      PROVE  /\ bucket' \in [Buckets -> Nat] /\ bucket_balance' \in [Buckets -> Nat]
             /\ unfunded' \in Nat /\ Backed'
             /\ bucket'["block"] * total_unpaid_blocks
                  >= bucket["block"] * (total_unpaid_blocks - unpaid_blocks[p])
  <2>. DEFINE received == ToBucket(new_tokens)
              filled == [b \in Buckets |-> bucket[b] + received[b]]
  <2>1. received \in [Buckets -> Nat]
    BY <1>2, BucketAmounts, RewardsAssumption
  <2>2. filled \in [Buckets -> Nat] /\ \A b \in Buckets : filled[b] = bucket[b] + received[b]
    <3>. HIDE DEF received
    <3>. QED  BY <1>1, <2>1
  <2>3. PayOut(p, filled, received, weight, total)
    BY <1>2
  <2>. HIDE DEF received, filled
  <2>. QED  BY <1>1, <2>1, <2>2, <2>3, PayOutKeeps
<1>3. CASE PayOut(p, bucket, [b \in Buckets |-> 0], weight, total)
  <2>. DEFINE received == [b \in Buckets |-> 0]
  <2>1. received \in [Buckets -> Nat] /\ \A b \in Buckets : bucket[b] = bucket[b] + received[b]
    BY <1>1
  <2>2. PayOut(p, bucket, received, weight, total)
    BY <1>3
  <2>. HIDE DEF received
  <2>. QED  BY <1>1, <2>1, <2>2, PayOutKeeps
<1>. QED  BY <1>2, <1>3 DEF ClaimRewards

LEMMA ClaimKeeps ==
  ASSUME RewardsInv, NEW p \in Producers, NEW weight \in Int, NEW total \in Nat, weight <= total,
         ClaimRewards(p, weight, total)
  PROVE  RewardsInv'
<1>1. /\ total_unpaid_blocks' = total_unpaid_blocks - unpaid_blocks[p]
      /\ unpaid_blocks' = [unpaid_blocks EXCEPT ![p] = 0]
      /\ rested' = rested \ {p}
      /\ UNCHANGED <<activated, rows, is_active, maximum_producers, half_year_cnt>>
  BY DEF ClaimRewards, SettleBlocks, registry, sizes
<1>2. last_bucket_fill' \in {"never", "now", "earlier"} /\ fills' \in 0 .. MaxFills
  BY RewardsAssumption DEF ClaimRewards, RewardsInv, RewardsTypeOK
<1>3. /\ bucket' \in [Buckets -> Nat] /\ bucket_balance' \in [Buckets -> Nat]
      /\ unfunded' \in Nat /\ Backed'
  BY ClaimPays
<1>4. /\ unpaid_blocks' \in [Producers -> Nat] /\ total_unpaid_blocks' \in Nat
      /\ Unpaid(unpaid_blocks') <= total_unpaid_blocks'
  <2>1. Unpaid([unpaid_blocks EXCEPT ![p] = 0]) = Unpaid(unpaid_blocks) - unpaid_blocks[p] + 0
    BY UnpaidFacts, UnpaidUpdate
  <2>. QED  BY <1>1, <2>1, UnpaidFacts
<1>5. RewardsTypeOK'
  BY <1>1, <1>2, <1>3, <1>4, ProducersHaveRows DEF RewardsInv, RewardsTypeOK
<1>6. UnpaidIsCovered'
  BY <1>4, UnpaidOfFunction DEF UnpaidIsCovered
<1>. QED  BY <1>3, <1>5, <1>6 DEF RewardsInv

-----------------------------------------------------------------------------
(* The other actions. *)

\* Registrations and elections leave the funds and the unpaid blocks alone.
LEMMA BlocksAloneKeep ==
  ASSUME RewardsInv, RewardsTypeOK',
         UNCHANGED <<unpaid_blocks, total_unpaid_blocks, bucket, bucket_balance, unfunded>>
  PROVE  RewardsInv'
BY DEF RewardsInv, UnpaidIsCovered, Backed

LEMMA CountKeeps ==
  ASSUME RewardsInv, NEW p \in Producers, CountBlock(p)
  PROVE  /\ unpaid_blocks' \in [Producers -> Nat] /\ total_unpaid_blocks' \in Nat
         /\ UnpaidIsCovered'
<1>1. /\ unpaid_blocks' = [unpaid_blocks EXCEPT ![p] = unpaid_blocks[p] + 1]
      /\ total_unpaid_blocks' = total_unpaid_blocks + 1
  BY DEF CountBlock
<1>2. unpaid_blocks' \in [Producers -> Nat] /\ total_unpaid_blocks' \in Nat
  BY <1>1, UnpaidFacts
<1>3. Unpaid(unpaid_blocks') = Unpaid(unpaid_blocks) + 1
  <2>1. unpaid_blocks[p] + 1 \in Nat
    BY UnpaidFacts
  <2>2. Unpaid([unpaid_blocks EXCEPT ![p] = unpaid_blocks[p] + 1])
          = Unpaid(unpaid_blocks) - unpaid_blocks[p] + (unpaid_blocks[p] + 1)
    BY <2>1, UnpaidFacts, UnpaidUpdate
  <2>. QED  BY <1>1, <2>2, UnpaidFacts
<1>4. UnpaidIsCovered'
  <2>1. SumFunction(unpaid_blocks') = Unpaid(unpaid_blocks')
    BY <1>2, UnpaidOfFunction
  <2>2. Unpaid(unpaid_blocks') <= total_unpaid_blocks'
    BY <1>1, <1>3, UnpaidFacts
  <2>. QED  BY <2>1, <2>2 DEF UnpaidIsCovered
<1>. QED  BY <1>2, <1>4

LEMMA SizesStay ==
  ASSUME RewardsInv, GrowSize \/ UNCHANGED sizes
  PROVE  maximum_producers' \in Nat /\ half_year_cnt' \in Nat
BY DEF RewardsInv, RewardsTypeOK, GrowSize, sizes

LEMMA OnBlockKeeps ==
  ASSUME RewardsInv, OnBlock
  PROVE  RewardsInv'
<1>1. /\ UNCHANGED <<activated, rows, is_active, bucket, bucket_balance, unfunded, fills>>
      /\ rested' \in {rested, producers}
      /\ last_bucket_fill' \in {"never", "now", "earlier"}
      /\ GrowSize \/ UNCHANGED sizes
  BY DEF OnBlock, registry
<1>2. /\ unpaid_blocks' \in [Producers -> Nat] /\ total_unpaid_blocks' \in Nat
      /\ UnpaidIsCovered'
  <2>1. CASE UNCHANGED blocks
    BY <2>1 DEF blocks, RewardsInv, RewardsTypeOK, UnpaidIsCovered
  <2>2. ASSUME NEW p \in producers, CountBlock(p) PROVE p \in Producers
    BY <2>2, ProducersHaveRows DEF RewardsInv, RewardsTypeOK, Kinds
  <2>. QED  BY <2>1, <2>2, CountKeeps DEF OnBlock
<1>3. RewardsTypeOK'
  BY <1>1, <1>2, SizesStay, ProducersHaveRows DEF RewardsInv, RewardsTypeOK
<1>4. Backed'
  BY <1>1 DEF RewardsInv, Backed
<1>. QED  BY <1>2, <1>3, <1>4 DEF RewardsInv

LEMMA EraseKeeps ==
  ASSUME RewardsInv, NEW p \in Producers, Erase(p)
  PROVE  RewardsInv'
<1>1. /\ unpaid_blocks' = [unpaid_blocks EXCEPT ![p] = 0]
      /\ rows' = [k \in Kinds |-> rows[k] \ {p}]
      /\ is_active' = is_active \ {p} /\ rested' = rested \ {p}
      /\ UNCHANGED <<activated, total_unpaid_blocks, bucket, bucket_balance, unfunded,
                     last_bucket_fill, fills, maximum_producers, half_year_cnt>>
  BY DEF Erase, funds, sizes
<1>2. unpaid_blocks' \in [Producers -> Nat] /\ Unpaid(unpaid_blocks') <= total_unpaid_blocks
  <2>1. Unpaid([unpaid_blocks EXCEPT ![p] = 0]) = Unpaid(unpaid_blocks) - unpaid_blocks[p] + 0
    BY UnpaidFacts, UnpaidUpdate
  <2>. QED  BY <1>1, <2>1, UnpaidFacts
<1>3. /\ rows' \in [Kinds -> SUBSET Producers]
      /\ rows'["frontier"] = rows["frontier"] \ {p} /\ rows'["interior"] = rows["interior"] \ {p}
  BY <1>1 DEF RewardsInv, RewardsTypeOK, Kinds
<1>4. RewardsTypeOK'
  BY <1>1, <1>2, <1>3, ProducersHaveRows DEF RewardsInv, RewardsTypeOK
<1>5. UnpaidIsCovered'
  BY <1>1, <1>2, UnpaidOfFunction DEF UnpaidIsCovered
<1>6. Backed'
  BY <1>1 DEF RewardsInv, Backed
<1>. QED  BY <1>4, <1>5, <1>6 DEF RewardsInv

LEMMA RewardsStepInv == RewardsInv /\ [RewardsNext]_rewards_vars => RewardsInv'
<1>. SUFFICES ASSUME RewardsInv, [RewardsNext]_rewards_vars PROVE RewardsInv'
  OBVIOUS
<1>1. CASE OnBlock
  BY <1>1, OnBlockKeeps
<1>2. CASE IdleBlock
  <2>1. /\ UNCHANGED <<activated, rows, is_active, unpaid_blocks, total_unpaid_blocks,
                       bucket, bucket_balance, unfunded, fills, maximum_producers, half_year_cnt>>
        /\ rested' \in {rested, producers}
        /\ last_bucket_fill' \in {"never", "now", "earlier"}
    BY <1>2 DEF IdleBlock, registry, blocks, sizes
  <2>2. RewardsTypeOK'
    BY <2>1, ProducersHaveRows DEF RewardsInv, RewardsTypeOK
  <2>. QED  BY <2>1, <2>2, BlocksAloneKeep
<1>3. ASSUME NEW p \in Producers, NEW total \in 0 .. MaxTotal,
             NEW weight \in - MaxTotal .. total,
             ClaimRewards(p, weight, total)
      PROVE  RewardsInv'
  <2>1. weight \in Int /\ total \in Nat /\ weight <= total
    BY RewardsAssumption
  <2>. QED  BY <1>3, <2>1, ClaimKeeps
<1>4. ASSUME NEW p \in Producers, NEW k \in Kinds, Register(p, k) PROVE RewardsInv'
  <2>1. /\ p \notin producers \/ p \in rows[k]
        /\ rows' = [rows EXCEPT ![k] = @ \cup {p}] /\ is_active' = is_active \cup {p}
        /\ UNCHANGED <<activated, rested, unpaid_blocks, total_unpaid_blocks, bucket,
                       bucket_balance, unfunded, last_bucket_fill, fills, maximum_producers,
                       half_year_cnt>>
    BY <1>4 DEF Register, blocks, funds, sizes
  <2>2. /\ rows' \in [Kinds -> SUBSET Producers]
        /\ rows'["frontier"] \cap rows'["interior"] = {}
        /\ producers' = producers \cup {p}
    BY <2>1, ProducersHaveRows DEF RewardsInv, RewardsTypeOK, Kinds
  <2>3. RewardsTypeOK'
    BY <2>1, <2>2 DEF RewardsInv, RewardsTypeOK
  <2>. QED  BY <2>1, <2>3, BlocksAloneKeep
<1>5. ASSUME NEW p \in Producers, NEW active \in BOOLEAN, SetActive(p, active) PROVE RewardsInv'
  <2>1. /\ p \in producers /\ is_active' \in {is_active \cup {p}, is_active \ {p}}
        /\ UNCHANGED <<activated, rows, rested, unpaid_blocks, total_unpaid_blocks, bucket,
                       bucket_balance, unfunded, last_bucket_fill, fills, maximum_producers,
                       half_year_cnt>>
    BY <1>5 DEF SetActive, blocks, funds, sizes
  <2>2. RewardsTypeOK'
    BY <2>1, ProducersHaveRows DEF RewardsInv, RewardsTypeOK
  <2>. QED  BY <2>1, <2>2, BlocksAloneKeep
<1>6. ASSUME NEW p \in Producers, Erase(p) PROVE RewardsInv'
  BY <1>6, EraseKeeps
<1>7. ASSUME NEW on \in BOOLEAN, SetActivated(on) PROVE RewardsInv'
  <2>1. /\ activated' \in BOOLEAN
        /\ UNCHANGED <<rows, is_active, rested, unpaid_blocks, total_unpaid_blocks, bucket,
                       bucket_balance, unfunded, last_bucket_fill, fills, maximum_producers,
                       half_year_cnt>>
    BY <1>7 DEF SetActivated, registry, blocks, funds, sizes
  <2>2. RewardsTypeOK'
    BY <2>1, ProducersHaveRows DEF RewardsInv, RewardsTypeOK
  <2>. QED  BY <2>1, <2>2, BlocksAloneKeep
<1>8. CASE UNCHANGED rewards_vars
  <2>1. UNCHANGED <<activated, rows, is_active, rested, unpaid_blocks, total_unpaid_blocks,
                    bucket, bucket_balance, unfunded, last_bucket_fill, fills, maximum_producers,
                    half_year_cnt>>
    BY <1>8 DEF rewards_vars, registry, blocks, funds, sizes
  <2>2. RewardsTypeOK'
    BY <2>1, ProducersHaveRows DEF RewardsInv, RewardsTypeOK
  <2>. QED  BY <2>1, <2>2, BlocksAloneKeep
<1>. QED
  BY <1>1, <1>2, <1>3, <1>4, <1>5, <1>6, <1>7, <1>8 DEF RewardsNext

LEMMA RewardsInvariance == RewardsSpec => []RewardsInv
  BY RewardsInitInv, RewardsStepInv, PTL DEF RewardsSpec

-----------------------------------------------------------------------------
(* BucketsAreFunded: the account that each pay is transferred from holds   *)
(* what its bucket promises, after any claims, issues and growth.          *)
THEOREM Funded == RewardsSpec => []BucketsAreFunded
<1>1. RewardsInv => BucketsAreFunded
  BY DEF RewardsInv, BucketsAreFunded
<1>. QED  BY <1>1, RewardsInvariance, PTL

(* UnpaidIsCovered: total_unpaid_blocks is never less than the producers'  *)
(* counts add up to, so that claimrewards takes no share of more than all. *)
THEOREM UnpaidCovered == RewardsSpec => []UnpaidIsCovered
  BY RewardsInvariance, PTL DEF RewardsInv

(* ClaimsKeepShares: a claim leaves the block bucket with no less for each *)
(* block that is left unpaid.                                              *)
THEOREM SharesKept == RewardsSpec => ClaimsKeepShares
<1>. DEFINE Kept == bucket'["block"] < bucket["block"] =>
                      bucket'["block"] * total_unpaid_blocks
                        >= bucket["block"] * total_unpaid_blocks'
<1>1. RewardsInv /\ [RewardsNext]_rewards_vars => [Kept]_rewards_vars
  <2>. SUFFICES ASSUME RewardsInv, RewardsNext, bucket'["block"] < bucket["block"]
                PROVE  bucket'["block"] * total_unpaid_blocks
                         >= bucket["block"] * total_unpaid_blocks'
    OBVIOUS
  <2>1. bucket["block"] \in Nat
    BY DEF RewardsInv, RewardsTypeOK, Buckets
  <2>2. bucket' # bucket
    BY <2>1
  <2>3. PICK p \in Producers, total \in 0 .. MaxTotal :
          \E weight \in - MaxTotal .. total : ClaimRewards(p, weight, total)
    BY <2>2 DEF RewardsNext, OnBlock, IdleBlock, Register, SetActive, Erase, SetActivated, funds
  <2>4. PICK weight \in - MaxTotal .. total : ClaimRewards(p, weight, total)
    BY <2>3
  <2>5. weight \in Int /\ total \in Nat /\ weight <= total
    BY RewardsAssumption
  <2>6. total_unpaid_blocks' = total_unpaid_blocks - unpaid_blocks[p]
    BY <2>4 DEF ClaimRewards, SettleBlocks
  <2>7. bucket'["block"] * total_unpaid_blocks
          >= bucket["block"] * (total_unpaid_blocks - unpaid_blocks[p])
    BY <2>4, <2>5, ClaimPays
  <2>. QED  BY <2>6, <2>7
<1>. QED
  BY <1>1, RewardsInvariance, PTL DEF RewardsSpec, ClaimsKeepShares

=============================================================================
