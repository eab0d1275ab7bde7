---------------------------- MODULE TokenLedger ----------------------------
(***************************************************************************)
(* What a token promises its holders, without rows, allowances or issuer:  *)
(* accounts hold amounts, an amount moves between two accounts, comes into *)
(* being or is destroyed, and an account that is held gives nothing away.  *)
(***************************************************************************)
EXTENDS Integers

CONSTANTS Accounts, MaxAmount

VARIABLES balance, supply, max_supply, held

vars == <<balance, supply, max_supply, held>>

Init ==
  /\ balance = [a \in Accounts |-> 0]
  /\ supply = 0
  /\ max_supply = 0
  /\ held = {}

\* The cap is set once, below the largest amount.
SetCap(m) ==
  /\ max_supply = 0
  /\ max_supply' = m
  /\ UNCHANGED <<balance, supply, held>>

Mint(a, q) ==
  /\ a \notin held
  /\ supply + q <= max_supply
  /\ balance' = [balance EXCEPT ![a] = @ + q]
  /\ supply' = supply + q
  /\ UNCHANGED <<max_supply, held>>

Destroy(a, q) ==
  /\ a \notin held
  /\ balance[a] >= q
  /\ balance' = [balance EXCEPT ![a] = @ - q]
  /\ supply' = supply - q
  /\ UNCHANGED <<max_supply, held>>

Move(a, b, q) ==
  /\ a # b
  /\ a \notin held
  /\ balance[a] >= q
  /\ balance' = [balance EXCEPT ![a] = @ - q, ![b] = @ + q]
  /\ UNCHANGED <<supply, max_supply, held>>

Toggle(a) ==
  /\ held' = IF a \in held THEN held \ {a} ELSE held \cup {a}
  /\ UNCHANGED <<balance, supply, max_supply>>

Next ==
  \/ \E m \in 1 .. MaxAmount - 1 : SetCap(m)
  \/ \E a \in Accounts :
       \/ Toggle(a)
       \/ \E q \in 1 .. MaxAmount :
            \/ Mint(a, q)
            \/ Destroy(a, q)
            \/ \E b \in Accounts : Move(a, b, q)

Spec == Init /\ [][Next]_vars

=============================================================================
