---------------------------- MODULE StakeEscrow ----------------------------
(***************************************************************************)
(* What staking promises the owners of tokens, without delegations,        *)
(* resources or deferred transactions: a token of an account is liquid,    *)
(* staked or pending.  What is unstaked is pending until nothing has been  *)
(* added to it for RefundDelay, and is liquid only then; what is staked    *)
(* comes from its payer, or from what is pending for its owner.            *)
(***************************************************************************)
EXTENDS Integers

CONSTANTS Accounts, Genesis, RefundDelay, MaxAmount

VARIABLES liquid, staked, pending,
          waited   \* since the last unstaking, up to RefundDelay

vars == <<liquid, staked, pending, waited>>

Init ==
  /\ liquid = Genesis
  /\ staked = [a \in Accounts |-> 0]
  /\ pending = [a \in Accounts |-> 0]
  /\ waited = [a \in Accounts |-> 0]

\* covered is the part that is taken from what is pending; only the owner's
\* own stake can use it.
Stake(payer, owner, amount, covered) ==
  /\ covered <= amount /\ covered <= pending[owner]
  /\ covered > 0 => payer = owner
  /\ liquid[payer] >= amount - covered
  /\ liquid' = [liquid EXCEPT ![payer] = @ - (amount - covered)]
  /\ staked' = [staked EXCEPT ![owner] = @ + amount]
  /\ pending' = [pending EXCEPT ![owner] = @ - covered]
  /\ waited' = [waited EXCEPT ![owner] = IF pending'[owner] = 0 THEN 0 ELSE @]

Unstake(owner, amount) ==
  /\ staked[owner] >= amount
  /\ staked' = [staked EXCEPT ![owner] = @ - amount]
  /\ pending' = [pending EXCEPT ![owner] = @ + amount]
  /\ waited' = [waited EXCEPT ![owner] = 0]
  /\ UNCHANGED liquid

Release(owner) ==
  /\ pending[owner] > 0 /\ waited[owner] >= RefundDelay
  /\ liquid' = [liquid EXCEPT ![owner] = @ + pending[owner]]
  /\ pending' = [pending EXCEPT ![owner] = 0]
  /\ waited' = [waited EXCEPT ![owner] = 0]
  /\ UNCHANGED staked

Wait ==
  /\ waited' = [a \in Accounts |->
                  IF pending[a] > 0 /\ waited[a] < RefundDelay THEN waited[a] + 1
                                                               ELSE waited[a]]
  /\ UNCHANGED <<liquid, staked, pending>>

Next ==
  \/ \E owner \in Accounts, amount \in 1 .. MaxAmount :
       \/ \E payer \in Accounts, covered \in 0 .. MaxAmount :
            Stake(payer, owner, amount, covered)
       \/ Unstake(owner, amount)
  \/ \E owner \in Accounts : Release(owner)
  \/ Wait

Spec == Init /\ [][Next]_vars

=============================================================================
