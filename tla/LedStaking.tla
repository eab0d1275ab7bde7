----------------------------- MODULE LedStaking -----------------------------
(***************************************************************************)
(* Staking in led.system: delegatebw, undelegatebw, the refund request     *)
(* they leave behind and the deferred transaction that pays it.            *)
(*                                                                         *)
(* Tokens move between the liquid balances, the delegations and the        *)
(* pending refunds; the account led.stake holds what is delegated or       *)
(* pending.  Time is relative: a refund request has an age and a deferred  *)
(* transaction a remaining delay, both cut off at refund_delay, so that    *)
(* the model needs no last instant.                                        *)
(*                                                                         *)
(* Left to other modules: the RAM, net and cpu limits changebw sets, and   *)
(* the tallies update_votes keeps (LedVoting).  led.stake and led.ram do   *)
(* not stake themselves.  max_claimable is 0, so validate_ibct_vesting     *)
(* asks only for what the check on staked has already asked.               *)
(***************************************************************************)
EXTENDS Integers, FiniteSets, Functions

CONSTANTS Accounts,     \* the accounts that stake
          RefundDelay,  \* refund_delay_sec, in ticks
          MaxDelta,     \* the largest net or cpu amount of one call
          Genesis,      \* the liquid balance of each account at the start
          NullRead      \* what update_voting_power reads through end()

ASSUME AccountsAssumption == IsFiniteSet(Accounts)
ASSUME RefundDelayAssumption == RefundDelay \in Nat /\ RefundDelay > 0
ASSUME MaxDeltaAssumption == MaxDelta \in Nat
ASSUME GenesisAssumption == Genesis \in [Accounts -> Nat]
ASSUME NullReadAssumption == NullRead \in Int

Unset == -1     \* no deferred transaction under the account's name
Failed == -2    \* none either: the last one ran and its refund aborted

VARIABLES
  balance,             \* liquid core tokens of each account
  stake_balance,       \* balance of led.stake
  net_weight,          \* delband: net delegated, by <<from, to>>
  cpu_weight,          \* delband: cpu delegated, by <<from, to>>
  total_net,           \* userres: net weight of each receiver
  total_cpu,           \* userres: cpu weight of each receiver
  refund_net,          \* refunds: net amount of each owner
  refund_cpu,          \* refunds: cpu amount; the row exists iff one is positive
  age,                 \* ticks since the row's request_time, up to RefundDelay
  timer,               \* ticks until the deferred refund may run, Unset or Failed
  voters,              \* the accounts that have a voters row
  staked,              \* voters: staked
  last_stake,          \* voters: last_stake
  total_stake_amount   \* _gstate.total_stake_amount

delband == <<net_weight, cpu_weight>>
userres == <<total_net, total_cpu>>
refunds == <<refund_net, refund_cpu, age>>
voter_rows == <<voters, staked, last_stake, total_stake_amount>>
vars == <<balance, stake_balance, delband, userres, refunds, timer, voter_rows>>

Pairs == Accounts \X Accounts
NonNegative(x) == IF x > 0 THEN x ELSE 0
RefundAmount(o) == refund_net[o] + refund_cpu[o]

-----------------------------------------------------------------------------
Init ==
  /\ balance = Genesis
  /\ stake_balance = 0
  /\ net_weight = [p \in Pairs |-> 0] /\ cpu_weight = [p \in Pairs |-> 0]
  /\ total_net = [a \in Accounts |-> 0] /\ total_cpu = [a \in Accounts |-> 0]
  /\ refund_net = [a \in Accounts |-> 0] /\ refund_cpu = [a \in Accounts |-> 0]
  /\ age = [a \in Accounts |-> 0]
  /\ timer = [a \in Accounts |-> Unset]
  /\ voters = {}
  /\ staked = [a \in Accounts |-> 0]
  /\ last_stake = [a \in Accounts |-> 0]
  /\ total_stake_amount = 0

UpdateDelband(from, to, net, cpu) ==
  /\ net_weight[<<from, to>>] + net >= 0
  /\ cpu_weight[<<from, to>>] + cpu >= 0
  /\ net_weight' = [net_weight EXCEPT ![<<from, to>>] = @ + net]
  /\ cpu_weight' = [cpu_weight EXCEPT ![<<from, to>>] = @ + cpu]

\* slip: the net amount is added twice
UpdateUserresNetTwice(to, net, cpu) ==
  /\ total_net' = [total_net EXCEPT ![to] = @ + net]
  /\ total_cpu' = [total_cpu EXCEPT ![to] = @ + net]

UpdateUserres(to, net, cpu) ==
  /\ total_net[to] + net >= 0
  /\ total_cpu[to] + cpu >= 0
  /\ total_net' = [total_net EXCEPT ![to] = @ + net]
  /\ total_cpu' = [total_cpu EXCEPT ![to] = @ + cpu]

\* A change that goes through the owner's refund: an increase takes from what
\* is pending first, a decrease adds to it and restarts the clock.
UpdateRefund(owner, net, cpu) ==
  /\ refund_net' = [refund_net EXCEPT ![owner] = NonNegative(@ - net)]
  /\ refund_cpu' = [refund_cpu EXCEPT ![owner] = NonNegative(@ - cpu)]
  /\ age' = [age EXCEPT ![owner] =
               IF net < 0 \/ cpu < 0 \/ refund_net'[owner] + refund_cpu'[owner] = 0
                 THEN 0 ELSE @]

\* slip: the whole increase is paid, covered or not
NotCoveredAll(owner, net, cpu) == NonNegative(net) + NonNegative(cpu)

\* What the refund did not cover is paid from the liquid balance.
NotCovered(owner, net, cpu) ==
  NonNegative(net - refund_net[owner]) + NonNegative(cpu - refund_cpu[owner])

PayStake(source, amount) ==
  /\ balance[source] >= amount
  /\ balance' = [balance EXCEPT ![source] = @ - amount]
  /\ stake_balance' = stake_balance + amount

\* out.send replaces the transaction of the same sender id; cancel_deferred
\* drops it.
ScheduleOnce(owner) ==      \* slip: a transaction already there is left alone
  timer' = [timer EXCEPT ![owner] = IF @ < 0 THEN RefundDelay ELSE @]
Schedule(owner) == timer' = [timer EXCEPT ![owner] = RefundDelay]
CancelDeferred(owner) == timer' = [timer EXCEPT ![owner] = Unset]

\* slip: an existing row takes the change for the stake
UpdateVotingPowerSet(voter, delta) ==
  /\ staked[voter] + delta >= 0
  /\ voters' = voters \cup {voter}
  /\ staked' = [staked EXCEPT ![voter] = delta]
  /\ total_stake_amount' = total_stake_amount + delta
  /\ UNCHANGED last_stake

\* slip: last_stake remembers the stake and the total adds only the change
UpdateVotingPowerLast(voter, delta) ==
  /\ staked[voter] + delta >= 0
  /\ voters' = voters \cup {voter}
  /\ staked' = [staked EXCEPT ![voter] = @ + delta]
  /\ last_stake' = [last_stake EXCEPT ![voter] = staked[voter] + delta]
  /\ total_stake_amount' = total_stake_amount - last_stake[voter] + delta

\* A voter without a row: last_stake is read through the end iterator.
UpdateVotingPower(voter, delta) ==
  LET last == IF voter \in voters THEN last_stake[voter] ELSE NullRead
  IN  /\ staked[voter] + delta >= 0
      /\ voters' = voters \cup {voter}
      /\ staked' = [staked EXCEPT ![voter] = @ + delta]
      /\ last_stake' = [last_stake EXCEPT ![voter] = last]
      /\ total_stake_amount' = total_stake_amount - last + delta

\* slip: what is handed over with transfer is taken from the receiver's refund
DelegatingToSelfAnyway(from, receiver, transfer) == from = receiver

is_delegating_to_self(from, receiver, transfer) == ~ transfer /\ from = receiver

\* from acts; with transfer the stake belongs to the receiver afterwards.
ChangeBW(source, receiver, net, cpu, transfer) ==
  LET from == IF transfer THEN receiver ELSE source
      is_undelegating == net + cpu < 0
      through_refund == is_delegating_to_self(from, receiver, transfer) \/ is_undelegating
  IN  /\ UpdateDelband(from, receiver, net, cpu)
      /\ UpdateUserres(receiver, net, cpu)
      /\ \/ /\ through_refund
            /\ UpdateRefund(from, net, cpu)
            /\ IF refund_net'[from] + refund_cpu'[from] = 0
                 THEN CancelDeferred(from)
                 ELSE Schedule(from)
            /\ PayStake(source, NotCovered(from, net, cpu))
         \/ /\ ~ through_refund
            /\ UNCHANGED refunds
            /\ CancelDeferred(from)
            /\ PayStake(source, net + cpu)
      /\ UpdateVotingPower(from, net + cpu)

DelegateBW(from, receiver, net, cpu, transfer) ==
  /\ net + cpu > 0
  /\ ~ transfer \/ from # receiver
  /\ ChangeBW(from, receiver, net, cpu, transfer)

UndelegateBW(from, receiver, net, cpu) ==
  /\ net + cpu > 0
  /\ ChangeBW(from, receiver, - net, - cpu, FALSE)

\* The refund action, sent by the owner or by the deferred transaction.
RefundableAfter(owner) ==      \* slip: strictly later than the delay
  RefundAmount(owner) > 0 /\ age[owner] > RefundDelay

Refundable(owner) ==
  /\ RefundAmount(owner) > 0
  /\ age[owner] >= RefundDelay
  /\ stake_balance >= RefundAmount(owner)

PayRefund(owner) ==
  /\ Refundable(owner)
  /\ balance' = [balance EXCEPT ![owner] = @ + RefundAmount(owner)]
  /\ stake_balance' = stake_balance - RefundAmount(owner)
  /\ refund_net' = [refund_net EXCEPT ![owner] = 0]
  /\ refund_cpu' = [refund_cpu EXCEPT ![owner] = 0]
  /\ age' = [age EXCEPT ![owner] = 0]
  /\ UNCHANGED <<delband, userres, voter_rows>>

Refund(owner) == PayRefund(owner) /\ UNCHANGED timer

\* The chain runs the deferred transaction once its delay is over.  It is spent
\* whether the refund inside it succeeds or aborts.
RunDeferred(owner) ==
  /\ timer[owner] = 0
  /\ \/ /\ PayRefund(owner)
        /\ CancelDeferred(owner)
     \/ /\ ~ Refundable(owner)
        /\ timer' = [timer EXCEPT ![owner] = Failed]
        /\ UNCHANGED <<balance, stake_balance, delband, userres, refunds, voter_rows>>

\* One tick of the chain's clock, as long as some delay is running.
Tick ==
  /\ \E a \in Accounts : timer[a] > 0 \/ (RefundAmount(a) > 0 /\ age[a] < RefundDelay)
  /\ age' = [a \in Accounts |->
               IF RefundAmount(a) > 0 /\ age[a] < RefundDelay THEN age[a] + 1 ELSE age[a]]
  /\ timer' = [a \in Accounts |-> IF timer[a] > 0 THEN timer[a] - 1 ELSE timer[a]]
  /\ UNCHANGED <<balance, stake_balance, delband, userres, refund_net, refund_cpu, voter_rows>>

-----------------------------------------------------------------------------
Amounts == 0 .. MaxDelta

Next ==
  \/ \E from, receiver \in Accounts, net, cpu \in Amounts :
       \/ \E transfer \in BOOLEAN : DelegateBW(from, receiver, net, cpu, transfer)
       \/ UndelegateBW(from, receiver, net, cpu)
  \/ \E owner \in Accounts : Refund(owner) \/ RunDeferred(owner)
  \/ Tick

\* Blocks keep coming and run the deferred transactions that are due; nobody
\* has to stake, to unstake or to ask for a refund.
Fairness ==
  /\ WF_vars(Tick)
  /\ \A owner \in Accounts : WF_vars(RunDeferred(owner))

Spec == Init /\ [][Next]_vars
FairSpec == Spec /\ Fairness

-----------------------------------------------------------------------------
(* Every row holds what its type allows.                                   *)
TypeOK ==
  /\ balance \in [Accounts -> Nat]
  /\ stake_balance \in Nat
  /\ net_weight \in [Pairs -> Nat] /\ cpu_weight \in [Pairs -> Nat]
  /\ total_net \in [Accounts -> Nat] /\ total_cpu \in [Accounts -> Nat]
  /\ refund_net \in [Accounts -> Nat] /\ refund_cpu \in [Accounts -> Nat]
  /\ age \in [Accounts -> 0 .. RefundDelay]
  /\ timer \in [Accounts -> Failed .. RefundDelay]
  /\ voters \subseteq Accounts
  /\ staked \in [Accounts -> Nat]
  /\ last_stake \in [Accounts -> Int]
  /\ total_stake_amount \in Int

(* led.stake holds, to the token, what is delegated and what is waiting to *)
(* be refunded: an increase that a pending refund covers moves no tokens,  *)
(* and one it covers in part moves the rest.                               *)
StakeIsBacked ==
  stake_balance = SumFunctionOnSet(net_weight, Pairs) + SumFunctionOnSet(cpu_weight, Pairs)
                  + SumFunctionOnSet(refund_net, Accounts)
                  + SumFunctionOnSet(refund_cpu, Accounts)

DelegatedTo(weight, to) == SumFunctionOnSet([f \in Accounts |-> weight[<<f, to>>]], Accounts)
DelegatedFrom(weight, from) == SumFunctionOnSet([t \in Accounts |-> weight[<<from, t>>]], Accounts)

(* A receiver's resources are what its delegators gave it, whoever they    *)
(* are: the check on userres can never fail where the one on delband held. *)
TotalsAreDelegations ==
  \A to \in Accounts :
    /\ total_net[to] = DelegatedTo(net_weight, to)
    /\ total_cpu[to] = DelegatedTo(cpu_weight, to)

(* What an account votes with is what it has delegated, to itself or to    *)
(* others, and not what was delegated to it; with the transfer flag the    *)
(* receiver votes with it.                                                 *)
VoterStakeIsDelegated ==
  \A v \in Accounts :
    staked[v] = DelegatedFrom(net_weight, v) + DelegatedFrom(cpu_weight, v)

(* The global stake total is the sum of the voters' stakes, when the read  *)
(* through the end iterator yields 0.                                      *)
TotalStakeIsSum ==
  NullRead = 0 => total_stake_amount = SumFunctionOnSet(staked, Accounts)

(* A deferred refund never runs before the request it pays has come of     *)
(* age: every path that restarts the request restarts the transaction.     *)
DeferredNeverEarly ==
  \A o \in Accounts :
    RefundAmount(o) > 0 /\ timer[o] # Unset => timer[o] >= 0 /\ age[o] + timer[o] >= RefundDelay

(* Tokens that join a pending refund wait the whole delay: a refund grows  *)
(* only in a step that sets its request_time to the present.               *)
GrowingRefundRestarts ==
  [][\A o \in Accounts :
       refund_net'[o] + refund_cpu'[o] > RefundAmount(o) =>
         age'[o] = 0 /\ timer'[o] = RefundDelay]_vars

(* A refund with a scheduled transaction is paid without its owner's help, *)
(* unless delegatebw cancels the transaction, or calls of delegatebw and   *)
(* undelegatebw restart it for ever.                                       *)
ScheduledRefundIsPaid ==
  \A o \in Accounts :
    \/ (RefundAmount(o) > 0 /\ timer[o] # Unset) ~> (RefundAmount(o) = 0 \/ timer[o] = Unset)
    \/ []<><<timer'[o] = RefundDelay>>_vars

-----------------------------------------------------------------------------
(* Staking implements the escrow of module StakeEscrow: through the tables *)
(* of delegations and refunds, net and cpu apart, and the deferred         *)
(* transactions, what an account gives is its own or its receiver's stake, *)
(* only its own refund pays for it, and nothing is liquid before its delay.*)
Escrow ==
  INSTANCE StakeEscrow WITH liquid <- balance, waited <- age, MaxAmount <- 2 * MaxDelta,
                            pending <- [a \in Accounts |-> RefundAmount(a)]
EscrowRefined == Escrow!Spec

=============================================================================
