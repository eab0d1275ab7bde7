# Verification of the LED contracts

The repository holds the smart contracts of an EOSIO chain: a token, the system
contract with its staking, voting, elections and RAM market, a multi-signature
contract, a forum, and two small privileged helpers. This directory holds TLA+
models of them, the TLC configurations that check the models on small instances,
and proofs that TLAPS checks for instances of every size. Paths below are
relative to `src/contracts/` unless they begin with `src/` or `tests/`
(`src/tests/`).

* Check a model: `tlc -config MCLedStaking.cfg MCLedStaking.tla`
* Check a proof: `tlapm LedStakingProofs.tla`

`PROJECT.json` lists the components, the runs, the hazards each property is for,
a mutant of the model for every property of a passing run, the theorems, and for
each definition the lines of code it stands for.

## 1. The system

A contract is a single-threaded program. The chain runs its actions one after the
other; an action that fails a `check` is undone with the whole transaction it is
part of. So the unit of interleaving is the transaction, and what makes these
contracts hard is not threads but

* *protocol sequences*: any account may call any of its actions at any time, and
  several tables have to stay in step over every sequence;
* *the chain's own calls*: `onblock` before every block, and deferred transactions
  (a refund, an executed proposal) that run some time later, that may be
  replaced, cancelled or run by hand first, and whose failure is not retried;
* *time*: delays, periods and times that have the resolution of a block;
* *numbers*: truncated quotients, 32-bit products, tallies of floating-point weights.

### Components

1. **led.token** (`led.token/src/led.token.cpp`). *State*: per symbol a `stat` row
   (supply, maximum, issuer); per account a balance row, an allowance row (one
   spender and an amount) and perhaps a row in `frozens`. *Actions*: create,
   changeissuer, issue, burn, burnfrom, transfer, approve, transferfrom,
   incallowance, decallowance, open, close, freeze, unfreeze. *Right when* the
   supply is the sum of the balances, an allowance is never more than the balance
   behind it, and only the owner or a charged allowance takes tokens out.
2. **led.system: staking and refunds** (`delegate_bandwidth.cpp`). *State*: `delband`
   (who delegated what to whom), `userres` (what a receiver has), `refunds` (one
   per owner), the stake in `voters`, a global total, and one deferred transaction
   per owner. *Actions*: delegatebw, undelegatebw, refund. *Right when* led.stake
   holds what is delegated and pending, and nothing pending is paid early.
3. **led.system: producer registry** (`producer.cpp`, `led.system.cpp`). *State*: a
   `producers` row, and beside it a `frontiers` row (companies that sell services)
   or an `interiors` row (accounts that are voted for), with activity and
   punishment kept in both. *Actions*: regfrontier, reginterior, unregprod,
   unregproduce, punishprod, punishoff, rmvproducer; `punish()` from onblock.
   *Right when* each producer has exactly one further row and the rows agree.
4. **led.system: voting and proxies** (`producer.cpp`). *State*: voters with stake,
   proxy, list of interiors and the weight they last voted with; the weight of
   every interior; two totals. *Actions*: voteproducer, regproxy, unregproxy, and
   the vote that each change of stake recasts. *Right when* every tally is the sum
   of the votes it was built from.
5. **led.system: services** (`producer.cpp`, `led.system.hpp:219-274`). *State*: a frontier's
   entries, one per day of a window of thirty, which of them are closed, the entry
   visited last; their sum, which is its service weight; the total over all
   frontiers, and what has been dropped from a weight and not yet from the total;
   the buyers a frontier has had. *Actions*: buyservice, buyledservice, buyledsvcdom,
   changeratio, and the daily update in `update_elected_producers`. *Right when* a
   sale counts for the whole window, not longer, and the total covers the weights.
6. **led.system: election and block production** (`producer_pay.cpp`, `producer.cpp`).
   `onblock` counts blocks, punishes who does not produce, proposes a schedule
   every minute and follows the schedules the chain puts into office. *Right
   when* the fittest are elected, slackers leave, and the chain follows.
7. **led.system: rewards** (`producer_pay.cpp`). *State*: three buckets, each also the
   balance of an account of led.token; the unpaid blocks of each producer and their
   total; the last claim, the last issue, and the stage that the producers' part of
   an issue depends on. *Actions*: claimrewards; the counts in onblock; the half-yearly
   growth in `update_elected_producers`. *Right when* what is promised is there, and
   nobody's claim takes from those who claim later.
8. **led.system: RAM market** (`exchange_state.cpp`, `delegate_bandwidth.cpp`,
   `led.system.cpp`). A Bancor connector between bytes and tokens. *Actions*:
   buyram, buyrambytes, sellram, setram, setramrate. *Right when* it always has
   the tokens for the bytes people want to sell back.
9. **led.system: resource limits** (`led.system.cpp`, `native.cpp`, `delegate_bandwidth.cpp`).
   *State*: what an account holds of RAM, net and cpu, a flag for each that the
   administrator has set by hand, and the limits in the chain. *Actions*: setalimits,
   setacctram, setacctnet, setacctcpu, newaccount; buyram, sellram and changebw. *Right
   when* limits follow what is held, except where they were set by hand.
10. **led.system: administration and native actions**. activate, deactivate and init, which
    the models of what they switch contain; setparams, setpriv, updtrevision, setabi,
    which hand parameters to the chain; the actions of the chain without a body.
11. **led.msig** (`led.msig/src/led.msig.cpp`). *State*: proposals, their requested and
    provided approvals, one invalidation time per account. *Actions*: propose,
    approve, unapprove, cancel, exec, invalidate. *Right when* what is executed has
    been approved as it is executed, and the approvals stood at that moment.
12. **led.forum** (`led.forum/src/led.forum.cpp`). *State*: proposals with an expiry and
    two counts, and the votes on them. *Actions*: propose, expire, vote, unvote,
    clnproposal, pasproposal. *Right when* the counts are those of the votes, and a
    result stands once the vote is over.
13. **led.wrap**: one action, no table; hands a transaction to the chain under an id made of
    the executer and the time.
14. **led.bios**: passes each action to a privileged call of the chain.

### How they interact

The system contract pays by inline `transfer`s of led.token: to and from led.stake
for staking, to and from led.ram for the RAM market, from led.bpay, led.cpay and
led.vpay for rewards. Staking recasts the voter's
vote (`update_votes`); votes and services give producers their weights; claims share the rewards by them; the
election reads weights and registry and proposes a schedule to the chain; the
chain runs `onblock`, puts schedules into office and runs the deferred
transactions of staking, led.msig and led.wrap.

## 2. The modules

| module | models | over |
|---|---|---|
| `LedToken` | led.token, all actions, one symbol | |
| `TokenLedger` | abstract: amounts that are minted, moved and destroyed, held accounts | implemented by `LedToken` |
| `LedStaking` | staking, refunds, deferred refunds, the liquid balances behind them | |
| `StakeEscrow` | abstract: tokens that are liquid, staked or pending, each for its owner | implemented by `LedStaking` |
| `LedRegistry` | the producer registry | taken by `LedElection` and `LedVoting` with INSTANCE |
| `LedVoting` | voting and proxies | `LedRegistry` by INSTANCE |
| `LedElection` | onblock, the election, an external chain | `LedRegistry` by INSTANCE |
| `LedServices` | purchases, the window of entries, the daily update | |
| `LedRewards` | claims, buckets, unpaid blocks, the growth of the producers' part | |
| `LedResources` | limits set by hand, by staking and by trading | |
| `LedRamMarket` | the RAM market | |
| `LedMsig` | led.msig and the chain's deferred transactions | |
| `LedForum` | led.forum | |
| `LedTokenProofs` | proofs about token and rewards | |
| `LedStakingProofs`, `LedVotingProofs`, `LedRamMarketProofs` | proofs about each of them | |
| `LedServicesProofs` | proofs about services and resource limits | |
| `LedElectionProofs` | proofs about election and registry | |
| `LedGovernanceProofs` | proofs about msig and forum | |
| `SumTheorems` | lemmas about sums, for all of them | |
| `MCLed...` | instances for TLC | |

One action of a module is one action of the contract: its conjuncts are the
action's `check`s and early returns, its primed variables the rows it writes. A
failed check undoes everything, so it is a disabled step. Where a failure leaves
something behind it is a step of its own: a deferred refund that aborts is spent
(`RunDeferred`), and an `onblock` that aborts leaves the block and its time
(`OnBlockAborts`). A table is a function over the accounts together with the set
of accounts that have a row; where an empty row is erased the set is left out. The
parameters of a model's action are those of the contract's; the account that has
to sign is the first one, or the administrator.

Definitions whose comment begins with *slip:* are not part of the models. Each is
a definition with a plausible mistake in it, used in the place of the right one
to see that a property notices. Names follow the code (`update_votes` is
`UpdateVotes`, `_gstate.total_stake_amount` is `total_stake_amount`).

What is worth knowing about single modules:

* **LedToken.** Balances are bounded only by `max_amount`. `ClampAllowance` is what burn
  and transfer do to the owner's allowance; `DrawAllowance` what transferfrom and
  burnfrom do. transferfrom does not compare the spender in the row with the
  caller: the model has the code's behaviour, and the property that restricts
  spending (`DelegatedSpendIsCharged`) is about amounts.
* **LedStaking.** Time is relative. A request has an age and a deferred transaction a
  remaining delay; both stop at `refund_delay`, which makes the state space finite
  without a last instant. `update_voting_power` reads `last_stake` through the end
  iterator when the voter has no row; what that read yields is the constant
  `NullRead`, any integer. Only `TotalStakeIsSum` depends on it.
* **LedVoting.** `propagate_weight_change` recurses along a chain of proxies. It is a
  walk here, a record of what it has changed so far, iterated as often as there
  are accounts; a `check` that fails on the way sets `ok` to FALSE. Weights are exact
  integers, `Factor[week]` for a unit of stake; the code uses doubles. The code does
  not pass a change of at most 1 on along the proxies (`producer.cpp:758`). Its weeks
  count from 2000 (`producer.cpp:364`), so that a unit of stake weighs more than 2^20 and
  a change of at most 1 is one of rounding only. In the model, which does not round,
  factors are even, so that such a change is no change. `erased` is a history variable.
* **LedElection.** Slots are counted since the last watch and the last election and cut
  off at `LastSlot`. The chain is external: it takes a proposal unless one is under
  way or it is the schedule in office, and puts it into office some time later.
  `maximum_producers` starts at 21 in the code, where its half-yearly growth
  stops, so it is a constant; the growth itself is in `LedRewards`. The registry's
  actions are those of `LedRegistry` over the same variables. The weight of a frontier is
  natural, that of an interior any number: `propagate_weight_change` does not stop at 0
  (`producer.cpp:771`). The order of the rows is the one of the index (`Key`, `Before`:
  active rows by falling weight, the others by rising weight, so that an inactive row with a
  negative weight comes first), and the loop ends at the first row that is not fit (`Reached`).
  An elected producer may have no key; whether the chain refuses such a schedule and
  aborts onblock is left open (`OnBlockAborts`).
* **LedServices.** A token weighs one; in the code its weight is a double. A day is
  `SlotsPerDay` slots, and of the day only its number modulo `WindowDays` is kept, as in
  the code: the entry of a day is reached again a whole window later. Visiting closes
  the entries between the last visit and today, the window round (`Closed`); today's,
  if it was closed, is dropped first. What is dropped goes from the total only at the
  daily update. Days without any visit, erasure, new registration, and a chain that is not
  activated or whose onblock aborts (`electing`) are all in `Next`. `recent` is a history variable: what was sold on each of
  the last `WindowDays` days.
* **LedRewards.** A claim reads the claimer's weight and the total of its kind. What other
  contracts' tables hold at that moment is any weight that its total covers, which is
  what `TotalCoversServices` and `TotalCoversWeights` say of services and votes. The
  weight of an interior may be negative; its claim adds to the vote bucket, without a
  transfer. `unfunded` is a history variable: what such claims have added.
  Quotients are exact. The run has `maximum_producers` start at 15, as the tests
  expect (`tests/led.system_tests.cpp:886`), so that stages are reached; the code's 21
  (`led.system.hpp:109`) is the subject of `rewards_stage`.
* **LedResources.** The flags of the voters row are a set of resources. -1 is the limit
  of an account that has none (`Unlimited`). Staking and trading are reduced to the
  amounts they leave an account with.
* **LedRamMarket.** A conversion computes `in * out_reserve / (in_reserve + in)` in doubles
  and truncates. Each of the up to three roundings is off by at most one part in 2^53, so that
  the result is the quotient of a number that differs from the exact product by at most one
  part in 2^50 (`Precision`), and is exact for products below that: `Quotients`. At the
  sizes of a real market the truncated result can be one more than the exact one, so that
  the product of the reserves falls a little: with reserves of 2^36 and 10^10, 16214400001
  in yield 42505076737, and the product is 1 less. `traded` is a history variable: the sum of the
  products that were converted. `new_ram` is computed modulo `Word`, 2^32 in the code.
* **LedMsig.** What a transaction needs is given by `Sufficient`, as the chain's
  `check_transaction_authorization` would say. The two lists of a proposal are vectors,
  and nothing keeps a level from being requested twice: `requested` has the number of
  copies of each level, `provided` the times of each level's approvals, oldest first.
  approve and unapprove move one copy, the first they find. `consents` is a history
  variable: for each approval in `provided` the transaction it was given for.

## 3. What is checked

### Runs

| run | instance | states | shows |
|---|---|---|---|
| `token` | 3 accounts, amounts to 3, symmetric | 9986 | supply, allowances, frozen accounts, charged spending, the abstract ledger |
| `staking` | 2 accounts with 2 tokens, delay 2 | 48175 | led.stake, resources, votes and totals in step; deferred refunds neither early nor lost; the abstract escrow |
| `voting` | 3 voters who may all be proxies, 1 interior, 2 weeks, symmetric | 367778 | tallies are sums of votes, no proxy has a proxy |
| `services` | 1 frontier, 2 buyers, a window of 3 days of 3 slots | 450072 | sales count for the window and fade, the total covers the weights |
| `rewards` | 2 producers of either kind, totals to 2, blocks to 3, 2 issues, symmetric | 2162494 | buckets are funded, unpaid blocks covered, shares kept |
| `rewards_stage` | the same with 21 places from the start | | violation, see below |
| `resources` | 1 account | 9062 | limits are what is held, or what was set by hand |
| `ram_market` | 2 traders, 8 to 12 bytes | 208771 | solvency, booking, the curve |
| `election` | 2 companies, 2 places, weights from -2 to 2, 5 user steps | 223168 | the registry stands, the fittest are elected, slackers leave, the chain follows |
| `election_halt` | the same | | violation, see below |
| `msig` | 1 name, 2 levels up to twice, 2 transactions, 3 blocks | 134655 | executed means approved, now and as it is |
| `forum` | 1 name, 3 voters, 6 ticks | 4434 | the tally is of the votes, the result stands |

The bounds, and why they are enough:

* **token**: an owner, a spender and a third party are all the roles an action has.
  Amounts up to 3 give allowances below, at and above what a transfer leaves.
* **staking**: delegating to oneself and to another are different branches of
  `changebw`; two tokens make a pending refund that an increase covers in whole, in
  part or not at all, in net and cpu apart. A delay of 2 lets a request grow, and a
  transaction be replaced, in the middle of it.
* **voting**: a chain of proxies that matters has three voters, of whom the middle one
  has stopped being a proxy and given its votes on. Two weeks give two weights to
  the same stake. One interior can be voted for, erased and registered anew in both, and
  erased again while the total, which keeps something of each erasure, is at most 8. That
  a list may have several interiors is in the model and not in this run.
* **services**: frontiers share nothing but the total; what one leaves in it when it is
  erased is there for its own next registration. A window of three days has a day
  before, at and after every gap, also round the window, and a gap of exactly the
  window. A purchase of 20 is the smallest with a payback; the two ratios make
  buyservice possible and impossible. `MaxWeight` is three purchases, one for each day.
  `BuyersPeriod` lets the buyers be forgotten at some updates and not at others.
* **rewards**: a claimer and another producer whose share must not suffer. An issue of 20
  gives pays that are too small to be saved from, and claims that abort; one of 160
  gives pays of which led.saving gets its part. Two issues: one before and one after the first
  claims. `MaxTotal` of 2 and `MaxBlocks` of 3 give quotients with and without a rest,
  weights of 0, of half and of all the total, and negative ones of its size. `MaxBucket`
  is several times what is issued, so that a negative weight makes the vote bucket
  larger than its account and claims abort on that.
* **resources**: no action is about two accounts. Three units held, a gift of two, limits
  set by hand below and above what can be held, and none.
* **ram_market**: 8 bytes for 5 tokens, so that every trade moves the price and every
  quotient is truncated. `Word` is 3, so that the product of two blocks and a rate of 2
  wraps. `Precision` is 20, below the products of these trades: rounding goes either way in
  many of them, and the product of the reserves does fall.
* **election**: two accounts that may be frontiers or interiors compete for the one place a
  frontier can have, or share both places. A watch is due after three slots, which
  makes its threshold one block per producer. The registry's actions are among the
  steps of users, so that its tables are checked under punishment from onblock too. Five steps of users register both,
  weigh both and leave one to disturb them. Weights from -2 to 2 rank two rows in every
  way, a negative inactive one before an active one included. `MaxCount` is above every
  threshold.
* **msig**: a name is proposed, cancelled and proposed again with the other
  transaction; two approvals and an invalidation fit into every order of one block
  and into several. A level that is requested twice can be in both lists, and have an
  approval left when it takes one back.
* **forum**: time for a name to expire, be cleaned and be proposed anew.

A deadlock is looked for in every run and there is none.

### Properties

Each module has one type invariant, which also says what an absent row holds. Where a
theorem proves it no run repeats it (`RegistryStands` and `BucketsAreFunded` contain the
ones of the registry and of the rewards). The other properties are about what takes
several calls, mostly of several accounts, to go wrong:

* `SupplyIsBalances`, `StakeIsBacked`, `TotalsAreDelegations`, `VoterStakeIsDelegated`,
  `TotalStakeIsSum`, `ProxiedIsSum`, `VoteAmountIsSum`, `WeightIsVoted`, `TotalCoversWeights`,
  `WeightIsWindow`, `TotalCoversServices`, `UnpaidIsCovered`, `ReservedIsBought`,
  `MarketIsBooked`, `TallyIsOfVotes`: a stored total is the sum of
  rows in another table. Some are inequalities where the code allows
  no more: an interior that was erased and registered anew starts at 0 and has its old
  votes taken back from it; service weight and unpaid blocks of an erased producer
  stay in their totals.
* `AllowanceBacked`, `StakeCoversSale`, `BucketsAreFunded`, `LimitsAreOwed`: what one table
  promises another one covers. `StakeCoversSale` is conditional on what was traded, as the
  rounding of doubles adds up; `BucketsAreFunded` allows the vote bucket to be ahead of
  its account by what negative weights have added, and by nothing else.
* `RecentSalesCount`: an entry of the window is not dropped before its time.
* `RegistryStands` (one further row for each producer, active rows agree, punished ones
  are out), `NoProxyOfProxies`, `StaysExecutable`: no sequence of calls reaches a combination of rows that later
  calls do not reckon with.
* `FrozenAccountsHold`, `DelegatedSpendIsCharged`, `NeverBelowCurve`,
  `ElectedAreFittest`, `ExecutedIsApproved`, `ResultStands`, `HandSetLimitsHold`,
  `ClaimsKeepShares`: what a step may never do. `NeverBelowCurve` allows a trade the last
  digits of a double, and nothing to any other step.
* `DeferredNeverEarly`: a deferred refund whose time has come finds its request old
  enough, so that it is not spent for nothing.
* `LedgerRefined`: `LedToken` implements `TokenLedger`.
* `EscrowRefined`: `LedStaking` implements `StakeEscrow`. Each account's tokens are liquid,
  staked or pending. A stake is paid by the payer's liquid tokens or by the payer's own
  pending refund, never by the refund of the receiver it is transferred to, and what is
  unstaked is liquid only once nothing has joined it for the delay. The
  delegations, net and cpu, led.stake and the deferred transactions are hidden.
* `ScheduledRefundIsPaid`, `PunishedAreReplaced`, `SettledElectionHolds`,
  `SalesFade`: liveness.

### Fairness

`LedStaking!Fairness` lets the clock go on and lets a deferred transaction that is due
run: blocks keep coming and the chain executes what is due. Nobody has to stake,
unstake or ask for a refund. Two ways for a scheduled refund not to be paid are in
the property itself: delegatebw cancels the transaction, or calls that go on for
ever restart it for ever.

`LedElection!Fairness` is weak fairness of blocks and of the chain's activation of a
proposed schedule: finality goes on. Users are not fair and stop after
`MaxUserSteps`. `PunishedAreReplaced` and `SettledElectionHolds` name the two ways out:
the election comes out empty (nobody can be elected, or a row that is not fit ends the
loops at once), in which case the code leaves everything as it is, and `Halted`: an onblock
that aborts for ever because an active producer has no row (see `election_halt`), or that
may abort because a row without a key can be elected.

`LedServices!Fairness` is weak fairness of the clock and of the daily update: blocks keep
coming, and an election, with the update in it, is held every minute, as long as `electing`:
the chain is activated and onblock does not abort, which `LedElection!Halted` is about.
While it is not, the clock goes on without updates. `SalesFade` names the ways out:
somebody keeps buying, or `electing` is false again and again or for ever.

### Where the code differs from what it says

Two runs end in a violation. Each checks a sentence of the repository:

* `rewards_stage`: the comment at `producer_pay.cpp:117` lists what producers get from
  "STAGE 1 ( half_year_cnt = 1 )" on. `half_year_cnt` grows only with `maximum_producers`,
  and only while that is not 21 (`producer.cpp:291`), which it is from the start
  (`led.system.hpp:109`). So `half_year_cnt` stays 0, the producers' part of every issue is
  0, and claimrewards aborts in a transfer of 0 tokens whenever it has to issue.
* `election_halt`: `producer_pay.cpp:88` says that block producers are updated once every
  minute. An active producer that calls unregproduce makes `watch_block_producer`
  abort onblock (`producer_pay.cpp:28`), and since `active_producers` is only changed in
  onblock there are no more elections.

More disagreements were met while modelling. The models have the code's behaviour
and no run is spent on these:

* `led.system.hpp:515-518` says that undelegating schedules a transaction that sends the
  tokens back. A delegation *to another account* while the refund waits ends in
  `cancel_deferred` (`delegate_bandwidth.cpp:335`): the refund stays and has no
  transaction. The owner can still call refund. (`ScheduledRefundIsPaid` says what is
  left: as long as there is a transaction, it pays.)
* `producer.cpp:769` takes a voted interior without a row for "data corruption".
  unregproduce (`producer.cpp:259`) erases an interior that is still voted for;
  propagating a proxy's or voter's weight to it then aborts.
* `led.system.cpp:89-90` says that RAM is allocated at the old rate up to the present
  block. The product of slots and rate is a `uint32_t` (`led.system.cpp:73`) and wraps; at
  the highest rate after nine hours without a trade.
* An old entry of the service window is dropped when its day comes round after a gap,
  unless no visit at all fell into a whole window: then the last visit was on the same
  day modulo 30 (`led.system.hpp:226`), nothing is closed, and the sales of thirty
  days ago count for thirty more. (`RecentSalesCount` allows more than the last sales.)
* The daily update waits for more than `blocks_per_day` slots (`producer.cpp:274`), so
  that it comes a little later each day and at some point passes over a calendar day.
* A buyservice of less than 20 units by a person who is not a buyer yet aborts, as a
  payback of 0 is transferred; a claim with a pay below 7 units aborts, as 15 % of it for
  led.saving is 0. Nothing says so.
* `tests/led.token_tests.cpp:357` says that a decallowance of the whole amount erases
  the row; `led.token.cpp:326` keeps it with 0. (`AllowanceBacked` holds all the same.)
* punishoff (`producer.cpp:58`) makes a producer active that unregprod has left with the
  default key, which the registrations refuse (`producer.cpp:79`, `:146`); and rmvproducer
  (`led.system.cpp:266`) clears the key and leaves the row that is elected active. Such
  a producer is proposed to the chain without a key.
* The loops of the election stop at the first row that is not active or has no weight
  (`producer.cpp:303`, `:308`), which the index puts last (`led.system.hpp:262`), except that an
  inactive interior with a negative weight comes first: then no interior is elected, and
  if there are no frontiers either the old schedule stays.
* A claim of an interior with a negative weight has a negative pay (`producer_pay.cpp:172`), which
  makes the vote bucket larger (`:186`) and is not transferred. led.vpay then holds less
  than the bucket, and a later claim may abort on its balance.
* Many trades, each rounded in the trader's favour, could bring the RAM market below its curve,
  and in the end to the check that "shouldn't happen" (`delegate_bandwidth.cpp:136`). Section
  4 says how much has to be traded before that is possible.
* `led.msig/README.md:24` calls unapprove "Revoke an approval of transaction". A level that
  was requested twice (`led.msig.cpp:52-55` does not look for duplicates) can approve twice;
  unapprove takes one approval back, the oldest, which may be invalid already, and exec
  still counts the other.
* An interior that was erased with votes and registered anew can go below 0 by whole
  stakes, which the comment at `producer.cpp:665` puts down to floating point; its old
  weight stays in `total_interior_vote_weight`, "the sum of all interiors votes"
  (`led.system.hpp:128`).
* buyrambytes "will buy an exact amount of ram" (`delegate_bandwidth.cpp:23`); it
  truncates a price and buys what that yields, after update_ram_supply.
* `proposed_producers` is overwritten even if the chain refuses the proposal
  (`producer.cpp:327`), so that `active_producers` may stay different from the schedule in
  office (`producer_pay.cpp:79`).
* An approval after an invalidation in the same block does not count
  (`led.msig.cpp:160`).
* `led.forum.cpp:127` says that three days must pass before clnproposal; the action
  (`led.forum.cpp:137`) asks only for expiry.

## 4. What is proved

All theorems hold for every value of the constants that the named assumptions of
the modules allow: any finite set of accounts, any amounts, delays and rates. The
assumptions say no more than that sets of accounts are finite, numbers natural,
delays positive, and the weight of a unit of stake even (see `LedVoting` above). Every
safety invariant, action property and refinement of a run that passes is the statement
of a theorem.

**SumTheorems.** The stored totals are compared with `SumFunctionOnSet` of the community
modules. The module proves what a sum over a finite set does when one term changes
(`SumUpdate`), that it depends on its terms only, that sums add up term by term
(`SumPlus`), that a sum of naturals bounds each of them, is even if they are, and
grows with them, and that a sum over a part of a set is one with zeros elsewhere
(`SumRestrict`). Induction over the set is done by choosing a subset that is minimal
among the counterexamples; `UpTo` is induction up to a number for a set of numbers, by
the same argument. Both take a set where an induction theorem would take a predicate.

**LedTokenProofs.** `TypeCorrect`, `SupplyConserved`, `AllowancesAreBacked`, `FrozenHold`,
`DelegatedSpendCharged`, and `ImplementsLedger`: every behaviour of the token is one of
the abstract ledger. The inductive invariant is the conjunction of the three
invariants and of `Uncreated`, that a token without a stat row has neither supply
nor cap. A burn keeps the supply natural only because the supply is the sum of the
balances; a draw keeps an allowance backed only because it was.

The same module has `Funded`, `UnpaidCovered` and `SharesKept` about LedRewards. The
invariant is `RewardsInv`: types, what the buckets promise is on their accounts (for the vote bucket
up to `unfunded`), and the total of unpaid blocks covers their sum. The three need each other at a claim: the part
for blocks is the bucket times the claimer's blocks by the total, at most the bucket
because its blocks are part of the total; the part for a weight is at most the bucket
because the weight is part of its total, and for a negative weight not above 0
(`ShareNegative`); so that no bucket goes below 0 and no transfer takes from an account more
than leaves its bucket. That the balances stay natural is the token's check. `SharesKept` is about the truncated
quotients: what a claim leaves of a bucket, over the blocks it leaves, is no less than
what it found, over those it found.

**LedStakingProofs.** All safety properties of staking. The parts of `changebw` are
taken apart first (`ChangeParts`: delegation and resources, the refund or none, the
payment, the vote), and each has a lemma of what it does to its sums. The invariants
are inductive together: that a deferred refund is never early (`DeferredInTime`) also
needs led.stake to be able to pay it (`StakeIsBacked`), as a refund that aborts for any
other reason would be spent as well. `TotalStakeSummed` needs that `last_stake` is 0 in
every row, if the read through the end iterator is. `ImplementsEscrow` maps a refund to what
is pending for its owner: an increase is `Stake`, with the part that net and cpu
take from the refund as `covered`, a decrease is `Unstake`, a refund, sent or deferred, is
`Release`, the clock is `Wait`, and a deferred refund that aborts changes nothing. It
needs one more invariant, `Unaged`: without a refund there is no age, so that a new request
does not start with the time of an old one. `GrowthRestarts`, that a refund grows only in a
step that restarts its clock and its transaction, is proved on its own; the runs have
its two halves in `EscrowRefined` and `DeferredNeverEarly`.

**LedRamMarketProofs.** Types, reserved bytes and booking, and the two that matter.
`CurveHolds`: a trade lowers the product of the reserves by no more than one part in
`Precision` of the product it was converted with, and nothing else lowers it.
`SaleIsCovered`: the check at `delegate_bandwidth.cpp:136` ("this shouldn't happen, but just
in case it does") does not fail while `traded + bytes * quote` is below
`Precision * (base + NewRam + bytes)`. The invariant behind it is `Curve`: `Precision * (base *
quote) + traded >= Precision * (InitialQuote * max_ram_size)`. A conversion is off by what
`QuotientOfDoubles` says (`OutputOnCurve`), and growth of the supply adds to both sides, to the
left at least as much since `quote >= InitialQuote`. After a sale `base` is at most
`max_ram_size`, so under the condition at least `InitialQuote` is left in the market, and by
`MarketIsBooked` `total_ram_stake` covered what was paid. With `Precision` 2^50 the condition
is that the tokens of all trades, weighted with the part of the RAM that was on sale, are
fewer than 2^50 units times the part that is on sale now: some 10^15 units, ten times a supply of 10^10
tokens with four decimals, every trade rounded against the market as far as it goes.

**LedServicesProofs.** `NothingNegative`, `WeightOfWindow`, `TotalCovers` and `RecentSalesStay`, for
a window of any length and days of any number of slots. The first three are inductive
together: a weight minus an entry is natural as it is the sum of the entries, and the
total minus what is dropped is natural as it covers that. For `RecentSalesStay` the
invariant needs two more parts: `LastIsOpen`, that the entry visited last is not
closed, and `SalesVisit`, that before the first visit of a day there was no sale on it.
So the entry that a visit drops is one of a day without a sale yet.

The same module has `RowsHold`, `LimitsOwed` and `HandSetHold` about LedResources.
`LimitsAreOwed` is inductive with the types: the case that takes an argument is
`setalimits`, which sets limits without a flag and is harmless because an account
without a row holds nothing.

**LedElectionProofs.** `TypesStand`; `TablesAgree`, for the registry's four facts, which are
inductive together because a handler finds the other row by the producer's type; and
`ElectionFair`: no election proposes a punished producer, or passes over one for a lighter
one of its kind, for any weights, negative ones included. A heavier active row is before an
elected one (`HeavierIsBefore`); the loop reached the elected one, so it reached that row
too, and it was fit (`ReachedBefore`); and whoever comes before one of the first n has fewer
before itself (`TopIsFirst`). The loop may end early, but only with rows behind it that are
lighter or not active.

**LedGovernanceProofs.** `RowsStand`, `Executable` and `ExecutedApproved` about LedMsig. What
exec counts is an approval in the row that is younger than the level's invalidation;
what it should count is a consent to the transaction as it is. The invariant between
the two is `CountedIsConsent`, with `DatedByNow`: no time in the tables is in the future,
so that an invalidation takes back everything that is there. Both are about each copy of
a level: `provided` and `consents` are sequences of the same length, to which approve appends
and from which unapprove takes the first.

The same module has `RowsKept`, `TallyKept` and `ResultKept` about LedForum. `TallyIsOfVotes`
is inductive with the types: while a proposal runs its counts are the cardinalities of
the sets of its voters; after that a vote may go (`unvote` erases the row of an expired
proposal and leaves the counts), so that the counts can only be above. A count is not
decreased below 0 because a running proposal still has the vote that is taken back.

**LedVotingProofs.** `VotingInvariant` and one theorem for each of the five invariants of the run, for
any number of voters, candidates and weeks and chains of proxies of any length. What
`update_votes` and `propagate_weight_change` do is a walk along a chain, and the proof is
about one step of it:

* `Exact` says what holds in the middle of a walk: the tables are the sums of the weights
  that the accounts of `D` last voted with, plus fixed offsets, and only accounts of `R`, a
  set that no proxy leads out of, have changed. `WalkStepKeeps` is one step,
  by the cases proxy, no proxy and small change; here the even weights are used: a
  change that is not passed on is none. `PropagateKeeps` is the whole walk,
  by `UpTo` over the number of steps.
* A walk that comes back to the account it started from would overwrite what
  `update_votes` is about to write. It does not, by `Acyclic`: each account has a set
  `R` that holds its proxy, is closed and does not hold the account itself. (A proxy
  has no proxy of its own by `NoProxyOfProxies`, but an account that is no proxy any
  more may have both a proxy and followers, so that chains are longer than two.)
  `LinkKeepsAcyclic` is that a new proxy closes no cycle: it has no proxy.
* `CastKeeps` is `update_votes`: the voter is left out of the sums (`D` is everybody else,
  and what the voter contributes is an offset), the old vote is taken back, with a walk
  from the old proxy, the new one is given, with a walk from the new proxy, and then
  the voter is in the sums again with its new weight.
* `ProxyAborts`: an account with a proxy cannot become a proxy, as the walk of regproxy
  fails the check at its first step. That keeps `NoProxyOfProxies`.
* `VotesStand`: a vote is for an interior or for one that was erased, and who is no interior
  weighs 0. So a candidate that registers starts from 0: from the sum of its votes if it
  was never erased, and from no more than that if it was (`WeightIsVoted`).
* `TotalCoversVotes`: the total is never reduced by an erasure, so it covers the votes for
  all candidates; `TotalCoversWeights` follows as no weight is above the votes for it.

**Only model-checked**: the four liveness properties, `ScheduledRefundIsPaid`, `SalesFade`,
`PunishedAreReplaced` and `SettledElectionHolds`. Their proofs need fairness and ENABLED,
which the prover does not handle. They are shown for the instances of the runs.

## 5. What is not modelled

* Signatures and permissions. An action is open to the account it is meant for.
* RAM payers, memos, notifications, urls, locations, texts.
* Rounding of the voting weights.
* The rest of services and rewards: cumulative paybacks, `total_purchase_amount` and
  entry dates, which no action reads; the balances of buyers; rounding of service
  weights, and of shares that are computed with doubles.
* led.wrap, which keeps no table. Two transactions that one executer wraps in the same
  block have the same id, and the second call is refused by the chain and undone.
* led.bios, setparams, setpriv, updtrevision and setabi, which pass parameters to the
  chain or keep what no other action reads; the native actions without a body; the
  tests and build files.
* convert, convert_to_exchange and convert_from_exchange of the RAM market, which are
  never called.
* Limits of a transaction (time, recursion depth, size).

## 6. Plan

The order was by what the chain stands on: token and its ledger; staking; registry; voting;
RAM market; election; msig; forum; then services, rewards and resource limits; and the
proofs, of all of them. What would come next:

1. `LedServices` and `LedVoting` composed with `LedRewards` and `LedElection`, in place of the
   weights that are open there. `TotalCovers` and `TotalCoversWeightsHolds` are the
   theorems such a composition would rest on.
2. A ledger of votes without walks and lists, implemented by `LedVoting` as `StakeEscrow`
   is by `LedStaking`.
3. The deferred transactions of staking, msig and wrap on one chain.
