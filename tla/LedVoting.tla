------------------------------ MODULE LedVoting ------------------------------
(***************************************************************************)
(* Voting in led.system: voteproducer, regproxy, unregproxy, the vote that *)
(* delegatebw and undelegatebw recast, and the tallies they keep, over the *)
(* registry of module LedRegistry.                                         *)
(*                                                                         *)
(* A vote weighs staked * 2^(weeks/52), so the same stake weighs more the  *)
(* later it is cast.  Weights are exact numbers here, Factor[week] for one *)
(* unit of stake; the doubles of the code round.  The code does not pass a *)
(* change of at most 1 on along the proxies.  Its weeks count from 2000: a *)
(* unit of stake weighs more than 2^20, and such a change is a matter of   *)
(* rounding; factors are even here, so that it is no change at all.        *)
(***************************************************************************)
EXTENDS Integers, FiniteSets, Functions

CONSTANTS Accounts,      \* the accounts that stake and vote
          Persons,       \* those whose name allows them to be a proxy
          NoProxy,       \* the empty name
          Candidates,    \* the accounts that register as producers
          Companies,     \* see LedRegistry
          MaxInteriors,  \* maximum_producers / 2
          MaxStake,      \* bound: the stake of one account
          LastWeek,      \* bound: the weeks that pass
          ErasureWeeks,  \* bound: the weeks in which interiors are erased
          MaxLeft,       \* bound: the total with which one is erased again
          Factor         \* the weight of one unit of stake, by week

ASSUME VotersAssumption ==
  IsFiniteSet(Accounts) /\ IsFiniteSet(Candidates) /\ Persons \subseteq Accounts
  /\ NoProxy \notin Accounts
ASSUME FactorAssumption ==
  /\ LastWeek \in Nat /\ MaxStake \in Nat /\ MaxInteriors \in Nat /\ MaxLeft \in Nat
  /\ Factor \in [0 .. LastWeek -> Nat]
  /\ \A w \in 0 .. LastWeek : Factor[w] % 2 = 0

VARIABLES
  producers, is_frontier, is_active, is_punished, has_key,
  frontiers, interiors, row_active,   \* the registry
  week,                        \* weeks since launch
  voters,                      \* accounts with a voters row
  staked,                      \* voters: staked
  is_proxy,                    \* accounts with is_proxy, and a proxies row
  proxy,                       \* voters: proxy, or NoProxy
  votes,                       \* voters: interiors
  last_vote_weight,            \* voters: last_vote_weight
  last_vote,                   \* voters: last_vote
  proxied_vote_weight,         \* voters: proxied_vote_weight
  vote_weights,                \* interiors: vote_weights, 0 without a row
  total_interior_vote_weight,  \* global
  total_vote_amount,           \* global
  erased                       \* history: the candidates unregproduce erased

registry == <<producers, is_frontier, is_active, is_punished, has_key,
              frontiers, interiors, row_active>>
voter_info == <<voters, staked, is_proxy, proxy, votes, last_vote_weight, last_vote,
                proxied_vote_weight>>
tallies == <<vote_weights, total_interior_vote_weight, total_vote_amount>>
vars == <<registry, week, voter_info, tallies, erased>>

Registry == INSTANCE LedRegistry

stake2vote(stake) == Factor[week] * stake

Init ==
  /\ Registry!Init
  /\ week = 0
  /\ voters = {} /\ is_proxy = {}
  /\ staked = [a \in Accounts |-> 0]
  /\ proxy = [a \in Accounts |-> NoProxy]
  /\ votes = [a \in Accounts |-> {}]
  /\ last_vote_weight = [a \in Accounts |-> 0]
  /\ last_vote = [a \in Accounts |-> 0]
  /\ proxied_vote_weight = [a \in Accounts |-> 0]
  /\ vote_weights = [c \in Candidates |-> 0]
  /\ total_interior_vote_weight = 0 /\ total_vote_amount = 0
  /\ erased = {}

-----------------------------------------------------------------------------
(***************************************************************************)
(* propagate_weight_change recurses along a chain of proxies.  A walk is   *)
(* what it has built up: the tables it changes, whose weight it recomputes *)
(* next (NoProxy when it has returned), and whether a check has aborted    *)
(* the transaction.                                                        *)
(***************************************************************************)
Walk == [at |-> NoProxy, last |-> last_vote_weight, proxied |-> proxied_vote_weight,
         weights |-> vote_weights, total |-> total_interior_vote_weight, ok |-> TRUE]

NewWeight(v, stake, proxying, proxied) ==
  stake2vote(stake[v]) + (IF v \in proxying THEN proxied[v] ELSE 0)

\* slip: a vote through a proxy is propagated no further than the proxy
WalkStepOnce(w, stake, proxying) ==
  IF w.at = NoProxy THEN w
  ELSE [w EXCEPT !.at = NoProxy,
                 !.last[w.at] = NewWeight(w.at, stake, proxying, w.proxied)]

\* One call, for w.at; changes of at most 1 are not propagated.
WalkStep(w, stake, proxying) ==
  LET v == w.at
      delta == NewWeight(v, stake, proxying, w.proxied) - w.last[v]
      done == [w EXCEPT !.at = NoProxy, !.last[v] = @ + delta]
  IN  IF v = NoProxy THEN w
      ELSE IF v \in proxying /\ proxy[v] # NoProxy THEN [done EXCEPT !.ok = FALSE]
      ELSE IF delta \in -1 .. 1 THEN done
      ELSE IF proxy[v] # NoProxy
        THEN [done EXCEPT !.at = proxy[v], !.proxied[proxy[v]] = @ + delta]
        ELSE [done EXCEPT !.ok = @ /\ votes[v] \subseteq interiors,
                          !.weights = [c \in Candidates |->
                                         IF c \in votes[v] THEN @[c] + delta ELSE @[c]],
                          !.total = @ + delta * Cardinality(votes[v])]

\* A chain of proxies is no longer than there are accounts.
Propagate(start, stake, proxying) ==
  LET walk[n \in 0 .. Cardinality(Accounts)] ==
        IF n = 0 THEN start ELSE WalkStep(walk[n - 1], stake, proxying)
  IN  walk[Cardinality(Accounts)]

-----------------------------------------------------------------------------
(* update_votes: take the old vote back, then cast the new one.            *)

\* Who may be voted for: a new vote needs a registered interior, an active one
\* when it is cast by voteproducer; an old one may be for an erased producer.
MayVote(old, new, voting) ==
  \A c \in old \cup new :
    \/ /\ c \in producers
       /\ c \in interiors
       /\ voting /\ c \in new => c \in is_active
    \/ /\ c \notin producers
       /\ c \notin new

\* slip: an account that has become a proxy keeps its own proxy
MayProxyAnyway(v, p, voting) ==
  v # p /\ p \in voters /\ (voting => p \in is_proxy)

MayProxy(v, p, voting) ==
  /\ v # p
  /\ v \notin is_proxy
  /\ p \in voters
  /\ voting => p \in is_proxy

\* The part of the proxies: what v's old proxy loses and its new one gains.
MoveProxied(v, p, old, new, stake) ==
  LET lost == IF old > 0 /\ proxy[v] # NoProxy
                THEN Propagate([Walk EXCEPT !.at = proxy[v],
                                            !.proxied[proxy[v]] = @ - old], stake, is_proxy)
                ELSE Walk
  IN  IF p # NoProxy
        THEN Propagate([lost EXCEPT !.at = p, !.proxied[p] = @ + new], stake, is_proxy)
        ELSE lost

\* slip: an amount that becomes 0 stays in the total
CountAmountKept(v, amount) ==
  /\ last_vote' = [last_vote EXCEPT ![v] = amount]
  /\ total_vote_amount' =
       IF amount = 0 THEN total_vote_amount ELSE total_vote_amount - last_vote[v] + amount

CountAmount(v, amount) ==
  /\ last_vote' = [last_vote EXCEPT ![v] = amount]
  /\ total_vote_amount' = total_vote_amount - last_vote[v] + amount

\* slip: the old vote is taken back with the weight of the new one
DeltasNew(undone, list, old, new) ==
  [c \in Candidates |-> (IF c \in list THEN new ELSE 0) - (IF c \in undone THEN new ELSE 0)]

\* producer_deltas: the interiors whose old vote is undone, those on the new list.
Deltas(undone, list, old, new) ==
  [c \in Candidates |-> (IF c \in list THEN new ELSE 0) - (IF c \in undone THEN old ELSE 0)]

UpdateVotes(v, p, list, voting, stake) ==
  LET old == last_vote_weight[v]
      new == NewWeight(v, stake, is_proxy, proxied_vote_weight)
      undone == IF old > 0 /\ proxy[v] = NoProxy THEN votes[v] ELSE {}
      moved == MoveProxied(v, p, old, new, stake)
      counted == (undone \cup list) \cap interiors
      delta == Deltas(undone, list, old, new)
      weight(c) == moved.weights[c] + delta[c]
  IN  /\ v \in voters
      /\ IF p = NoProxy THEN Cardinality(list) <= MaxInteriors
                        ELSE list = {} /\ MayProxy(v, p, voting)
      /\ MayVote(undone, list, voting)
      /\ moved.ok
      /\ proxied_vote_weight' = moved.proxied
      /\ vote_weights' = [c \in Candidates |->
                            IF c \notin counted THEN moved.weights[c]
                            ELSE IF weight(c) < 0 THEN 0 ELSE weight(c)]
      /\ total_interior_vote_weight' = moved.total + SumFunctionOnSet(delta, counted)
      /\ last_vote_weight' = [moved.last EXCEPT ![v] = new]
      /\ CountAmount(v, IF list = {} /\ p = NoProxy THEN 0 ELSE stake[v])
      /\ votes' = [votes EXCEPT ![v] = list]
      /\ proxy' = [proxy EXCEPT ![v] = p]

VoteProducer(v, p, list) ==
  /\ UpdateVotes(v, p, list, TRUE, staked)
  /\ UNCHANGED <<registry, week, voters, staked, is_proxy, erased>>

\* update_voting_power, at the end of delegatebw and undelegatebw.
ChangeStake(v, delta) ==
  LET stake == [staked EXCEPT ![v] = @ + delta]
  IN  /\ stake[v] \in 0 .. MaxStake
      /\ staked' = stake
      /\ voters' = voters \cup {v}
      /\ IF votes[v] # {} \/ proxy[v] # NoProxy
           THEN UpdateVotes(v, proxy[v], votes[v], FALSE, stake)
           ELSE UNCHANGED <<proxy, votes, last_vote_weight, last_vote, proxied_vote_weight,
                            tallies>>
      /\ UNCHANGED <<registry, week, is_proxy, erased>>

SetTallies(w) ==
  /\ w.ok
  /\ last_vote_weight' = w.last
  /\ proxied_vote_weight' = w.proxied
  /\ vote_weights' = w.weights
  /\ total_interior_vote_weight' = w.total

RegProxy(v) ==
  /\ v \in Persons
  /\ v \in voters
  /\ is_proxy' = is_proxy \cup {v}
  /\ SetTallies(Propagate([Walk EXCEPT !.at = v], staked, is_proxy'))
  /\ UNCHANGED <<registry, week, voters, staked, proxy, votes, last_vote, total_vote_amount,
                 erased>>

UnregProxy(v) ==
  /\ v \in is_proxy
  /\ is_proxy' = is_proxy \ {v}
  /\ SetTallies(Propagate([Walk EXCEPT !.at = v], staked, is_proxy'))
  /\ UNCHANGED <<registry, week, voters, staked, proxy, votes, last_vote, total_vote_amount,
                 erased>>

\* The registry's actions that leave the tallies alone; a new interior starts
\* with weight 0.  rmvproducer differs from unregprod in row_active alone, which
\* voting does not read.
Register(c) ==
  /\ \/ Registry!RegFrontier(c)
     \/ Registry!RegInterior(c)
     \/ Registry!UnregProd(c)
     \/ Registry!Punish(c)
     \/ Registry!PunishOff(c)
  /\ UNCHANGED <<week, voter_info, tallies, erased>>

\* Bound: an interior is erased in some weeks only, and again only while little
\* is in the total, where each time may leave more behind.
MayErase(c) ==
  /\ week \in ErasureWeeks
  /\ c \in erased => total_interior_vote_weight <= MaxLeft

\* slip: the weight is taken out of the total with the row, and once more when
\* its voters vote again
EraseProducerCounted(c) ==
  /\ MayErase(c)
  /\ Registry!UnregProduce(c)
  /\ vote_weights' = [vote_weights EXCEPT ![c] = 0]
  /\ total_interior_vote_weight' = total_interior_vote_weight - vote_weights[c]
  /\ erased' = erased \cup {c}
  /\ UNCHANGED <<week, voter_info, total_vote_amount>>

\* The weight goes with the row and stays in the total.
EraseProducer(c) ==
  /\ MayErase(c)
  /\ Registry!UnregProduce(c)
  /\ vote_weights' = [vote_weights EXCEPT ![c] = 0]
  /\ erased' = erased \cup {c}
  /\ UNCHANGED <<week, voter_info, total_interior_vote_weight, total_vote_amount>>

NextWeek ==
  /\ week < LastWeek
  /\ week' = week + 1
  /\ UNCHANGED <<registry, voter_info, tallies, erased>>

Next ==
  \/ \E v \in Accounts :
       \/ \E list \in SUBSET Candidates : VoteProducer(v, NoProxy, list)
       \/ \E p \in Accounts : VoteProducer(v, p, {})
       \/ \E delta \in -MaxStake .. MaxStake : delta # 0 /\ ChangeStake(v, delta)
       \/ RegProxy(v)
       \/ UnregProxy(v)
  \/ \E c \in Candidates : Register(c) \/ EraseProducer(c)
  \/ NextWeek

Spec == Init /\ [][Next]_vars

-----------------------------------------------------------------------------
(* Every row holds what its type allows.  What an account votes with is a  *)
(* natural number, through any chain of proxies; what an interior has got  *)
(* need not be: one registered anew may go below 0.                        *)
TypeOK ==
  /\ Registry!TypeOK
  /\ week \in 0 .. LastWeek
  /\ voters \subseteq Accounts /\ is_proxy \subseteq voters
  /\ staked \in [Accounts -> 0 .. MaxStake]
  /\ proxy \in [Accounts -> Accounts \cup {NoProxy}]
  /\ votes \in [Accounts -> SUBSET Candidates]
  /\ last_vote_weight \in [Accounts -> Nat]
  /\ last_vote \in [Accounts -> 0 .. MaxStake]
  /\ proxied_vote_weight \in [Accounts -> Nat]
  /\ vote_weights \in [Candidates -> Int]
  /\ total_interior_vote_weight \in Nat
  /\ total_vote_amount \in Nat
  /\ erased \subseteq Candidates

(* An account that is a proxy has no proxy and never votes for interiors   *)
(* and through a proxy at once, in whatever order it registers, votes and  *)
(* unregisters: both halves of update_votes rely on it, and on rows of     *)
(* their types.                                                            *)
NoProxyOfProxies ==
  /\ TypeOK
  /\ \A v \in Accounts :
    proxy[v] # NoProxy => v \notin is_proxy /\ votes[v] = {} /\ proxy[v] \in voters

(* A proxy carries what its followers last voted with, also while it is    *)
(* unregistered or votes through another proxy itself.                     *)
ProxiedIsSum ==
  \A p \in Accounts :
    proxied_vote_weight[p] =
      SumFunctionOnSet(last_vote_weight, {v \in Accounts : proxy[v] = p})

(* The amount voted with is the sum of what each voter last voted with.    *)
VoteAmountIsSum == total_vote_amount = SumFunctionOnSet(last_vote, Accounts)

Voted(c) ==
  SumFunctionOnSet(last_vote_weight, {v \in Accounts : proxy[v] = NoProxy /\ c \in votes[v]})

(* An interior has the weight its voters last voted with, each counted     *)
(* once, however many restakes, proxy changes and weeks went by; one that  *)
(* was erased and registered anew may have less, never more.               *)
WeightIsVoted ==
  \A c \in interiors :
    /\ vote_weights[c] <= Voted(c)
    /\ c \notin erased => vote_weights[c] = Voted(c)

(* The total bounds the weights that are divided by it: the interiors'     *)
(* shares of the vote pay add up to at most all of it.                     *)
TotalCoversWeights ==
  total_interior_vote_weight >=
    SumFunctionOnSet(vote_weights, {c \in interiors : vote_weights[c] > 0})

=============================================================================
