--------------------------- MODULE LedVotingProofs ---------------------------
(***************************************************************************)
(* Theorems about LedVoting: for any accounts, candidates and weeks, and   *)
(* for chains of proxies of any length.                                    *)
(*                                                                         *)
(* The tallies are exact after every call of propagate_weight_change: the  *)
(* call that changes a voter's last_vote_weight changes by as much what    *)
(* the voter's proxy carries, or what its interiors have.  update_votes    *)
(* walks with a voter whose old vote is taken back and whose new one is    *)
(* not yet cast.  That voter is left out of the sums in the meantime, and  *)
(* as its proxies do not lead back to it the walk leaves it alone.         *)
(***************************************************************************)
EXTENDS LedVoting, SumTheorems

\* Carried(l, D, x): what the accounts in D that proxy to x vote with, if each
\* votes with l; VotedBy(l, D, c): what those in D that vote for c themselves do.
Carried(l, D, x) == SumFunctionOnSet(l, {u \in D : proxy[u] = x})
VotersFor(D, c) == {u \in D : proxy[u] = NoProxy /\ c \in votes[u]}
VotedBy(l, D, c) == SumFunctionOnSet(l, VotersFor(D, c))
AllVoted(l, D) == SumFunctionOnSet([c \in Candidates |-> VotedBy(l, D, c)], Candidates)

\* A set that the walk along the proxies does not leave.
Closed(R) == \A a \in R : proxy[a] # NoProxy => proxy[a] \in R

\* The proxies of a voter never lead back to it.
Acyclic ==
  \A a \in Accounts : \E R \in SUBSET Accounts :
    Closed(R) /\ a \notin R /\ (proxy[a] # NoProxy => proxy[a] \in R)

Even(l) == \A a \in Accounts : l[a] % 2 = 0

\* Who has a vote is an interior, or was one; who is none has no weight.
VotesStand ==
  /\ interiors \subseteq Candidates
  /\ \A a \in Accounts : votes[a] \subseteq interiors \cup erased
  /\ \A c \in Candidates \ interiors : vote_weights[c] = 0

\* The total covers all that is voted, also for interiors that are erased.
TotalCoversVotes == AllVoted(last_vote_weight, Accounts) <= total_interior_vote_weight

IInv ==
  /\ NoProxyOfProxies
  /\ Even(last_vote_weight)
  /\ Acyclic
  /\ VotesStand
  /\ ProxiedIsSum
  /\ VoteAmountIsSum
  /\ WeightIsVoted
  /\ TotalCoversVotes

-----------------------------------------------------------------------------
(* Sums over voters, and what a change of one voter's weight does to them. *)

LEMMA VotersFinite ==
  /\ IsFiniteSet(Accounts) /\ IsFiniteSet(Candidates)
  /\ \A D \in SUBSET Accounts : IsFiniteSet(D)
BY VotersAssumption, FS_Subset

LEMMA CarriedType ==
  ASSUME NEW l \in [Accounts -> Nat], NEW D \in SUBSET Accounts, NEW x
  PROVE  Carried(l, D, x) \in Nat /\ (Even(l) => Carried(l, D, x) % 2 = 0)
<1>. DEFINE T == {u \in D : proxy[u] = x}
<1>1. IsFiniteSet(T)
  BY VotersFinite
<1>2. \A u \in T : l[u] \in Nat /\ (Even(l) => l[u] % 2 = 0)
  BY DEF Even
<1>3. Carried(l, D, x) = SumFunctionOnSet(l, T)
  BY DEF Carried
<1>. HIDE DEF T
<1>4. SumFunctionOnSet(l, T) \in Nat
  BY <1>1, <1>2, SumNatural
<1>5. CASE Even(l)
  BY <1>1, <1>2, <1>3, <1>4, <1>5, SumEven
<1>. QED  BY <1>3, <1>4, <1>5

LEMMA VotedType ==
  ASSUME NEW l \in [Accounts -> Nat], NEW D \in SUBSET Accounts, NEW c
  PROVE  VotedBy(l, D, c) \in Nat
<1>. DEFINE T == {u \in D : proxy[u] = NoProxy /\ c \in votes[u]}
<1>1. IsFiniteSet(T)
  BY VotersFinite
<1>2. \A u \in T : l[u] \in Nat
  OBVIOUS
<1>3. VotedBy(l, D, c) = SumFunctionOnSet(l, T)
  BY DEF VotedBy, VotersFor
<1>. HIDE DEF T
<1>. QED  BY <1>1, <1>2, <1>3, SumNatural

LEMMA CarriedUpdate ==
  ASSUME NEW l \in [Accounts -> Nat], NEW l2 \in [Accounts -> Nat],
         NEW D \in SUBSET Accounts, NEW v \in D,
         \A u \in Accounts \ {v} : l2[u] = l[u], NEW x
  PROVE  Carried(l2, D, x)
           = Carried(l, D, x) + (IF proxy[v] = x THEN l2[v] - l[v] ELSE 0)
<1>. DEFINE T == {u \in D : proxy[u] = x}
<1>1. IsFiniteSet(T) /\ T \subseteq Accounts /\ (v \in T <=> proxy[v] = x)
  BY VotersFinite
<1>2. Carried(l, D, x) = SumFunctionOnSet(l, T) /\ Carried(l2, D, x) = SumFunctionOnSet(l2, T)
  BY DEF Carried
<1>. HIDE DEF T
<1>3. \A u \in T : l[u] \in Int /\ l2[u] \in Int
  BY <1>1
<1>4. SumFunctionOnSet(l, T) \in Int
  BY <1>1, <1>3, SumType
<1>5. CASE v \in T
  <2>1. \A u \in T \ {v} : l2[u] = l[u]
    BY <1>1
  <2>2. SumFunctionOnSet(l2, T) = SumFunctionOnSet(l, T) - l[v] + l2[v]
    BY <1>1, <1>3, <1>5, <2>1, SumUpdate
  <2>. QED  BY <1>1, <1>2, <1>3, <1>4, <1>5, <2>2
<1>6. CASE v \notin T
  <2>1. \A u \in T : l[u] \in Int /\ l2[u] = l[u]
    BY <1>1, <1>3, <1>6
  <2>2. SumFunctionOnSet(l2, T) = SumFunctionOnSet(l, T)
    BY <1>1, <2>1, SumCongruence
  <2>. QED  BY <1>1, <1>2, <1>4, <1>6, <2>2
<1>. QED  BY <1>5, <1>6

LEMMA VotedUpdate ==
  ASSUME NEW l \in [Accounts -> Nat], NEW l2 \in [Accounts -> Nat],
         NEW D \in SUBSET Accounts, NEW v \in D,
         \A u \in Accounts \ {v} : l2[u] = l[u], NEW c
  PROVE  VotedBy(l2, D, c)
           = VotedBy(l, D, c)
               + (IF proxy[v] = NoProxy /\ c \in votes[v] THEN l2[v] - l[v] ELSE 0)
<1>. DEFINE T == {u \in D : proxy[u] = NoProxy /\ c \in votes[u]}
<1>1. /\ IsFiniteSet(T) /\ T \subseteq Accounts
      /\ v \in T <=> proxy[v] = NoProxy /\ c \in votes[v]
  BY VotersFinite
<1>2. VotedBy(l, D, c) = SumFunctionOnSet(l, T) /\ VotedBy(l2, D, c) = SumFunctionOnSet(l2, T)
  BY DEF VotedBy, VotersFor
<1>. HIDE DEF T
<1>3. \A u \in T : l[u] \in Int /\ l2[u] \in Int
  BY <1>1
<1>4. SumFunctionOnSet(l, T) \in Int
  BY <1>1, <1>3, SumType
<1>5. CASE v \in T
  <2>1. \A u \in T \ {v} : l2[u] = l[u]
    BY <1>1
  <2>2. SumFunctionOnSet(l2, T) = SumFunctionOnSet(l, T) - l[v] + l2[v]
    BY <1>1, <1>3, <1>5, <2>1, SumUpdate
  <2>. QED  BY <1>1, <1>2, <1>3, <1>4, <1>5, <2>2
<1>6. CASE v \notin T
  <2>1. \A u \in T : l[u] \in Int /\ l2[u] = l[u]
    BY <1>1, <1>3, <1>6
  <2>2. SumFunctionOnSet(l2, T) = SumFunctionOnSet(l, T)
    BY <1>1, <2>1, SumCongruence
  <2>. QED  BY <1>1, <1>2, <1>4, <1>6, <2>2
<1>. QED  BY <1>5, <1>6

\* d for each member of a list is d times its length.
LEMMA SumOfList ==
  ASSUME NEW list \in SUBSET Candidates, NEW d \in Int, NEW f,
         \A c \in Candidates : f[c] = IF c \in list THEN d ELSE 0
  PROVE  SumFunctionOnSet(f, Candidates) = d * Cardinality(list)
<1>. DEFINE g == [c \in list |-> d]
<1>1. IsFiniteSet(list) /\ IsFiniteSet(Candidates)
  BY VotersFinite, FS_Subset
<1>2. \A c \in list : g[c] = d /\ g[c] \in Int /\ f[c] = g[c]
  OBVIOUS
<1>3. \A c \in Candidates \ list : f[c] = 0
  OBVIOUS
<1>. HIDE DEF g
<1>4. SumFunctionOnSet(f, Candidates) = SumFunctionOnSet(g, list)
  BY <1>1, <1>2, <1>3, SumRestrict
<1>5. SumFunctionOnSet(g, list) = d * Cardinality(list)
  BY <1>1, <1>2, SumConstant
<1>. QED  BY <1>4, <1>5

LEMMA AllVotedType ==
  ASSUME NEW l \in [Accounts -> Nat], NEW D \in SUBSET Accounts
  PROVE  AllVoted(l, D) \in Nat
<1>. DEFINE f == [c \in Candidates |-> VotedBy(l, D, c)]
<1>1. \A c \in Candidates : f[c] \in Nat
  BY VotedType
<1>2. AllVoted(l, D) = SumFunctionOnSet(f, Candidates)
  BY DEF AllVoted
<1>. HIDE DEF f
<1>. QED  BY <1>1, <1>2, VotersFinite, SumNatural

LEMMA AllVotedUpdate ==
  ASSUME votes \in [Accounts -> SUBSET Candidates],
         NEW l \in [Accounts -> Nat], NEW l2 \in [Accounts -> Nat],
         NEW D \in SUBSET Accounts, NEW v \in D,
         \A u \in Accounts \ {v} : l2[u] = l[u]
  PROVE  AllVoted(l2, D)
           = AllVoted(l, D)
               + (IF proxy[v] = NoProxy THEN (l2[v] - l[v]) * Cardinality(votes[v]) ELSE 0)
<1>. DEFINE f == [c \in Candidates |-> VotedBy(l, D, c)]
            f2 == [c \in Candidates |-> VotedBy(l2, D, c)]
            list == IF proxy[v] = NoProxy THEN votes[v] ELSE {}
            d == l2[v] - l[v]
            g == [c \in Candidates |-> IF c \in list THEN d ELSE 0]
<1>1. list \in SUBSET Candidates /\ d \in Int
  OBVIOUS
<1>2. \A c \in Candidates : f[c] \in Int /\ g[c] \in Int /\ f2[c] = f[c] + g[c]
  <2>. TAKE c \in Candidates
  <2>1. f[c] = VotedBy(l, D, c) /\ f2[c] = VotedBy(l2, D, c) /\ VotedBy(l, D, c) \in Nat
    BY VotedType
  <2>2. VotedBy(l2, D, c) = VotedBy(l, D, c)
                              + (IF proxy[v] = NoProxy /\ c \in votes[v] THEN d ELSE 0)
    BY VotedUpdate
  <2>. QED  BY <2>1, <2>2
<1>3. AllVoted(l, D) = SumFunctionOnSet(f, Candidates)
      /\ AllVoted(l2, D) = SumFunctionOnSet(f2, Candidates)
  BY DEF AllVoted
<1>4. \A c \in Candidates : g[c] = IF c \in list THEN d ELSE 0
  OBVIOUS
<1>5. list = {} => Cardinality(list) = 0
  BY FS_EmptySet
<1>6. proxy[v] = NoProxy => list = votes[v]
  OBVIOUS
<1>7. proxy[v] # NoProxy => list = {}
  OBVIOUS
<1>8. d = l2[v] - l[v]
  OBVIOUS
<1>. HIDE DEF f, f2, g, d, list
<1>9. SumFunctionOnSet(f2, Candidates)
        = SumFunctionOnSet(f, Candidates) + SumFunctionOnSet(g, Candidates)
  BY <1>2, VotersFinite, SumPlus
<1>10. SumFunctionOnSet(g, Candidates) = d * Cardinality(list)
  BY <1>1, <1>4, SumOfList
<1>11. SumFunctionOnSet(f, Candidates) \in Int
  BY <1>2, VotersFinite, SumType
<1>12. CASE proxy[v] = NoProxy
  BY <1>3, <1>6, <1>8, <1>9, <1>10, <1>12
<1>13. CASE proxy[v] # NoProxy
  <2>1. d * 0 = 0
    BY <1>1
  <2>. QED  BY <1>3, <1>5, <1>7, <1>9, <1>10, <1>11, <1>13, <2>1
<1>. QED  BY <1>12, <1>13
-----------------------------------------------------------------------------
(* One step of the walk, over the accounts D, with R the accounts it may   *)
(* still come to.  extra, votes0 and total0 are what the tables hold       *)
(* besides the sums over D: they stay as they are.                         *)

Walks ==
  [at : Accounts \cup {NoProxy}, last : [Accounts -> Int], proxied : [Accounts -> Int],
   weights : [Candidates -> Int], total : Int, ok : BOOLEAN]

Exact(w, D, R, extra, votes0, total0) ==
  /\ w.at \in R \cup {NoProxy}
  /\ w.last \in [Accounts -> Nat] /\ Even(w.last)
  /\ \A a \in Accounts \ R : w.last[a] = last_vote_weight[a]
  /\ \A a \in Accounts : w.proxied[a] = Carried(w.last, D, a) + extra[a]
  /\ \A c \in Candidates : w.weights[c] = VotedBy(w.last, D, c) + votes0[c]
  /\ w.total = AllVoted(w.last, D) + total0
  /\ \A c \in Candidates \ interiors : w.weights[c] = 0

\* What the accounts, sets and offsets of a walk have to be.
WalkOver(D, R, extra, votes0, total0) ==
  /\ D \in SUBSET Accounts /\ R \in SUBSET D /\ Closed(R)
  /\ extra \in [Accounts -> Nat] /\ Even(extra)
  /\ votes0 \in [Candidates -> Int] /\ total0 \in Int

Stakes == [Accounts -> 0 .. MaxStake]

LEMMA WeightIsEven ==
  ASSUME TypeOK, NEW stake \in Stakes, NEW v \in Accounts, NEW proxying,
         NEW proxied \in [Accounts -> Int], proxied[v] \in Nat, proxied[v] % 2 = 0
  PROVE  /\ NewWeight(v, stake, proxying, proxied) \in Nat
         /\ NewWeight(v, stake, proxying, proxied) % 2 = 0
<1>. DEFINE own == Factor[week] * stake[v]
<1>1. Factor[week] \in Nat /\ Factor[week] % 2 = 0 /\ stake[v] \in Nat
  BY FactorAssumption DEF TypeOK, Stakes
<1>2. own \in Nat /\ own % 2 = 0
  <2>1. \A m \in Nat : m % 2 = 0 => \E k \in Nat : m = 2 * k
    <3>1. \A m \in Nat : m % 2 = 0 => m \div 2 \in Nat /\ m = 2 * (m \div 2)
      OBVIOUS
    <3>. QED  BY <3>1
  <2>2. PICK k \in Nat : Factor[week] = 2 * k
    BY <1>1, <2>1
  <2>3. \A n \in Nat : (2 * k) * n = 2 * (k * n) /\ k * n \in Nat
    OBVIOUS
  <2>4. \A n \in Nat : (2 * n) % 2 = 0
    OBVIOUS
  <2>. QED  BY <1>1, <2>2, <2>3, <2>4
<1>3. NewWeight(v, stake, proxying, proxied) = own + (IF v \in proxying THEN proxied[v] ELSE 0)
  BY DEF NewWeight, stake2vote
<1>. HIDE DEF own
<1>4. CASE v \in proxying
  <2>1. \A m, n \in Nat : m % 2 = 0 /\ n % 2 = 0 => m + n \in Nat /\ (m + n) % 2 = 0
    OBVIOUS
  <2>. QED  BY <1>2, <1>3, <1>4, <2>1
<1>5. CASE v \notin proxying
  BY <1>2, <1>3, <1>5
<1>. QED  BY <1>4, <1>5

\* The new weight of the one step's account, and all the last weights after it.
NextWeight(w, stake, proxying) == NewWeight(w.at, stake, proxying, w.proxied)
NextLast(w, stake, proxying) == [w.last EXCEPT ![w.at] = NextWeight(w, stake, proxying)]

\* The four ends of a step, as records.
LEMMA WalkStepCases ==
  ASSUME TypeOK, NEW stake \in Stakes, NEW proxying, NEW w \in Walks, w.at # NoProxy
  PROVE  LET v == w.at
             delta == NextWeight(w, stake, proxying) - w.last[v]
             w2 == WalkStep(w, stake, proxying)
             l2 == NextLast(w, stake, proxying)
         IN  /\ v \in Accounts /\ NextWeight(w, stake, proxying) \in Int
             /\ l2 \in [Accounts -> Int]
             /\ v \in proxying /\ proxy[v] # NoProxy =>
                  w2 = [at |-> NoProxy, last |-> l2, proxied |-> w.proxied,
                        weights |-> w.weights, total |-> w.total, ok |-> FALSE]
             /\ ~ (v \in proxying /\ proxy[v] # NoProxy) /\ delta \in -1 .. 1 =>
                  w2 = [at |-> NoProxy, last |-> l2, proxied |-> w.proxied,
                        weights |-> w.weights, total |-> w.total, ok |-> w.ok]
             /\ v \notin proxying /\ proxy[v] # NoProxy /\ delta \notin -1 .. 1 =>
                  w2 = [at |-> proxy[v], last |-> l2,
                        proxied |-> [w.proxied EXCEPT ![proxy[v]] = @ + delta],
                        weights |-> w.weights, total |-> w.total, ok |-> w.ok]
             /\ proxy[v] = NoProxy /\ delta \notin -1 .. 1 =>
                  w2 = [at |-> NoProxy, last |-> l2, proxied |-> w.proxied,
                        weights |-> [c \in Candidates |->
                                       IF c \in votes[v] THEN w.weights[c] + delta
                                                         ELSE w.weights[c]],
                        total |-> w.total + delta * Cardinality(votes[v]),
                        ok |-> w.ok /\ votes[v] \subseteq interiors]
<1>. DEFINE v == w.at
            weight == NextWeight(w, stake, proxying)
            delta == weight - w.last[v]
            l2 == NextLast(w, stake, proxying)
            w2 == WalkStep(w, stake, proxying)
            done == [w EXCEPT !.at = NoProxy, !.last[v] = @ + delta]
            same == [at |-> NoProxy, last |-> l2, proxied |-> w.proxied,
                     weights |-> w.weights, total |-> w.total, ok |-> w.ok]
<1>1. v \in Accounts
  BY DEF Walks
<1>2. weight \in Int
  <2>1. Factor[week] * stake[v] \in Int
    BY <1>1, FactorAssumption DEF TypeOK, Stakes
  <2>2. w.proxied[v] \in Int
    BY <1>1 DEF Walks
  <2>. QED  BY <2>1, <2>2 DEF NextWeight, NewWeight, stake2vote
<1>3. delta \in Int /\ w.last[v] \in Int /\ w.last[v] + delta = weight
  BY <1>1, <1>2 DEF Walks
<1>4. l2 = [w.last EXCEPT ![v] = weight]
  BY DEF NextLast
<1>5. l2 \in [Accounts -> Int]
  BY <1>1, <1>2, <1>4 DEF Walks
<1>7. w2 = IF v \in proxying /\ proxy[v] # NoProxy THEN [done EXCEPT !.ok = FALSE]
           ELSE IF delta \in -1 .. 1 THEN done
           ELSE IF proxy[v] # NoProxy
             THEN [done EXCEPT !.at = proxy[v], !.proxied[proxy[v]] = @ + delta]
             ELSE [done EXCEPT !.ok = @ /\ votes[v] \subseteq interiors,
                               !.weights = [c \in Candidates |->
                                              IF c \in votes[v] THEN @[c] + delta ELSE @[c]],
                               !.total = @ + delta * Cardinality(votes[v])]
  BY DEF WalkStep, NextWeight
<1>. HIDE DEF v, weight, delta, l2, w2
<1>8. done = same
  <2>1. done = [w EXCEPT !.at = NoProxy, !.last = [w.last EXCEPT ![v] = w.last[v] + delta]]
    BY DEF Walks
  <2>2. [w.last EXCEPT ![v] = w.last[v] + delta] = l2
    BY <1>3, <1>4
  <2>3. done = [w EXCEPT !.at = NoProxy, !.last = l2]
    BY <2>1, <2>2
  <2>. HIDE DEF done
  <2>. QED  BY <2>3 DEF Walks
<1>. HIDE DEF done
<1>9. CASE v \in proxying /\ proxy[v] # NoProxy
  BY <1>1, <1>2, <1>5, <1>7, <1>8, <1>9 DEF v, weight, l2, w2
<1>10. CASE ~ (v \in proxying /\ proxy[v] # NoProxy) /\ delta \in -1 .. 1
  BY <1>1, <1>2, <1>5, <1>7, <1>8, <1>10 DEF v, weight, l2, w2, delta
<1>11. CASE v \notin proxying /\ proxy[v] # NoProxy /\ delta \notin -1 .. 1
  BY <1>1, <1>2, <1>5, <1>7, <1>8, <1>11 DEF v, weight, l2, w2, delta
<1>12. CASE proxy[v] = NoProxy /\ delta \notin -1 .. 1
  <2>. DEFINE weights == [c \in Candidates |->
                            IF c \in votes[v] THEN w.weights[c] + delta ELSE w.weights[c]]
              total == w.total + delta * Cardinality(votes[v])
              ok == w.ok /\ votes[v] \subseteq interiors
  <2>1. w2 = [done EXCEPT !.ok = done.ok /\ votes[v] \subseteq interiors,
                          !.weights = [c \in Candidates |->
                                         IF c \in votes[v] THEN done.weights[c] + delta
                                                           ELSE done.weights[c]],
                          !.total = done.total + delta * Cardinality(votes[v])]
    BY <1>7, <1>12
  <2>2. w2 = [same EXCEPT !.ok = ok, !.weights = weights, !.total = total]
    BY <1>8, <2>1
  <2>. HIDE DEF weights, total, ok
  <2>3. w2 = [at |-> NoProxy, last |-> l2, proxied |-> w.proxied,
              weights |-> weights, total |-> total, ok |-> ok]
    BY <2>2
  <2>. QED
    BY <1>1, <1>2, <1>5, <1>12, <2>3 DEF v, weight, l2, w2, delta, weights, total, ok
<1>. QED  BY <1>9, <1>10, <1>11, <1>12

LEMMA WalkStepType ==
  ASSUME TypeOK, NEW stake \in Stakes, NEW proxying, NEW w \in Walks
  PROVE  /\ WalkStep(w, stake, proxying) \in Walks
         /\ WalkStep(w, stake, proxying).ok => w.ok
<1>. DEFINE v == w.at
            delta == NextWeight(w, stake, proxying) - w.last[v]
            w2 == WalkStep(w, stake, proxying)
            l2 == NextLast(w, stake, proxying)
<1>1. CASE v = NoProxy
  BY <1>1 DEF WalkStep
<1>2. CASE v # NoProxy
  <2>1. v \in Accounts /\ l2 \in [Accounts -> Int] /\ delta \in Int
    BY <1>2, WalkStepCases DEF Walks
  <2>2. CASE v \in proxying /\ proxy[v] # NoProxy
    <3>1. w2 = [at |-> NoProxy, last |-> l2, proxied |-> w.proxied,
                weights |-> w.weights, total |-> w.total, ok |-> FALSE]
      BY <1>2, <2>2, WalkStepCases
    <3>. HIDE DEF w2, l2
    <3>. QED  BY <2>1, <3>1 DEF Walks, w2
  <2>3. CASE ~ (v \in proxying /\ proxy[v] # NoProxy) /\ delta \in -1 .. 1
    <3>1. w2 = [at |-> NoProxy, last |-> l2, proxied |-> w.proxied,
                weights |-> w.weights, total |-> w.total, ok |-> w.ok]
      BY <1>2, <2>3, WalkStepCases
    <3>. HIDE DEF w2, l2
    <3>. QED  BY <2>1, <3>1 DEF Walks, w2
  <2>4. CASE v \notin proxying /\ proxy[v] # NoProxy /\ delta \notin -1 .. 1
    <3>. DEFINE proxied == [w.proxied EXCEPT ![proxy[v]] = @ + delta]
    <3>1. w2 = [at |-> proxy[v], last |-> l2, proxied |-> proxied,
                weights |-> w.weights, total |-> w.total, ok |-> w.ok]
      BY <1>2, <2>4, WalkStepCases
    <3>2. proxy[v] \in Accounts
      BY <2>1, <2>4 DEF TypeOK
    <3>3. proxied \in [Accounts -> Int]
      <4>. DEFINE p == proxy[v]
                  f == w.proxied
      <4>1. f \in [Accounts -> Int] /\ p \in Accounts
        BY <3>2 DEF Walks
      <4>. HIDE DEF delta, p, f
      <4>2. [f EXCEPT ![p] = f[p] + delta] \in [Accounts -> Int]
        BY <2>1, <4>1
      <4>. QED  BY <4>2 DEF p, f
    <3>. HIDE DEF w2, l2, proxied
    <3>. QED  BY <2>1, <3>1, <3>2, <3>3 DEF Walks, w2
  <2>5. CASE proxy[v] = NoProxy /\ delta \notin -1 .. 1
    <3>. DEFINE weights == [c \in Candidates |->
                              IF c \in votes[v] THEN w.weights[c] + delta ELSE w.weights[c]]
                total == w.total + delta * Cardinality(votes[v])
                ok == w.ok /\ votes[v] \subseteq interiors
    <3>1. w2 = [at |-> NoProxy, last |-> l2, proxied |-> w.proxied,
                weights |-> weights, total |-> total, ok |-> ok]
      BY <1>2, <2>5, WalkStepCases
    <3>2. Cardinality(votes[v]) \in Int
      BY <2>1, VotersFinite, FS_Subset, FS_CardinalityType DEF TypeOK
    <3>3. weights \in [Candidates -> Int] /\ total \in Int
      BY <2>1, <3>2 DEF Walks
    <3>4. ok \in BOOLEAN /\ (ok => w.ok)
      BY DEF Walks
    <3>. HIDE DEF w2, l2, weights, total, ok
    <3>5. w2 \in Walks
      BY <2>1, <3>1, <3>3, <3>4 DEF Walks
    <3>6. w2.ok = ok
      BY <3>1
    <3>. QED  BY <3>4, <3>5, <3>6 DEF w2
  <2>. QED  BY <2>2, <2>3, <2>4, <2>5
<1>. QED  BY <1>1, <1>2

LEMMA WalkStepKeeps ==
  ASSUME TypeOK, NEW stake \in Stakes, NEW proxying, NEW w \in Walks,
         NEW D, NEW R, NEW extra, NEW votes0, NEW total0,
         WalkOver(D, R, extra, votes0, total0),
         Exact(w, D, R, extra, votes0, total0),
         WalkStep(w, stake, proxying).ok
  PROVE  Exact(WalkStep(w, stake, proxying), D, R, extra, votes0, total0)
<1>. DEFINE v == w.at
            weight == NextWeight(w, stake, proxying)
            delta == weight - w.last[v]
            w2 == WalkStep(w, stake, proxying)
            l2 == NextLast(w, stake, proxying)
<1>1. CASE v = NoProxy
  BY <1>1 DEF WalkStep
<1>2. CASE v # NoProxy
  <2>1. v \in R /\ v \in D /\ v \in Accounts
    BY <1>2, WalkStepCases DEF Exact, WalkOver
  <2>2. w.last \in [Accounts -> Nat] /\ Even(w.last)
    BY DEF Exact
  <2>3. weight \in Nat /\ weight % 2 = 0
    <3>1. w.proxied[v] = Carried(w.last, D, v) + extra[v]
      BY <2>1 DEF Exact
    <3>2. Carried(w.last, D, v) \in Nat /\ Carried(w.last, D, v) % 2 = 0
      BY <2>2, CarriedType DEF WalkOver
    <3>3. extra[v] \in Nat /\ extra[v] % 2 = 0
      BY <2>1 DEF WalkOver, Even
    <3>4. \A m, n \in Nat : m % 2 = 0 /\ n % 2 = 0 => m + n \in Nat /\ (m + n) % 2 = 0
      OBVIOUS
    <3>5. w.proxied[v] \in Nat /\ w.proxied[v] % 2 = 0
      BY <3>1, <3>2, <3>3, <3>4
    <3>6. w.proxied \in [Accounts -> Int]
      BY DEF Walks
    <3>. QED  BY <2>1, <3>5, <3>6, WeightIsEven DEF NextWeight
  <2>4. /\ l2 \in [Accounts -> Nat] /\ l2[v] = weight
        /\ \A u \in Accounts \ {v} : l2[u] = w.last[u]
    BY <2>1, <2>2, <2>3 DEF NextLast
  <2>5. Even(l2)
    BY <2>2, <2>3, <2>4 DEF Even
  <2>6. \A a \in Accounts \ R : l2[a] = last_vote_weight[a]
    BY <2>1, <2>4 DEF Exact
  <2>7. l2[v] - w.last[v] = delta /\ delta \in Int
    BY <2>1, <2>2, <2>3, <2>4
  <2>8. D \in SUBSET Accounts /\ v \in D
    BY <2>1 DEF WalkOver
  <2>9. \A a \in Accounts :
          Carried(l2, D, a) = Carried(w.last, D, a) + (IF proxy[v] = a THEN delta ELSE 0)
    <3>. HIDE DEF l2, v, delta, weight
    <3>. QED  BY <2>2, <2>4, <2>7, <2>8, CarriedUpdate
  <2>10. \A c \in Candidates :
           VotedBy(l2, D, c) = VotedBy(w.last, D, c)
             + (IF proxy[v] = NoProxy /\ c \in votes[v] THEN delta ELSE 0)
    <3>. HIDE DEF l2, v, delta, weight
    <3>. QED  BY <2>2, <2>4, <2>7, <2>8, VotedUpdate
  <2>11. AllVoted(l2, D) = AllVoted(w.last, D)
           + (IF proxy[v] = NoProxy THEN delta * Cardinality(votes[v]) ELSE 0)
    <3>1. votes \in [Accounts -> SUBSET Candidates]
      BY DEF TypeOK
    <3>. HIDE DEF l2, v, delta, weight
    <3>. QED  BY <2>2, <2>4, <2>7, <2>8, <3>1, AllVotedUpdate
  <2>12. /\ \A a \in Accounts : Carried(w.last, D, a) \in Int
         /\ \A c \in Candidates : VotedBy(w.last, D, c) \in Int
         /\ AllVoted(w.last, D) \in Int
         /\ extra \in [Accounts -> Int] /\ votes0 \in [Candidates -> Int] /\ total0 \in Int
    BY <2>2, <2>8, CarriedType, VotedType, AllVotedType DEF WalkOver
  <2>13. /\ \A a \in Accounts : w.proxied[a] = Carried(w.last, D, a) + extra[a]
         /\ \A c \in Candidates : w.weights[c] = VotedBy(w.last, D, c) + votes0[c]
         /\ w.total = AllVoted(w.last, D) + total0
         /\ \A c \in Candidates \ interiors : w.weights[c] = 0
    BY DEF Exact
  <2>14. w2.ok
    OBVIOUS
  <2>15. CASE v \in proxying /\ proxy[v] # NoProxy
    <3>1. w2.ok = FALSE
      BY <1>2, <2>15, WalkStepCases
    <3>. QED  BY <2>14, <3>1
  <2>16. CASE ~ (v \in proxying /\ proxy[v] # NoProxy) /\ delta \in -1 .. 1
    <3>1. w2 = [at |-> NoProxy, last |-> l2, proxied |-> w.proxied,
                weights |-> w.weights, total |-> w.total, ok |-> w.ok]
      BY <1>2, <2>16, WalkStepCases
    <3>2. delta = 0
      <4>1. \A m, n \in Nat : m % 2 = 0 /\ n % 2 = 0 /\ m - n \in -1 .. 1 => m - n = 0
        OBVIOUS
      <4>2. w.last[v] \in Nat /\ w.last[v] % 2 = 0
        BY <2>1, <2>2 DEF Even
      <4>. QED  BY <2>3, <2>16, <4>1, <4>2
    <3>3. /\ \A a \in Accounts : Carried(l2, D, a) = Carried(w.last, D, a)
          /\ \A c \in Candidates : VotedBy(l2, D, c) = VotedBy(w.last, D, c)
      <4>. HIDE DEF l2, v, delta
      <4>. QED  BY <2>9, <2>10, <2>12, <3>2
    <3>4. AllVoted(l2, D) = AllVoted(w.last, D)
      <4>1. Cardinality(votes[v]) \in Int
        BY <2>1, VotersFinite, FS_Subset, FS_CardinalityType DEF TypeOK
      <4>. HIDE DEF l2, v, delta
      <4>2. delta * Cardinality(votes[v]) = 0
        BY <3>2, <4>1
      <4>. QED  BY <2>11, <2>12, <4>2
    <3>. HIDE DEF w2, l2, v, delta
    <3>5. Exact(w2, D, R, extra, votes0, total0)
      BY <2>4, <2>5, <2>6, <2>13, <3>1, <3>3, <3>4 DEF Exact
    <3>. QED  BY <3>5 DEF w2
  <2>17. CASE v \notin proxying /\ proxy[v] # NoProxy /\ delta \notin -1 .. 1
    <3>. DEFINE proxied == [w.proxied EXCEPT ![proxy[v]] = @ + delta]
    <3>1. w2 = [at |-> proxy[v], last |-> l2, proxied |-> proxied,
                weights |-> w.weights, total |-> w.total, ok |-> w.ok]
      BY <1>2, <2>17, WalkStepCases
    <3>2. proxy[v] \in R
      BY <2>1, <2>17 DEF WalkOver, Closed
    <3>3. \A a \in Accounts : proxied[a] = w.proxied[a] + (IF proxy[v] = a THEN delta ELSE 0)
      BY <2>7 DEF Walks
    <3>4. /\ \A a \in Accounts : proxied[a] = Carried(l2, D, a) + extra[a]
          /\ \A c \in Candidates : w.weights[c] = VotedBy(l2, D, c) + votes0[c]
          /\ w.total = AllVoted(l2, D) + total0
      <4>. HIDE DEF l2, v, delta, proxied
      <4>. QED  BY <2>7, <2>9, <2>10, <2>11, <2>12, <2>13, <2>17, <3>3
    <3>. HIDE DEF w2, l2, v, delta, proxied
    <3>5. Exact(w2, D, R, extra, votes0, total0)
      BY <2>4, <2>5, <2>6, <2>13, <3>1, <3>2, <3>4 DEF Exact
    <3>. QED  BY <3>5 DEF w2
  <2>18. CASE proxy[v] = NoProxy /\ delta \notin -1 .. 1
    <3>. DEFINE weights == [c \in Candidates |->
                              IF c \in votes[v] THEN w.weights[c] + delta ELSE w.weights[c]]
                total == w.total + delta * Cardinality(votes[v])
                ok == w.ok /\ votes[v] \subseteq interiors
    <3>1. w2 = [at |-> NoProxy, last |-> l2, proxied |-> w.proxied,
                weights |-> weights, total |-> total, ok |-> ok]
      BY <1>2, <2>18, WalkStepCases
    <3>2. ok
      <4>. HIDE DEF w2, l2, weights, total, ok
      <4>1. w2.ok = ok
        BY <3>1
      <4>. QED  BY <2>14, <4>1
    <3>3. NoProxy \notin Accounts
      BY VotersAssumption
    <3>4. \A c \in Candidates \ interiors : weights[c] = 0
      BY <2>13, <3>2
    <3>5. \A c \in Candidates :
            weights[c] = w.weights[c] + (IF c \in votes[v] THEN delta ELSE 0)
      BY <2>7 DEF Walks
    <3>6. \A a \in Accounts : w.proxied[a] = Carried(l2, D, a) + extra[a]
      <4>. HIDE DEF l2, v, delta
      <4>. QED  BY <2>9, <2>12, <2>13, <2>18, <3>3
    <3>7. \A c \in Candidates : weights[c] = VotedBy(l2, D, c) + votes0[c]
      <4>. HIDE DEF l2, v, delta, weights
      <4>. QED  BY <2>7, <2>10, <2>12, <2>13, <2>18, <3>5
    <3>8. total = AllVoted(l2, D) + total0
      <4>1. Cardinality(votes[v]) \in Int
        BY <2>1, VotersFinite, FS_Subset, FS_CardinalityType DEF TypeOK
      <4>. DEFINE more == delta * Cardinality(votes[v])
      <4>2. more \in Int
        BY <2>7, <4>1
      <4>3. AllVoted(l2, D) = AllVoted(w.last, D) + more /\ total = w.total + more
        BY <2>11, <2>18
      <4>. HIDE DEF l2, v, delta, more, total
      <4>. QED  BY <2>12, <2>13, <4>2, <4>3
    <3>. HIDE DEF w2, l2, v, delta, weights, total, ok
    <3>9. Exact(w2, D, R, extra, votes0, total0)
      BY <2>4, <2>5, <2>6, <3>1, <3>4, <3>6, <3>7, <3>8 DEF Exact
    <3>. QED  BY <3>9 DEF w2
  <2>. QED  BY <2>15, <2>16, <2>17, <2>18
<1>. QED  BY <1>1, <1>2

-----------------------------------------------------------------------------
(* The walk as a whole.                                                    *)

\* g takes the first n steps.
IsWalk(g, n, start, stake, proxying) ==
  g = [k \in 0 .. n |-> IF k = 0 THEN start ELSE WalkStep(g[k - 1], stake, proxying)]

LEMMA WalkExists ==
  ASSUME NEW N \in Nat, NEW start, NEW stake, NEW proxying
  PROVE  \E g : IsWalk(g, N, start, stake, proxying)
<1>. DEFINE S == {n \in 0 .. N : \E g : IsWalk(g, n, start, stake, proxying)}
<1>1. 0 \in S
  <2>1. IsWalk([k \in 0 .. 0 |-> start], 0, start, stake, proxying)
    BY DEF IsWalk
  <2>. QED  BY <2>1
<1>2. ASSUME NEW n \in 0 .. N - 1, n \in S PROVE n + 1 \in S
  <2>1. PICK g : IsWalk(g, n, start, stake, proxying)
    BY <1>2
  <2>. DEFINE h == [k \in 0 .. n + 1 |-> IF k = n + 1 THEN WalkStep(g[n], stake, proxying)
                                                     ELSE g[k]]
  <2>2. \A k \in 0 .. n : h[k] = g[k] /\ k \in 0 .. n + 1
    OBVIOUS
  <2>3. h[n + 1] = WalkStep(g[n], stake, proxying)
    OBVIOUS
  <2>4. \A k \in 0 .. n : g[k] = IF k = 0 THEN start ELSE WalkStep(g[k - 1], stake, proxying)
    BY <2>1 DEF IsWalk
  <2>5. \A k \in 0 .. n + 1 :
          h[k] = IF k = 0 THEN start ELSE WalkStep(h[k - 1], stake, proxying)
    <3>. TAKE k \in 0 .. n + 1
    <3>1. CASE k = n + 1
      <4>1. k # 0 /\ k - 1 = n /\ n \in 0 .. n
        BY <3>1
      <4>. HIDE DEF h
      <4>. QED  BY <2>2, <2>3, <3>1, <4>1
    <3>2. CASE k = 0
      <4>1. k \in 0 .. n
        BY <3>2
      <4>. HIDE DEF h
      <4>. QED  BY <2>2, <2>4, <3>2, <4>1
    <3>3. CASE k \in 1 .. n
      <4>1. k \in 0 .. n /\ k - 1 \in 0 .. n /\ k # 0
        BY <3>3
      <4>. HIDE DEF h
      <4>. QED  BY <2>2, <2>4, <4>1
    <3>. QED  BY <3>1, <3>2, <3>3
  <2>6. h = [k \in 0 .. n + 1 |-> h[k]]
    OBVIOUS
  <2>7. IsWalk(h, n + 1, start, stake, proxying)
    <3>. HIDE DEF h
    <3>. QED  BY <2>5, <2>6 DEF IsWalk
  <2>8. n + 1 \in 0 .. N
    OBVIOUS
  <2>. HIDE DEF h
  <2>. QED  BY <2>7, <2>8
<1>3. \A n \in 0 .. N : n \in S
  <2>. HIDE DEF S
  <2>. QED  BY <1>1, <1>2, UpTo
<1>. QED  BY <1>3

LEMMA PropagateWalks ==
  ASSUME NEW start, NEW stake, NEW proxying
  PROVE  \E g : /\ IsWalk(g, Cardinality(Accounts), start, stake, proxying)
                /\ Propagate(start, stake, proxying) = g[Cardinality(Accounts)]
<1>. DEFINE N == Cardinality(Accounts)
            Body(g) == [n \in 0 .. N |-> IF n = 0 THEN start
                                         ELSE WalkStep(g[n - 1], stake, proxying)]
            walk == CHOOSE g : g = Body(g)
<1>1. N \in Nat
  BY VotersFinite, FS_CardinalityType
<1>2. Propagate(start, stake, proxying) = walk[N]
  BY DEF Propagate
<1>3. \E g : g = Body(g)
  <2>1. PICK g : IsWalk(g, N, start, stake, proxying)
    <3>. HIDE DEF N
    <3>. QED  BY <1>1, WalkExists
  <2>2. g = Body(g)
    BY <2>1 DEF IsWalk
  <2>. HIDE DEF Body
  <2>. QED  BY <2>2
<1>4. walk = Body(walk)
  <2>. HIDE DEF Body
  <2>. QED  BY <1>3
<1>5. IsWalk(walk, N, start, stake, proxying)
  <2>. HIDE DEF walk
  <2>. QED  BY <1>4 DEF IsWalk
<1>. HIDE DEF walk
<1>. QED  BY <1>2, <1>5

LEMMA PropagateKeeps ==
  ASSUME TypeOK, NEW stake \in Stakes, NEW proxying, NEW start \in Walks,
         NEW D, NEW R, NEW extra, NEW votes0, NEW total0,
         WalkOver(D, R, extra, votes0, total0),
         start.ok => Exact(start, D, R, extra, votes0, total0)
  PROVE  LET w == Propagate(start, stake, proxying)
         IN  /\ w \in Walks
             /\ w.ok => start.ok /\ Exact(w, D, R, extra, votes0, total0)
<1>. DEFINE N == Cardinality(Accounts)
<1>1. PICK g : /\ IsWalk(g, N, start, stake, proxying)
               /\ Propagate(start, stake, proxying) = g[N]
  BY PropagateWalks
<1>2. N \in Nat
  BY VotersFinite, FS_CardinalityType
<1>. DEFINE S == {n \in 0 .. N : /\ g[n] \in Walks
                                 /\ g[n].ok => /\ start.ok
                                               /\ Exact(g[n], D, R, extra, votes0, total0)}
<1>. HIDE DEF N
<1>3. g[0] = start
  BY <1>1, <1>2 DEF IsWalk
<1>4. \A n \in 0 .. N - 1 : g[n + 1] = WalkStep(g[n], stake, proxying)
  <2>. TAKE n \in 0 .. N - 1
  <2>1. n + 1 \in 0 .. N /\ n + 1 # 0 /\ (n + 1) - 1 = n
    BY <1>2
  <2>. QED  BY <1>1, <2>1 DEF IsWalk
<1>5. 0 \in S
  BY <1>2, <1>3
<1>6. ASSUME NEW n \in 0 .. N - 1, n \in S PROVE n + 1 \in S
  <2>1. g[n] \in Walks /\ (g[n].ok => start.ok /\ Exact(g[n], D, R, extra, votes0, total0))
    BY <1>6
  <2>2. g[n + 1] \in Walks /\ (g[n + 1].ok => g[n].ok)
    BY <1>4, <2>1, WalkStepType
  <2>3. g[n + 1].ok => Exact(g[n + 1], D, R, extra, votes0, total0)
    BY <1>4, <2>1, <2>2, WalkStepKeeps
  <2>4. n + 1 \in 0 .. N
    BY <1>2
  <2>. QED  BY <2>1, <2>2, <2>3, <2>4
<1>7. N \in S
  <2>. HIDE DEF S
  <2>1. N \in 0 .. N
    BY <1>2
  <2>. QED  BY <1>2, <1>5, <1>6, <2>1, UpTo
<1>. QED  BY <1>1, <1>7

\* An account that becomes a proxy and has a proxy itself aborts the walk.
LEMMA ProxyAborts ==
  ASSUME TypeOK, NEW stake \in Stakes, NEW proxying, NEW start \in Walks,
         start.at \in proxying \cap Accounts, proxy[start.at] # NoProxy
  PROVE  ~ Propagate(start, stake, proxying).ok
<1>. DEFINE N == Cardinality(Accounts)
            M == N - 1
<1>1. PICK g : /\ IsWalk(g, N, start, stake, proxying)
               /\ Propagate(start, stake, proxying) = g[N]
  BY PropagateWalks
<1>2. N \in Nat /\ N # 0
  BY VotersFinite, FS_CardinalityType, FS_EmptySet
<1>. DEFINE S == {n \in 0 .. M : g[n + 1].at = NoProxy /\ ~ g[n + 1].ok}
<1>. HIDE DEF N
<1>3. g[0] = start
  BY <1>1, <1>2 DEF IsWalk
<1>4. \A n \in 0 .. N - 1 : g[n + 1] = WalkStep(g[n], stake, proxying)
  <2>. TAKE n \in 0 .. N - 1
  <2>1. n + 1 \in 0 .. N /\ n + 1 # 0 /\ (n + 1) - 1 = n
    BY <1>2
  <2>. QED  BY <1>1, <2>1 DEF IsWalk
<1>5. 0 \in S
  <2>. DEFINE l2 == NextLast(start, stake, proxying)
              w2 == WalkStep(start, stake, proxying)
  <2>1. start.at # NoProxy
    BY VotersAssumption
  <2>2. w2 = [at |-> NoProxy, last |-> l2, proxied |-> start.proxied,
              weights |-> start.weights, total |-> start.total, ok |-> FALSE]
    BY <2>1, WalkStepCases
  <2>3. g[0 + 1] = w2 /\ 0 \in 0 .. M
    BY <1>2, <1>3, <1>4
  <2>. HIDE DEF w2, l2
  <2>. QED  BY <2>2, <2>3
<1>6. ASSUME NEW n \in 0 .. M - 1, n \in S PROVE n + 1 \in S
  <2>1. n + 1 \in 0 .. N - 1 /\ n + 1 \in 0 .. M
    BY <1>2
  <2>2. g[(n + 1) + 1] = WalkStep(g[n + 1], stake, proxying)
    BY <1>4, <2>1
  <2>3. g[n + 1].at = NoProxy /\ ~ g[n + 1].ok
    BY <1>6
  <2>4. g[(n + 1) + 1] = g[n + 1]
    BY <2>2, <2>3 DEF WalkStep
  <2>. QED  BY <2>1, <2>3, <2>4
<1>7. M \in S
  <2>. HIDE DEF S
  <2>1. M \in 0 .. M /\ M \in Nat
    BY <1>2
  <2>. HIDE DEF M
  <2>. QED  BY <1>5, <1>6, <2>1, UpTo
<1>8. M + 1 = N
  BY <1>2
<1>. QED  BY <1>1, <1>7, <1>8

-----------------------------------------------------------------------------
(* A voter's own part of the sums.  l2 and T are the weights, and those    *)
(* who are summed, before or after the voter's row has changed; the other  *)
(* accounts' rows are as they are.                                         *)

LEMMA SumWithout ==
  ASSUME NEW T, IsFiniteSet(T), NEW f, \A u \in T : f[u] \in Int, NEW v
  PROVE  /\ v \in T => SumFunctionOnSet(f, T) = SumFunctionOnSet(f, T \ {v}) + f[v]
         /\ v \notin T => SumFunctionOnSet(f, T) = SumFunctionOnSet(f, T \ {v})
<1>1. IsFiniteSet(T \ {v})
  BY FS_Subset
<1>2. SumFunctionOnSet(f, T \ {v}) \in Int
  BY <1>1, SumType
<1>3. CASE v \in T
  BY <1>2, <1>3, SumRemove
<1>4. CASE v \notin T
  <2>1. T \ {v} = T
    BY <1>4
  <2>. QED  BY <1>4, <2>1
<1>. QED  BY <1>3, <1>4

LEMMA SumSplit ==
  ASSUME NEW T \in SUBSET Accounts, NEW v \in Accounts,
         NEW l \in [Accounts -> Nat], NEW l2 \in [Accounts -> Nat],
         \A u \in Accounts \ {v} : l2[u] = l[u]
  PROVE  /\ v \in T => SumFunctionOnSet(l2, T) = SumFunctionOnSet(l, T \ {v}) + l2[v]
         /\ v \notin T => SumFunctionOnSet(l2, T) = SumFunctionOnSet(l, T \ {v})
<1>. DEFINE U == T \ {v}
<1>1. IsFiniteSet(T) /\ IsFiniteSet(U)
  BY VotersFinite
<1>2. \A u \in U : l[u] \in Int /\ l2[u] = l[u]
  OBVIOUS
<1>3. \A u \in T : l2[u] \in Int
  OBVIOUS
<1>4. /\ v \in T => SumFunctionOnSet(l2, T) = SumFunctionOnSet(l2, U) + l2[v]
      /\ v \notin T => SumFunctionOnSet(l2, T) = SumFunctionOnSet(l2, U)
  BY <1>1, <1>3, SumWithout
<1>. HIDE DEF U
<1>5. SumFunctionOnSet(l2, U) = SumFunctionOnSet(l, U)
  BY <1>1, <1>2, SumCongruence
<1>6. /\ v \in T => SumFunctionOnSet(l2, T) = SumFunctionOnSet(l, U) + l2[v]
      /\ v \notin T => SumFunctionOnSet(l2, T) = SumFunctionOnSet(l, U)
  BY <1>4, <1>5
<1>. QED  BY <1>6 DEF U

LEMMA CarriedWithout ==
  ASSUME NEW v \in Accounts, NEW l \in [Accounts -> Nat], NEW x
  PROVE  /\ proxy[v] = x => Carried(l, Accounts, x) = Carried(l, Accounts \ {v}, x) + l[v]
         /\ proxy[v] # x => Carried(l, Accounts, x) = Carried(l, Accounts \ {v}, x)
<1>. DEFINE T == {u \in Accounts : proxy[u] = x}
            U == T \ {v}
<1>1. T \in SUBSET Accounts /\ (v \in T <=> proxy[v] = x)
  OBVIOUS
<1>2. Carried(l, Accounts, x) = SumFunctionOnSet(l, T)
  BY DEF Carried
<1>3. Carried(l, Accounts \ {v}, x) = SumFunctionOnSet(l, U)
  <2>1. U = {u \in Accounts \ {v} : proxy[u] = x}
    OBVIOUS
  <2>. HIDE DEF U
  <2>. QED  BY <2>1 DEF Carried
<1>. HIDE DEF T
<1>4. /\ v \in T => SumFunctionOnSet(l, T) = SumFunctionOnSet(l, U) + l[v]
      /\ v \notin T => SumFunctionOnSet(l, T) = SumFunctionOnSet(l, U)
  BY <1>1, SumSplit
<1>. HIDE DEF U
<1>. QED  BY <1>1, <1>2, <1>3, <1>4

LEMMA VotedWithout ==
  ASSUME NEW v \in Accounts, NEW l \in [Accounts -> Nat], NEW c
  PROVE  /\ proxy[v] = NoProxy /\ c \in votes[v] =>
              VotedBy(l, Accounts, c) = VotedBy(l, Accounts \ {v}, c) + l[v]
         /\ ~ (proxy[v] = NoProxy /\ c \in votes[v]) =>
              VotedBy(l, Accounts, c) = VotedBy(l, Accounts \ {v}, c)
<1>. DEFINE T == VotersFor(Accounts, c)
            U == T \ {v}
<1>1. T \in SUBSET Accounts /\ (v \in T <=> proxy[v] = NoProxy /\ c \in votes[v])
  BY DEF VotersFor
<1>2. VotedBy(l, Accounts, c) = SumFunctionOnSet(l, T)
  BY DEF VotedBy
<1>3. VotedBy(l, Accounts \ {v}, c) = SumFunctionOnSet(l, U)
  <2>1. U = VotersFor(Accounts \ {v}, c)
    BY DEF VotersFor
  <2>. HIDE DEF U
  <2>. QED  BY <2>1 DEF VotedBy
<1>. HIDE DEF T
<1>4. /\ v \in T => SumFunctionOnSet(l, T) = SumFunctionOnSet(l, U) + l[v]
      /\ v \notin T => SumFunctionOnSet(l, T) = SumFunctionOnSet(l, U)
  BY <1>1, SumSplit
<1>. HIDE DEF U
<1>. QED  BY <1>1, <1>2, <1>3, <1>4

\* part is what there is besides the votes of D, by candidate.
LEMMA AllVotedSplit ==
  ASSUME NEW D \in SUBSET Accounts, NEW l \in [Accounts -> Nat], NEW whole, NEW part,
         \A c \in Candidates : part[c] \in Int /\ whole[c] = VotedBy(l, D, c) + part[c]
  PROVE  SumFunctionOnSet(whole, Candidates) = AllVoted(l, D) + SumFunctionOnSet(part, Candidates)
<1>. DEFINE f == [c \in Candidates |-> VotedBy(l, D, c)]
<1>1. \A c \in Candidates : VotedBy(l, D, c) \in Nat
  BY VotedType
<1>2. \A c \in Candidates :
        f[c] \in Int /\ part[c] \in Int /\ whole[c] \in Int /\ whole[c] = f[c] + part[c]
  BY <1>1
<1>3. AllVoted(l, D) = SumFunctionOnSet(f, Candidates)
  BY DEF AllVoted
<1>. HIDE DEF f
<1>. QED  BY <1>2, <1>3, VotersFinite, SumPlus

-----------------------------------------------------------------------------
(* The walks of update_votes, with the voter v taken out.                  *)

Gain(p, new) == [a \in Accounts |-> IF a = p THEN new ELSE 0]
Votes0(v) ==
  [c \in Candidates |-> vote_weights[c] - VotedBy(last_vote_weight, Accounts \ {v}, c)]
Total0(v) == total_interior_vote_weight - AllVoted(last_vote_weight, Accounts \ {v})

LEMMA OffsetsType ==
  ASSUME TypeOK, NEW v \in Accounts
  PROVE  Votes0(v) \in [Candidates -> Int] /\ Total0(v) \in Int
<1>1. last_vote_weight \in [Accounts -> Nat] /\ vote_weights \in [Candidates -> Int]
      /\ total_interior_vote_weight \in Int
  BY DEF TypeOK
<1>2. /\ \A c \in Candidates : VotedBy(last_vote_weight, Accounts \ {v}, c) \in Nat
      /\ AllVoted(last_vote_weight, Accounts \ {v}) \in Nat
  BY <1>1, VotedType, AllVotedType
<1>. QED  BY <1>1, <1>2 DEF Votes0, Total0

LEMMA WalkType ==
  ASSUME TypeOK
  PROVE  Walk \in Walks
BY DEF TypeOK, Walk, Walks

\* Before the walks: only what v's proxy carries of v is missing from the sums.
LEMMA StartExact ==
  ASSUME IInv, NEW v \in Accounts, NEW R, NEW at \in R \cup {NoProxy}, NEW proxied,
         \A a \in Accounts :
           proxied[a] = proxied_vote_weight[a] - (IF proxy[v] = a THEN last_vote_weight[v] ELSE 0)
  PROVE  Exact([Walk EXCEPT !.at = at, !.proxied = proxied],
               Accounts \ {v}, R, [a \in Accounts |-> 0], Votes0(v), Total0(v))
<1>. DEFINE D == Accounts \ {v}
            L == last_vote_weight
            w == [Walk EXCEPT !.at = at, !.proxied = proxied]
<1>1. w = [at |-> at, last |-> L, proxied |-> proxied, weights |-> vote_weights,
           total |-> total_interior_vote_weight, ok |-> TRUE]
  <2>1. w = [[at |-> NoProxy, last |-> L, proxied |-> proxied_vote_weight,
              weights |-> vote_weights, total |-> total_interior_vote_weight, ok |-> TRUE]
             EXCEPT !.at = at, !.proxied = proxied]
    BY DEF Walk
  <2>. HIDE DEF w
  <2>. QED  BY <2>1
<1>2. L \in [Accounts -> Nat] /\ Even(L)
  BY DEF IInv, NoProxyOfProxies, TypeOK
<1>3. \A a \in Accounts : Carried(L, D, a) \in Int /\ proxied[a] = Carried(L, D, a) + 0
  <2>. TAKE a \in Accounts
  <2>1. Carried(L, D, a) \in Nat
    BY <1>2, CarriedType
  <2>2. /\ proxy[v] = a => Carried(L, Accounts, a) = Carried(L, D, a) + L[v]
        /\ proxy[v] # a => Carried(L, Accounts, a) = Carried(L, D, a)
    BY <1>2, CarriedWithout
  <2>3. proxied_vote_weight[a] = Carried(L, Accounts, a)
    BY DEF IInv, ProxiedIsSum, Carried
  <2>4. L[v] \in Nat
    BY <1>2
  <2>. HIDE DEF L, D
  <2>5. proxied[a] = proxied_vote_weight[a] - (IF proxy[v] = a THEN L[v] ELSE 0)
    BY DEF L
  <2>. QED  BY <2>1, <2>2, <2>3, <2>4, <2>5
<1>4. /\ vote_weights \in [Candidates -> Int] /\ total_interior_vote_weight \in Int
      /\ \A c \in Candidates : VotedBy(L, D, c) \in Nat
      /\ AllVoted(L, D) \in Nat
  BY <1>2, VotedType, AllVotedType DEF IInv, NoProxyOfProxies, TypeOK
<1>5. \A c \in Candidates : vote_weights[c] = VotedBy(L, D, c) + Votes0(v)[c]
  <2>. TAKE c \in Candidates
  <2>1. Votes0(v)[c] = vote_weights[c] - VotedBy(L, D, c)
    BY DEF Votes0
  <2>2. VotedBy(L, D, c) \in Int /\ vote_weights[c] \in Int
    BY <1>4
  <2>. HIDE DEF L, D
  <2>. QED  BY <2>1, <2>2
<1>6. total_interior_vote_weight = AllVoted(L, D) + Total0(v)
  BY <1>4 DEF Total0
<1>7. \A c \in Candidates \ interiors : vote_weights[c] = 0
  BY DEF IInv, VotesStand
<1>. HIDE DEF w, D, L
<1>8. \A a \in Accounts \ R : L[a] = last_vote_weight[a]
  BY DEF L
<1>9. \A a \in Accounts : [b \in Accounts |-> 0][a] = 0
  OBVIOUS
<1>10. Exact(w, D, R, [a \in Accounts |-> 0], Votes0(v), Total0(v))
  BY <1>1, <1>2, <1>3, <1>5, <1>6, <1>7, <1>8, <1>9 DEF Exact
<1>. QED  BY <1>10 DEF w, D

LEMMA GainType ==
  ASSUME NEW p, NEW new \in Nat, new % 2 = 0
  PROVE  Gain(p, new) \in [Accounts -> Nat] /\ Even(Gain(p, new))
BY DEF Gain, Even

LEMMA MoveKeeps ==
  ASSUME IInv, NEW stake \in Stakes, NEW v \in Accounts,
         NEW p \in Accounts \cup {NoProxy}, NEW old, old = last_vote_weight[v],
         NEW new \in Nat, new % 2 = 0,
         NEW R \in SUBSET (Accounts \ {v}), Closed(R),
         p \in R \cup {NoProxy}, proxy[v] \in R \cup {NoProxy}
  PROVE  LET w == MoveProxied(v, p, old, new, stake)
         IN  /\ w \in Walks
             /\ w.ok => Exact(w, Accounts \ {v}, R, Gain(p, new), Votes0(v), Total0(v))
<1>. DEFINE D == Accounts \ {v}
            Zero == [a \in Accounts |-> 0]
            proxied1 == [proxied_vote_weight EXCEPT ![proxy[v]] = @ - old]
            start1 == [Walk EXCEPT !.at = proxy[v], !.proxied = proxied1]
            lost == IF old > 0 /\ proxy[v] # NoProxy THEN Propagate(start1, stake, is_proxy)
                                                     ELSE Walk
            start2 == [lost EXCEPT !.at = p, !.proxied[p] = @ + new]
            w == MoveProxied(v, p, old, new, stake)
<1>1. TypeOK
  BY DEF IInv, NoProxyOfProxies
<1>2. /\ old \in Nat /\ proxied_vote_weight \in [Accounts -> Nat]
      /\ proxy[v] \in Accounts \cup {NoProxy} /\ NoProxy \notin Accounts
  BY <1>1, VotersAssumption DEF TypeOK
<1>3. WalkOver(D, R, Zero, Votes0(v), Total0(v))
  <2>1. Zero \in [Accounts -> Nat] /\ Even(Zero)
    BY DEF Even
  <2>. HIDE DEF Zero
  <2>. QED  BY <1>1, <2>1, OffsetsType DEF WalkOver
<1>4. w = IF p # NoProxy THEN Propagate(start2, stake, is_proxy) ELSE lost
  <2>. DEFINE start == [Walk EXCEPT !.at = proxy[v], !.proxied[proxy[v]] = @ - old]
              lost0 == IF old > 0 /\ proxy[v] # NoProxy THEN Propagate(start, stake, is_proxy)
                                                        ELSE Walk
  <2>1. start = start1
    BY DEF Walk
  <2>2. w = IF p # NoProxy
              THEN Propagate([lost0 EXCEPT !.at = p, !.proxied[p] = @ + new], stake, is_proxy)
              ELSE lost0
    BY DEF MoveProxied
  <2>. HIDE DEF start, start1, w
  <2>. QED  BY <2>1, <2>2
<1>. HIDE DEF w, Zero
<1>5. lost \in Walks /\ (lost.ok => Exact(lost, D, R, Zero, Votes0(v), Total0(v)))
  <2>1. CASE old > 0 /\ proxy[v] # NoProxy
    <3>1. start1 \in Walks
      <4>1. proxied1 \in [Accounts -> Int]
        BY <1>2, <2>1
      <4>. HIDE DEF proxied1
      <4>. QED  BY <1>1, <1>2, <4>1, WalkType DEF Walks
    <3>2. \A a \in Accounts :
            proxied1[a] = proxied_vote_weight[a]
                            - (IF proxy[v] = a THEN last_vote_weight[v] ELSE 0)
      BY <1>2
    <3>3. Exact(start1, D, R, Zero, Votes0(v), Total0(v))
      <4>. HIDE DEF proxied1
      <4>. QED  BY <3>2, StartExact DEF Zero
    <3>4. lost = Propagate(start1, stake, is_proxy)
      BY <2>1
    <3>. HIDE DEF lost, start1
    <3>. QED  BY <1>1, <1>3, <3>1, <3>3, <3>4, PropagateKeeps
  <2>2. CASE ~ (old > 0 /\ proxy[v] # NoProxy)
    <3>1. lost = Walk
      BY <2>2
    <3>2. \A a \in Accounts :
            proxied_vote_weight[a] = proxied_vote_weight[a]
                                       - (IF proxy[v] = a THEN last_vote_weight[v] ELSE 0)
      BY <1>2, <2>2
    <3>3. Exact([Walk EXCEPT !.at = NoProxy, !.proxied = proxied_vote_weight],
                D, R, Zero, Votes0(v), Total0(v))
      BY <3>2, StartExact DEF Zero
    <3>4. [Walk EXCEPT !.at = NoProxy, !.proxied = proxied_vote_weight] = Walk
      <4>. DEFINE x == [Walk EXCEPT !.at = NoProxy, !.proxied = proxied_vote_weight]
      <4>1. x = [[at |-> NoProxy, last |-> last_vote_weight, proxied |-> proxied_vote_weight,
                  weights |-> vote_weights, total |-> total_interior_vote_weight, ok |-> TRUE]
                 EXCEPT !.at = NoProxy, !.proxied = proxied_vote_weight]
        BY DEF Walk
      <4>. HIDE DEF x
      <4>2. x = Walk
        BY <4>1 DEF Walk
      <4>. QED  BY <4>2 DEF x
    <3>. HIDE DEF lost
    <3>. QED  BY <1>1, <3>1, <3>3, <3>4, WalkType
  <2>. QED  BY <2>1, <2>2
<1>. HIDE DEF lost
<1>6. CASE p = NoProxy
  <2>1. Gain(p, new) = Zero
    BY <1>2, <1>6 DEF Gain, Zero
  <2>. QED  BY <1>4, <1>5, <1>6, <2>1 DEF w
<1>7. CASE p # NoProxy
  <2>. DEFINE proxied2 == [lost.proxied EXCEPT ![p] = @ + new]
  <2>1. p \in Accounts /\ lost.proxied \in [Accounts -> Int]
    BY <1>5, <1>7 DEF Walks
  <2>2. /\ proxied2 \in [Accounts -> Int]
        /\ \A a \in Accounts : proxied2[a] = lost.proxied[a] + (IF a = p THEN new ELSE 0)
    BY <2>1
  <2>3. start2 = [at |-> p, last |-> lost.last, proxied |-> proxied2, weights |-> lost.weights,
                  total |-> lost.total, ok |-> lost.ok]
    <3>1. start2 = [lost EXCEPT !.at = p, !.proxied = proxied2]
      BY <1>5 DEF Walks
    <3>. HIDE DEF start2, proxied2
    <3>. QED  BY <1>5, <3>1 DEF Walks
  <2>. HIDE DEF start2, proxied2
  <2>4. start2 \in Walks
    BY <1>5, <2>1, <2>2, <2>3 DEF Walks
  <2>5. start2.ok => Exact(start2, D, R, Gain(p, new), Votes0(v), Total0(v))
    <3>. SUFFICES ASSUME start2.ok PROVE Exact(start2, D, R, Gain(p, new), Votes0(v), Total0(v))
      OBVIOUS
    <3>1. start2.ok = lost.ok
      BY <2>3
    <3>2. Exact(lost, D, R, Zero, Votes0(v), Total0(v))
      BY <1>5, <3>1
    <3>3. \A a \in Accounts : proxied2[a] = Carried(lost.last, D, a) + Gain(p, new)[a]
      <4>. TAKE a \in Accounts
      <4>1. lost.proxied[a] = Carried(lost.last, D, a) + 0
        BY <3>2 DEF Exact, Zero
      <4>2. Carried(lost.last, D, a) \in Nat
        BY <3>2, CarriedType DEF Exact
      <4>3. Gain(p, new)[a] = IF a = p THEN new ELSE 0
        BY DEF Gain
      <4>. QED  BY <2>2, <4>1, <4>2, <4>3
    <3>. QED  BY <1>7, <2>3, <3>2, <3>3 DEF Exact
  <2>6. WalkOver(D, R, Gain(p, new), Votes0(v), Total0(v))
    BY <1>3, GainType DEF WalkOver
  <2>. QED  BY <1>1, <1>4, <1>7, <2>4, <2>5, <2>6, PropagateKeeps DEF w
<1>. QED  BY <1>6, <1>7

-----------------------------------------------------------------------------
(* update_votes.  Its new vote is for interiors, or it is for a proxy that *)
(* v has already or that has no proxy itself.                              *)

MayLink(v, p) == p \in {NoProxy, proxy[v]} \/ (p # v /\ proxy[p] = NoProxy)

Undone(v) == IF last_vote_weight[v] > 0 /\ proxy[v] = NoProxy THEN votes[v] ELSE {}

\* What update_votes writes of the weights, from a walk w and a new weight.
Casts(v, p, list, w, new) ==
  LET delta == Deltas(Undone(v), list, last_vote_weight[v], new)
      counted == (Undone(v) \cup list) \cap interiors
  IN  /\ proxied_vote_weight' = w.proxied
      /\ vote_weights' = [c \in Candidates |->
                            IF c \notin counted THEN w.weights[c]
                            ELSE IF w.weights[c] + delta[c] < 0 THEN 0
                            ELSE w.weights[c] + delta[c]]
      /\ total_interior_vote_weight' = w.total + SumFunctionOnSet(delta, counted)
      /\ last_vote_weight' = [w.last EXCEPT ![v] = new]
      /\ votes' = [votes EXCEPT ![v] = list]
      /\ proxy' = [proxy EXCEPT ![v] = p]

\* What the walk, the new weight and the list of a vote have to be.
Cast(v, p, list, R, w, new) ==
  /\ R \in SUBSET (Accounts \ {v}) /\ Closed(R) /\ p \in R \cup {NoProxy}
  /\ new \in Nat /\ new % 2 = 0
  /\ w \in Walks /\ Exact(w, Accounts \ {v}, R, Gain(p, new), Votes0(v), Total0(v))
  /\ list \subseteq interiors
  /\ p # NoProxy => list = {} /\ v \notin is_proxy /\ p \in voters

LEMMA Reach ==
  ASSUME Acyclic, NEW v \in Accounts, NEW p \in Accounts \cup {NoProxy}, MayLink(v, p),
         proxy \in [Accounts -> Accounts \cup {NoProxy}]
  PROVE  \E R \in SUBSET (Accounts \ {v}) :
           Closed(R) /\ p \in R \cup {NoProxy} /\ proxy[v] \in R \cup {NoProxy}
<1>1. PICK R \in SUBSET Accounts :
        Closed(R) /\ v \notin R /\ (proxy[v] # NoProxy => proxy[v] \in R)
  BY DEF Acyclic
<1>2. CASE p \in {NoProxy, proxy[v]}
  BY <1>1, <1>2
<1>3. CASE p \notin {NoProxy, proxy[v]}
  <2>1. p \in Accounts /\ p # v /\ proxy[p] = NoProxy
    BY <1>3 DEF MayLink
  <2>2. Closed(R \cup {p})
    BY <1>1, <2>1 DEF Closed
  <2>. QED  BY <1>1, <2>1, <2>2
<1>. QED  BY <1>2, <1>3

LEMMA LinkKeepsAcyclic ==
  ASSUME Acyclic, NEW v \in Accounts, NEW p \in Accounts \cup {NoProxy}, MayLink(v, p),
         proxy \in [Accounts -> Accounts \cup {NoProxy}],
         proxy' = [proxy EXCEPT ![v] = p]
  PROVE  Acyclic'
<1>1. proxy'[v] = p /\ \A b \in Accounts \ {v} : proxy'[b] = proxy[b]
  OBVIOUS
<1>2. ASSUME NEW a \in Accounts
      PROVE  \E R \in SUBSET Accounts :
               /\ \A b \in R : proxy'[b] # NoProxy => proxy'[b] \in R
               /\ a \notin R /\ (proxy'[a] # NoProxy => proxy'[a] \in R)
  <2>1. CASE a = v
    <3>1. PICK R \in SUBSET (Accounts \ {v}) : Closed(R) /\ p \in R \cup {NoProxy}
      BY Reach
    <3>. QED  BY <1>1, <2>1, <3>1 DEF Closed
  <2>2. CASE a # v
    <3>1. PICK R \in SUBSET Accounts :
            Closed(R) /\ a \notin R /\ (proxy[a] # NoProxy => proxy[a] \in R)
      BY DEF Acyclic
    <3>2. CASE v \notin R \/ p \in {NoProxy, proxy[v]}
      BY <1>1, <2>2, <3>1, <3>2 DEF Closed
    <3>3. CASE p \notin {NoProxy, proxy[v]}
      <4>1. p \in Accounts /\ p # v /\ proxy'[p] = NoProxy
        BY <1>1, <3>3 DEF MayLink
      <4>2. CASE a = p
        <5>1. \A b \in {} : proxy'[b] # NoProxy => proxy'[b] \in {}
          OBVIOUS
        <5>2. a \notin {} /\ proxy'[a] = NoProxy /\ {} \in SUBSET Accounts
          BY <4>1, <4>2
        <5>. QED  BY <5>1, <5>2
      <4>3. CASE a # p
        <5>. DEFINE Q == R \cup {p}
        <5>1. Q \in SUBSET Accounts /\ a \notin Q /\ (proxy'[a] # NoProxy => proxy'[a] \in Q)
          BY <1>1, <2>2, <3>1, <4>1, <4>3
        <5>2. \A b \in Q : proxy'[b] # NoProxy => proxy'[b] \in Q
          BY <1>1, <3>1, <4>1 DEF Closed
        <5>. QED  BY <5>1, <5>2
      <4>. QED  BY <4>2, <4>3
    <3>. QED  BY <3>2, <3>3
  <2>. QED  BY <2>1, <2>2
<1>. QED  BY <1>2 DEF Acyclic, Closed

LEMMA UpdateVotesCasts ==
  ASSUME IInv, NEW v \in Accounts, NEW p \in Accounts \cup {NoProxy},
         NEW list \in SUBSET Candidates, NEW voting \in BOOLEAN, NEW stake \in Stakes,
         voting \/ p = proxy[v], UpdateVotes(v, p, list, voting, stake)
  PROVE  /\ MayLink(v, p)
         /\ \E R, w, new : Cast(v, p, list, R, w, new) /\ Casts(v, p, list, w, new)
<1>. DEFINE old == last_vote_weight[v]
            new == NewWeight(v, stake, is_proxy, proxied_vote_weight)
            w == MoveProxied(v, p, old, new, stake)
<1>1. TypeOK /\ Even(last_vote_weight) /\ Acyclic
  BY DEF IInv, NoProxyOfProxies
<1>2. /\ p # NoProxy => list = {} /\ MayProxy(v, p, voting)
      /\ MayVote(Undone(v), list, voting)
      /\ w.ok
      /\ Casts(v, p, list, w, new)
  BY DEF UpdateVotes, Undone, Casts
<1>3. MayLink(v, p)
  BY <1>2 DEF MayLink, MayProxy, IInv, NoProxyOfProxies
<1>4. PICK R \in SUBSET (Accounts \ {v}) :
        Closed(R) /\ p \in R \cup {NoProxy} /\ proxy[v] \in R \cup {NoProxy}
  BY <1>1, <1>3, Reach DEF TypeOK
<1>5. new \in Nat /\ new % 2 = 0
  <2>1. proxied_vote_weight[v] = Carried(last_vote_weight, Accounts, v)
    BY DEF IInv, ProxiedIsSum, Carried
  <2>2. /\ last_vote_weight \in [Accounts -> Nat]
        /\ proxied_vote_weight \in [Accounts -> Int]
        /\ proxied_vote_weight[v] \in Nat
    BY <1>1 DEF TypeOK
  <2>3. proxied_vote_weight[v] % 2 = 0
    BY <1>1, <2>1, <2>2, CarriedType
  <2>. QED  BY <1>1, <2>2, <2>3, WeightIsEven
<1>6. list \subseteq interiors
  BY <1>2 DEF MayVote
<1>7. p # NoProxy => v \notin is_proxy /\ p \in voters
  BY <1>2 DEF MayProxy
<1>8. w \in Walks /\ Exact(w, Accounts \ {v}, R, Gain(p, new), Votes0(v), Total0(v))
  <2>. HIDE DEF new
  <2>. QED  BY <1>2, <1>4, <1>5, MoveKeeps
<1>. HIDE DEF w, new
<1>9. Cast(v, p, list, R, w, new)
  BY <1>2, <1>4, <1>5, <1>6, <1>7, <1>8 DEF Cast
<1>. QED  BY <1>2, <1>3, <1>9

\* What update_votes leaves: the tallies are those of the new votes.
LEMMA CastKeeps ==
  ASSUME IInv, NEW v \in Accounts, NEW p \in Accounts \cup {NoProxy},
         NEW list \in SUBSET Candidates, NEW R, NEW w, NEW new,
         Cast(v, p, list, R, w, new), Casts(v, p, list, w, new),
         interiors' = interiors, erased' = erased
  PROVE  /\ last_vote_weight' \in [Accounts -> Nat] /\ Even(last_vote_weight)'
         /\ proxied_vote_weight' \in [Accounts -> Nat] /\ ProxiedIsSum'
         /\ vote_weights' \in [Candidates -> Int] /\ WeightIsVoted' /\ VotesStand'
         /\ total_interior_vote_weight' \in Nat /\ TotalCoversVotes'
<1>. DEFINE L == last_vote_weight
            l == w.last
            l2 == last_vote_weight'
            D == Accounts \ {v}
            delta == Deltas(Undone(v), list, L[v], new)
            counted == (Undone(v) \cup list) \cap interiors
<1>1. TypeOK /\ VotesStand /\ WeightIsVoted /\ TotalCoversVotes
  BY DEF IInv, NoProxyOfProxies
<1>2. L \in [Accounts -> Nat] /\ l \in [Accounts -> Nat] /\ Even(l)
      /\ new \in Nat /\ new % 2 = 0
  BY <1>1 DEF Cast, Exact, TypeOK
<1>3. l2 = [l EXCEPT ![v] = new]
  BY DEF Casts
<1>4. /\ l2 \in [Accounts -> Nat] /\ l2[v] = new
      /\ \A u \in Accounts \ {v} : l2[u] = l[u]
  <2>. HIDE DEF l2, l
  <2>. QED  BY <1>2, <1>3
<1>5. Even(last_vote_weight)'
  <2>1. \A a \in Accounts : l2[a] % 2 = 0
    <3>. HIDE DEF l2, l
    <3>. QED  BY <1>2, <1>4 DEF Even
  <2>. QED  BY <2>1 DEF Even
<1>6. /\ proxy'[v] = p /\ \A u \in D : proxy'[u] = proxy[u]
      /\ votes'[v] = list /\ \A u \in D : votes'[u] = votes[u]
  BY <1>1 DEF Casts, TypeOK
<1>7. p # NoProxy => list = {}
  BY DEF Cast
<1>8. ASSUME NEW x \in Accounts
      PROVE  /\ proxied_vote_weight'[x]
                  = SumFunctionOnSet(l2, {a \in Accounts : proxy'[a] = x})
             /\ proxied_vote_weight'[x] \in Nat
  <2>. DEFINE T == {a \in Accounts : proxy'[a] = x}
              U == T \ {v}
  <2>1. T \in SUBSET Accounts /\ U \in SUBSET Accounts /\ (v \in T <=> p = x)
    BY <1>6
  <2>2. Carried(l, D, x) = SumFunctionOnSet(l, U)
    <3>1. U = {u \in D : proxy[u] = x}
      BY <1>6
    <3>. HIDE DEF U
    <3>. QED  BY <3>1 DEF Carried
  <2>3. /\ w.proxied[x] = Carried(l, D, x) + Gain(p, new)[x]
        /\ proxied_vote_weight' = w.proxied
    BY DEF Cast, Casts, Exact
  <2>4. Gain(p, new)[x] = IF x = p THEN new ELSE 0
    BY DEF Gain
  <2>. HIDE DEF T, l2, l, D
  <2>5. /\ v \in T => SumFunctionOnSet(l2, T) = SumFunctionOnSet(l, U) + l2[v]
        /\ v \notin T => SumFunctionOnSet(l2, T) = SumFunctionOnSet(l, U)
    <3>1. l \in [Accounts -> Nat] /\ l2 \in [Accounts -> Nat]
          /\ T \in SUBSET Accounts /\ \A u \in Accounts \ {v} : l2[u] = l[u]
      BY <1>2, <1>4, <2>1
    <3>. QED  BY <3>1, SumSplit
  <2>. HIDE DEF U
  <2>6. SumFunctionOnSet(l2, T) \in Nat /\ SumFunctionOnSet(l, U) \in Nat
    BY <1>2, <1>4, <2>1, VotersFinite, SumNatural
  <2>7. proxied_vote_weight'[x] = SumFunctionOnSet(l2, T)
    BY <1>2, <1>4, <2>1, <2>2, <2>3, <2>4, <2>5, <2>6
  <2>. QED  BY <2>6, <2>7 DEF T, l2
<1>9. proxied_vote_weight' \in [Accounts -> Nat] /\ ProxiedIsSum'
  <2>1. proxied_vote_weight' = w.proxied /\ w.proxied \in [Accounts -> Int]
    BY DEF Cast, Casts, Walks
  <2>. QED  BY <1>8, <2>1 DEF ProxiedIsSum
\* Each candidate's part of the vote: with the old vote taken back and the new
\* one cast it differs from what is voted as much as before.
<1>. DEFINE Mine(c) == IF c \in Undone(v) THEN L[v] ELSE 0
            Gained(c) == IF c \in list THEN new ELSE 0
            Rest(c) == VotedBy(L, D, c)
            Moved(c) == VotedBy(l, D, c)
            V(c) == Voted(c)
            V2(c) == Voted(c)'
<1>10. ASSUME NEW c \in Candidates
       PROVE  /\ Mine(c) \in Nat /\ Gained(c) \in Nat /\ Rest(c) \in Nat /\ Moved(c) \in Nat
              /\ V(c) = Rest(c) + Mine(c) /\ V2(c) = Moved(c) + Gained(c)
              /\ w.weights[c] = Moved(c) + (vote_weights[c] - Rest(c))
              /\ delta[c] = Gained(c) - Mine(c)
  <2>1. Mine(c) \in Nat /\ Gained(c) \in Nat
    BY <1>2
  <2>2. Rest(c) \in Nat /\ Moved(c) \in Nat
    BY <1>2, VotedType
  <2>3. V(c) = Rest(c) + Mine(c)
    <3>1. V(c) = VotedBy(L, Accounts, c)
      BY DEF Voted, VotedBy, VotersFor
    <3>2. /\ proxy[v] = NoProxy /\ c \in votes[v] => VotedBy(L, Accounts, c) = Rest(c) + L[v]
          /\ ~ (proxy[v] = NoProxy /\ c \in votes[v]) => VotedBy(L, Accounts, c) = Rest(c)
      <4>1. L \in [Accounts -> Nat]
        BY <1>2
      <4>. HIDE DEF L
      <4>. QED  BY <4>1, VotedWithout
    <3>3. /\ proxy[v] = NoProxy /\ c \in votes[v] => Mine(c) = L[v]
          /\ ~ (proxy[v] = NoProxy /\ c \in votes[v]) => Mine(c) = 0
      <4>1. L[v] \in Nat
        BY <1>2
      <4>. QED  BY <4>1 DEF Undone
    <3>. HIDE DEF Rest, Mine, V, L
    <3>. QED  BY <2>2, <3>1, <3>2, <3>3
  <2>4. V2(c) = Moved(c) + Gained(c)
    <3>. DEFINE T == {a \in Accounts : proxy'[a] = NoProxy /\ c \in votes'[a]}
                U == T \ {v}
    <3>1. T \in SUBSET Accounts /\ (v \in T <=> c \in list)
      BY <1>6, <1>7
    <3>2. V2(c) = SumFunctionOnSet(l2, T)
      BY DEF Voted
    <3>3. Moved(c) = SumFunctionOnSet(l, U)
      <4>1. U = VotersFor(D, c)
        BY <1>6 DEF VotersFor
      <4>. HIDE DEF U
      <4>. QED  BY <4>1 DEF VotedBy
    <3>4. Gained(c) = IF v \in T THEN l2[v] ELSE 0
      BY <1>4, <3>1
    <3>5. l \in [Accounts -> Nat] /\ l2 \in [Accounts -> Nat]
          /\ \A u \in Accounts \ {v} : l2[u] = l[u]
      BY <1>2, <1>4
    <3>. HIDE DEF T, l2, l
    <3>6. /\ v \in T => SumFunctionOnSet(l2, T) = SumFunctionOnSet(l, U) + l2[v]
          /\ v \notin T => SumFunctionOnSet(l2, T) = SumFunctionOnSet(l, U)
      BY <3>1, <3>5, SumSplit
    <3>. HIDE DEF U, Gained, Moved, V2
    <3>. QED  BY <2>2, <3>2, <3>3, <3>4, <3>6
  <2>5. w.weights[c] = Moved(c) + (vote_weights[c] - Rest(c))
    BY DEF Cast, Exact, Votes0
  <2>6. delta[c] = Gained(c) - Mine(c)
    BY DEF Deltas
  <2>. HIDE DEF Mine, Gained, Rest, Moved, V, V2, delta
  <2>. QED  BY <2>1, <2>2, <2>3, <2>4, <2>5, <2>6
<1>11. \A c \in Candidates : vote_weights[c] \in Int
  BY <1>1 DEF TypeOK
<1>12. \A c \in Candidates :
         /\ w.weights[c] \in Int /\ delta[c] \in Int /\ V(c) \in Nat /\ V2(c) \in Nat
         /\ w.weights[c] + delta[c] = V2(c) + (vote_weights[c] - V(c))
         /\ c \notin Undone(v) \cup list => delta[c] = 0
         /\ c \notin list => delta[c] <= 0
  <2>. TAKE c \in Candidates
  <2>1. /\ c \notin Undone(v) => Mine(c) = 0
        /\ c \notin list => Gained(c) = 0
    OBVIOUS
  <2>. HIDE DEF Mine, Gained, Rest, Moved, V, V2, delta
  <2>. QED  BY <1>10, <1>11, <2>1
<1>13. /\ vote_weights' = [c \in Candidates |-> vote_weights'[c]]
       /\ \A c \in Candidates :
            vote_weights'[c] = IF c \notin counted THEN w.weights[c]
                               ELSE IF w.weights[c] + delta[c] < 0 THEN 0
                               ELSE w.weights[c] + delta[c]
  BY DEF Casts
<1>14. vote_weights' \in [Candidates -> Int]
  <2>. HIDE DEF delta, counted, V, V2
  <2>1. \A c \in Candidates : vote_weights'[c] \in Int
    BY <1>12, <1>13
  <2>. QED  BY <1>13, <2>1
<1>15. WeightIsVoted'
  <2>1. ASSUME NEW c \in interiors
        PROVE  vote_weights'[c] <= V2(c) /\ (c \notin erased => vote_weights'[c] = V2(c))
    <3>1. c \in Candidates
      BY <1>1 DEF VotesStand
    <3>2. vote_weights[c] <= V(c) /\ (c \notin erased => vote_weights[c] = V(c))
      BY <1>1 DEF WeightIsVoted
    <3>3. c \notin counted => c \notin Undone(v) \cup list
      OBVIOUS
    <3>. HIDE DEF delta, counted, V, V2
    <3>4. vote_weights[c] \in Int
      BY <1>11, <3>1
    <3>5. /\ w.weights[c] \in Int /\ delta[c] \in Int /\ V(c) \in Nat /\ V2(c) \in Nat
          /\ w.weights[c] + delta[c] = V2(c) + (vote_weights[c] - V(c))
          /\ c \notin counted => delta[c] = 0
      BY <1>12, <3>1, <3>3
    <3>6. vote_weights'[c] = IF c \notin counted THEN w.weights[c]
                             ELSE IF w.weights[c] + delta[c] < 0 THEN 0
                             ELSE w.weights[c] + delta[c]
      BY <1>13, <3>1
    <3>. QED  BY <3>2, <3>4, <3>5, <3>6
  <2>. QED  BY <2>1 DEF WeightIsVoted
<1>16. VotesStand'
  <2>1. \A a \in Accounts : votes'[a] \subseteq interiors \cup erased
    <3>1. list \subseteq interiors
      BY DEF Cast
    <3>. QED  BY <1>1, <1>6, <3>1 DEF VotesStand
  <2>2. \A c \in Candidates \ interiors : vote_weights'[c] = 0
    <3>1. \A c \in Candidates \ interiors : w.weights[c] = 0 /\ c \notin counted
      BY DEF Cast, Exact
    <3>. HIDE DEF delta, counted
    <3>. QED  BY <1>13, <3>1
  <2>. QED  BY <1>1, <2>1, <2>2 DEF VotesStand
<1>17. total_interior_vote_weight' \in Nat /\ TotalCoversVotes'
  <2>. DEFINE all == [c \in Candidates |-> V(c)]
              all2 == [c \in Candidates |-> V2(c)]
              mine == [c \in Candidates |-> Mine(c)]
              gained == [c \in Candidates |-> Gained(c)]
              cast == [c \in Candidates |-> IF c \in counted THEN delta[c] ELSE 0]
              total == total_interior_vote_weight
              total2 == total_interior_vote_weight'
  <2>1. SumFunctionOnSet(all, Candidates) = AllVoted(L, D) + SumFunctionOnSet(mine, Candidates)
    <3>1. L \in [Accounts -> Nat]
      BY <1>2
    <3>2. ASSUME NEW c \in Candidates
          PROVE  mine[c] \in Int /\ all[c] = VotedBy(L, D, c) + mine[c]
      <4>1. mine[c] = Mine(c) /\ all[c] = V(c) /\ VotedBy(L, D, c) = Rest(c)
        OBVIOUS
      <4>2. Mine(c) \in Nat /\ Rest(c) \in Nat /\ V(c) = Rest(c) + Mine(c)
        BY <1>10
      <4>. HIDE DEF Mine, Gained, Rest, Moved, V, V2, all, mine
      <4>. QED  BY <4>1, <4>2
    <3>3. D \in SUBSET Accounts
      OBVIOUS
    <3>. HIDE DEF all, mine, L, D
    <3>. QED  BY <3>1, <3>2, <3>3, AllVotedSplit
  <2>2. SumFunctionOnSet(all2, Candidates) = AllVoted(l, D) + SumFunctionOnSet(gained, Candidates)
    <3>1. l \in [Accounts -> Nat]
      BY <1>2
    <3>2. ASSUME NEW c \in Candidates
          PROVE  gained[c] \in Int /\ all2[c] = VotedBy(l, D, c) + gained[c]
      <4>1. gained[c] = Gained(c) /\ all2[c] = V2(c) /\ VotedBy(l, D, c) = Moved(c)
        OBVIOUS
      <4>2. Gained(c) \in Nat /\ Moved(c) \in Nat /\ V2(c) = Moved(c) + Gained(c)
        BY <1>10
      <4>. HIDE DEF Mine, Gained, Rest, Moved, V, V2, all2, gained
      <4>. QED  BY <4>1, <4>2
    <3>3. D \in SUBSET Accounts
      OBVIOUS
    <3>. HIDE DEF all2, gained, l, D
    <3>. QED  BY <3>1, <3>2, <3>3, AllVotedSplit
  <2>3. AllVoted(last_vote_weight, Accounts)' = SumFunctionOnSet(all2, Candidates)
    BY DEF AllVoted, VotedBy, VotersFor, Voted
  <2>4. AllVoted(L, Accounts) = SumFunctionOnSet(all, Candidates)
    BY DEF AllVoted, VotedBy, VotersFor, Voted
  <2>5. SumFunctionOnSet(gained, Candidates)
          = SumFunctionOnSet(mine, Candidates) + SumFunctionOnSet(delta, Candidates)
    <3>1. \A c \in Candidates :
            /\ mine[c] \in Int /\ delta[c] \in Int /\ gained[c] = mine[c] + delta[c]
      <4>1. \A c \in Candidates : mine[c] = Mine(c) /\ gained[c] = Gained(c)
        OBVIOUS
      <4>. HIDE DEF Mine, Gained, Rest, Moved, V, V2, delta, mine, gained
      <4>. QED  BY <1>10, <4>1
    <3>. HIDE DEF mine, gained, delta
    <3>. QED  BY <3>1, VotersFinite, SumPlus
  <2>6. SumFunctionOnSet(cast, Candidates) = SumFunctionOnSet(delta, counted)
    <3>1. counted \in SUBSET Candidates
      BY <1>1 DEF VotesStand
    <3>2. \A c \in counted : delta[c] \in Int /\ cast[c] = delta[c]
      <4>. HIDE DEF counted, delta
      <4>. QED  BY <1>12, <3>1
    <3>3. \A c \in Candidates \ counted : cast[c] = 0
      OBVIOUS
    <3>. HIDE DEF counted, delta, cast
    <3>. QED  BY <3>1, <3>2, <3>3, VotersFinite, SumRestrict
  <2>7. SumFunctionOnSet(delta, Candidates) <= SumFunctionOnSet(cast, Candidates)
    <3>1. \A c \in Candidates : c \notin counted => c \notin list
      BY DEF Cast
    <3>2. \A c \in Candidates : delta[c] \in Int /\ cast[c] \in Int /\ delta[c] <= cast[c]
      <4>. HIDE DEF counted, delta, V, V2
      <4>. QED  BY <1>12, <3>1
    <3>. HIDE DEF counted, delta, cast
    <3>. QED  BY <3>2, VotersFinite, SumMonotone
  <2>8. /\ SumFunctionOnSet(delta, Candidates) \in Int
        /\ SumFunctionOnSet(cast, Candidates) \in Int
        /\ SumFunctionOnSet(mine, Candidates) \in Int
    <3>1. \A c \in Candidates : delta[c] \in Int /\ cast[c] \in Int /\ mine[c] \in Int
      <4>1. \A c \in Candidates : mine[c] = Mine(c)
        OBVIOUS
      <4>. HIDE DEF Mine, Gained, Rest, Moved, V, V2, delta, mine, counted
      <4>. QED  BY <1>10, <1>12, <4>1
    <3>. HIDE DEF delta, cast, mine
    <3>. QED  BY <3>1, VotersFinite, SumType
  <2>9. AllVoted(L, D) \in Nat /\ AllVoted(l, D) \in Nat
    BY <1>2, AllVotedType
  <2>10. total \in Int /\ AllVoted(L, Accounts) <= total
    BY <1>1 DEF TotalCoversVotes, TypeOK
  <2>11. /\ w.total = AllVoted(l, D) + (total - AllVoted(L, D))
         /\ total2 = w.total + SumFunctionOnSet(delta, counted)
    BY DEF Cast, Casts, Exact, Total0
  <2>12. SumFunctionOnSet(all2, Candidates) \in Nat
    <3>1. \A c \in Candidates : all2[c] \in Nat
      <4>. HIDE DEF V, V2, delta
      <4>. QED  BY <1>12
    <3>. HIDE DEF all2
    <3>. QED  BY <3>1, VotersFinite, SumNatural
  <2>. HIDE DEF total, total2, L, l, D, delta, counted, all, all2, mine, gained, cast
  <2>13. SumFunctionOnSet(all2, Candidates) <= total2 /\ total2 \in Nat
    BY <2>1, <2>2, <2>4, <2>5, <2>6, <2>7, <2>8, <2>9, <2>10, <2>11, <2>12
  <2>. QED  BY <2>3, <2>13 DEF TotalCoversVotes, total2
<1>. HIDE DEF l2, L, l, D, delta, counted, Mine, Gained, Rest, Moved, V, V2
<1>. QED  BY <1>4, <1>5, <1>9, <1>14, <1>15, <1>16, <1>17 DEF l2

LEMMA CountKeeps ==
  ASSUME TypeOK, VoteAmountIsSum, NEW v \in Accounts, NEW amount \in 0 .. MaxStake,
         CountAmount(v, amount)
  PROVE  /\ last_vote' \in [Accounts -> 0 .. MaxStake] /\ total_vote_amount' \in Nat
         /\ VoteAmountIsSum'
<1>. DEFINE f == last_vote
            f2 == last_vote'
<1>1. /\ f \in [Accounts -> 0 .. MaxStake] /\ f2 = [f EXCEPT ![v] = amount]
      /\ total_vote_amount' = total_vote_amount - f[v] + amount
      /\ total_vote_amount = SumFunctionOnSet(f, Accounts)
  BY DEF TypeOK, VoteAmountIsSum, CountAmount
<1>. HIDE DEF f, f2
<1>2. f2 \in [Accounts -> 0 .. MaxStake] /\ f2[v] = amount
  BY <1>1
<1>3. \A a \in Accounts : f[a] \in Int /\ f2[a] \in Int /\ f2[a] \in Nat
  BY <1>1, <1>2, FactorAssumption
<1>4. \A a \in Accounts \ {v} : f2[a] = f[a]
  BY <1>1
<1>5. SumFunctionOnSet(f2, Accounts) = SumFunctionOnSet(f, Accounts) - f[v] + f2[v]
  BY <1>3, <1>4, VotersFinite, SumUpdate
<1>6. SumFunctionOnSet(f2, Accounts) \in Nat
  BY <1>3, VotersFinite, SumNatural
<1>7. total_vote_amount' = SumFunctionOnSet(f2, Accounts)
  BY <1>1, <1>2, <1>5
<1>. QED  BY <1>2, <1>6, <1>7 DEF VoteAmountIsSum, f2

LEMMA UpdateVotesKeeps ==
  ASSUME IInv, NEW v \in Accounts, NEW p \in Accounts \cup {NoProxy},
         NEW list \in SUBSET Candidates, NEW voting \in BOOLEAN, NEW stake \in Stakes,
         voting \/ p = proxy[v], UpdateVotes(v, p, list, voting, stake),
         UNCHANGED <<registry, week, is_proxy, erased>>,
         staked' \in Stakes, voters \subseteq voters', voters' \subseteq Accounts
  PROVE  IInv'
<1>1. TypeOK /\ Acyclic /\ VoteAmountIsSum
  BY DEF IInv, NoProxyOfProxies
<1>2. PICK R, w, new : Cast(v, p, list, R, w, new) /\ Casts(v, p, list, w, new)
  BY UpdateVotesCasts
<1>3. MayLink(v, p)
  BY UpdateVotesCasts
<1>4. interiors' = interiors /\ erased' = erased /\ is_proxy' = is_proxy /\ week' = week
  BY DEF registry
<1>5. /\ last_vote_weight' \in [Accounts -> Nat] /\ Even(last_vote_weight)'
      /\ proxied_vote_weight' \in [Accounts -> Nat] /\ ProxiedIsSum'
      /\ vote_weights' \in [Candidates -> Int] /\ WeightIsVoted' /\ VotesStand'
      /\ total_interior_vote_weight' \in Nat /\ TotalCoversVotes'
  BY <1>2, <1>4, CastKeeps
<1>6. /\ last_vote' \in [Accounts -> 0 .. MaxStake] /\ total_vote_amount' \in Nat
      /\ VoteAmountIsSum'
  <2>1. PICK amount \in 0 .. MaxStake : CountAmount(v, amount)
    <3>1. CountAmount(v, IF list = {} /\ p = NoProxy THEN 0 ELSE stake[v])
      BY DEF UpdateVotes
    <3>2. 0 \in 0 .. MaxStake /\ stake[v] \in 0 .. MaxStake
      BY FactorAssumption DEF Stakes
    <3>. QED  BY <3>1, <3>2
  <2>. QED  BY <1>1, <2>1, CountKeeps
<1>7. proxy' = [proxy EXCEPT ![v] = p] /\ votes' = [votes EXCEPT ![v] = list]
  BY <1>2 DEF Casts
<1>8. Acyclic'
  BY <1>1, <1>3, <1>7, LinkKeepsAcyclic DEF TypeOK
<1>9. TypeOK'
  <2>1. Registry!TypeOK'
    BY <1>1 DEF TypeOK, Registry!TypeOK, registry
  <2>2. /\ proxy' \in [Accounts -> Accounts \cup {NoProxy}]
        /\ votes' \in [Accounts -> SUBSET Candidates]
    BY <1>1, <1>7 DEF TypeOK
  <2>3. week' \in 0 .. LastWeek /\ is_proxy' \subseteq voters' /\ erased' \subseteq Candidates
        /\ staked' \in [Accounts -> 0 .. MaxStake]
    BY <1>1, <1>4 DEF TypeOK, Stakes
  <2>. QED  BY <1>5, <1>6, <2>1, <2>2, <2>3 DEF TypeOK
<1>10. NoProxyOfProxies'
  <2>1. \A a \in Accounts :
          proxy'[a] # NoProxy => a \notin is_proxy' /\ votes'[a] = {} /\ proxy'[a] \in voters'
    <3>. TAKE a \in Accounts
    <3>1. CASE a = v
      <4>1. proxy'[a] = p /\ votes'[a] = list
        BY <1>1, <1>7, <3>1 DEF TypeOK
      <4>2. p # NoProxy => list = {} /\ v \notin is_proxy /\ p \in voters
        BY <1>2 DEF Cast
      <4>. QED  BY <1>4, <3>1, <4>1, <4>2
    <3>2. CASE a # v
      <4>1. proxy'[a] = proxy[a] /\ votes'[a] = votes[a]
        BY <1>1, <1>7, <3>2 DEF TypeOK
      <4>. QED  BY <1>4, <4>1 DEF IInv, NoProxyOfProxies
    <3>. QED  BY <3>1, <3>2
  <2>. QED  BY <1>9, <2>1 DEF NoProxyOfProxies
<1>. QED  BY <1>5, <1>6, <1>8, <1>10 DEF IInv

-----------------------------------------------------------------------------
(* regproxy and unregproxy: one walk over all accounts.                    *)

LEMMA ReweighKeeps ==
  ASSUME IInv, NEW v \in Accounts, NEW proxying \in SUBSET voters,
         \A a \in proxying : proxy[a] = NoProxy,
         SetTallies(Propagate([Walk EXCEPT !.at = v], staked, proxying)),
         is_proxy' = proxying,
         UNCHANGED <<registry, week, voters, staked, proxy, votes, last_vote,
                     total_vote_amount, erased>>
  PROVE  IInv'
<1>. DEFINE L == last_vote_weight
            start == [Walk EXCEPT !.at = v]
            Zero == [a \in Accounts |-> 0]
            votes0 == [c \in Candidates |-> vote_weights[c] - VotedBy(L, Accounts, c)]
            total0 == total_interior_vote_weight - AllVoted(L, Accounts)
            w == Propagate(start, staked, proxying)
            l2 == w.last
<1>1. /\ TypeOK /\ Even(L) /\ VotesStand /\ ProxiedIsSum /\ WeightIsVoted /\ TotalCoversVotes
      /\ L \in [Accounts -> Nat] /\ staked \in Stakes
  BY DEF IInv, NoProxyOfProxies, TypeOK, Stakes
<1>2. start = [at |-> v, last |-> L, proxied |-> proxied_vote_weight,
               weights |-> vote_weights, total |-> total_interior_vote_weight, ok |-> TRUE]
  <2>1. start = [[at |-> NoProxy, last |-> L, proxied |-> proxied_vote_weight,
                  weights |-> vote_weights, total |-> total_interior_vote_weight, ok |-> TRUE]
                 EXCEPT !.at = v]
    BY DEF Walk
  <2>. HIDE DEF start
  <2>. QED  BY <2>1
<1>3. /\ \A a \in Accounts : Carried(L, Accounts, a) \in Nat
      /\ \A c \in Candidates : VotedBy(L, Accounts, c) \in Nat
      /\ AllVoted(L, Accounts) \in Nat
      /\ \A c \in Candidates : vote_weights[c] \in Int
      /\ total_interior_vote_weight \in Nat
  BY <1>1, CarriedType, VotedType, AllVotedType DEF TypeOK
<1>4. WalkOver(Accounts, Accounts, Zero, votes0, total0)
  <2>1. Zero \in [Accounts -> Nat] /\ Even(Zero)
    BY DEF Even
  <2>2. votes0 \in [Candidates -> Int] /\ total0 \in Int
    BY <1>3
  <2>3. Closed(Accounts)
    BY <1>1 DEF Closed, TypeOK
  <2>. HIDE DEF Zero, votes0, total0
  <2>. QED  BY <2>1, <2>2, <2>3 DEF WalkOver
<1>5. start \in Walks
  <2>. HIDE DEF start
  <2>. QED  BY <1>1, <1>2 DEF Walks, TypeOK
<1>6. Exact(start, Accounts, Accounts, Zero, votes0, total0)
  <2>1. \A a \in Accounts : proxied_vote_weight[a] = Carried(L, Accounts, a) + Zero[a]
    <3>1. \A a \in Accounts : proxied_vote_weight[a] = Carried(L, Accounts, a) /\ Zero[a] = 0
      BY <1>1 DEF ProxiedIsSum, Carried
    <3>. HIDE DEF Zero, L
    <3>. QED  BY <1>3, <3>1
  <2>2. /\ \A c \in Candidates : vote_weights[c] = VotedBy(L, Accounts, c) + votes0[c]
        /\ total_interior_vote_weight = AllVoted(L, Accounts) + total0
    BY <1>3
  <2>3. \A c \in Candidates \ interiors : vote_weights[c] = 0
    BY <1>1 DEF VotesStand
  <2>. HIDE DEF start, Zero, votes0, total0
  <2>. QED  BY <1>1, <1>2, <2>1, <2>2, <2>3 DEF Exact
<1>7. w \in Walks /\ Exact(w, Accounts, Accounts, Zero, votes0, total0)
  <2>1. w.ok
    BY DEF SetTallies
  <2>2. w \in Walks /\ (w.ok => Exact(w, Accounts, Accounts, Zero, votes0, total0))
    <3>. HIDE DEF start, Zero, votes0, total0
    <3>. QED  BY <1>1, <1>4, <1>5, <1>6, PropagateKeeps
  <2>. QED  BY <2>1, <2>2
<1>8. /\ last_vote_weight' = l2 /\ proxied_vote_weight' = w.proxied
      /\ vote_weights' = w.weights /\ total_interior_vote_weight' = w.total
  BY DEF SetTallies
<1>9. /\ proxy' = proxy /\ votes' = votes /\ interiors' = interiors /\ erased' = erased
      /\ week' = week /\ voters' = voters /\ staked' = staked /\ last_vote' = last_vote
      /\ total_vote_amount' = total_vote_amount
  BY DEF registry
<1>. HIDE DEF w
<1>10. /\ l2 \in [Accounts -> Nat] /\ Even(l2)
       /\ \A a \in Accounts : w.proxied[a] = Carried(l2, Accounts, a) + Zero[a]
       /\ \A c \in Candidates :
            w.weights[c] = VotedBy(l2, Accounts, c) + (vote_weights[c] - VotedBy(L, Accounts, c))
       /\ w.total = AllVoted(l2, Accounts) + (total_interior_vote_weight - AllVoted(L, Accounts))
       /\ \A c \in Candidates \ interiors : w.weights[c] = 0
  BY <1>7 DEF Exact
<1>11. /\ w.proxied \in [Accounts -> Int] /\ w.weights \in [Candidates -> Int] /\ w.total \in Int
  BY <1>7 DEF Walks
<1>. HIDE DEF l2
<1>12. /\ \A a \in Accounts : Carried(l2, Accounts, a) \in Nat
       /\ \A c \in Candidates : VotedBy(l2, Accounts, c) \in Nat
       /\ AllVoted(l2, Accounts) \in Nat
  BY <1>10, CarriedType, VotedType, AllVotedType
<1>13. \A a \in Accounts : w.proxied[a] = Carried(l2, Accounts, a)
  <2>1. \A a \in Accounts : Zero[a] = 0
    OBVIOUS
  <2>. HIDE DEF Zero
  <2>. QED  BY <1>10, <1>12, <2>1
<1>14. ProxiedIsSum' /\ proxied_vote_weight' \in [Accounts -> Nat]
  <2>1. ProxiedIsSum'
    BY <1>8, <1>9, <1>13 DEF ProxiedIsSum, Carried
  <2>2. w.proxied \in [Accounts -> Nat]
    BY <1>11, <1>12, <1>13
  <2>. QED  BY <1>8, <2>1, <2>2
<1>15. WeightIsVoted' /\ VotesStand'
  <2>1. ASSUME NEW c \in interiors
        PROVE  /\ vote_weights'[c] <= VotedBy(l2, Accounts, c)
               /\ c \notin erased => vote_weights'[c] = VotedBy(l2, Accounts, c)
    <3>1. c \in Candidates
      BY <1>1 DEF VotesStand
    <3>2. /\ vote_weights[c] <= VotedBy(L, Accounts, c)
          /\ c \notin erased => vote_weights[c] = VotedBy(L, Accounts, c)
      BY <1>1 DEF WeightIsVoted, Voted, VotedBy, VotersFor
    <3>. HIDE DEF L
    <3>. QED  BY <1>3, <1>8, <1>10, <1>12, <3>1, <3>2
  <2>2. WeightIsVoted'
    BY <1>8, <1>9, <2>1 DEF WeightIsVoted, Voted, VotedBy, VotersFor
  <2>3. VotesStand'
    BY <1>1, <1>8, <1>9, <1>10 DEF VotesStand
  <2>. QED  BY <2>2, <2>3
<1>16. TotalCoversVotes' /\ total_interior_vote_weight' \in Nat
  <2>1. AllVoted(L, Accounts) <= total_interior_vote_weight
    BY <1>1 DEF TotalCoversVotes
  <2>. HIDE DEF L
  <2>2. AllVoted(l2, Accounts) <= w.total /\ w.total \in Nat
    BY <1>3, <1>10, <1>11, <1>12, <2>1
  <2>3. AllVoted(last_vote_weight, Accounts)' = AllVoted(l2, Accounts)
    BY <1>8, <1>9 DEF AllVoted, VotedBy, VotersFor
  <2>. QED  BY <1>8, <2>2, <2>3 DEF TotalCoversVotes
<1>17. TypeOK'
  <2>1. Registry!TypeOK'
    BY <1>1 DEF TypeOK, Registry!TypeOK, registry
  <2>. QED  BY <1>1, <1>8, <1>9, <1>10, <1>11, <1>14, <1>16, <2>1 DEF TypeOK
<1>18. NoProxyOfProxies'
  BY <1>9, <1>17 DEF IInv, NoProxyOfProxies
<1>19. Even(last_vote_weight)' /\ Acyclic' /\ VoteAmountIsSum'
  BY <1>8, <1>9, <1>10 DEF IInv, Even, Acyclic, Closed, VoteAmountIsSum
<1>. QED  BY <1>14, <1>15, <1>16, <1>18, <1>19 DEF IInv

LEMMA RegProxyKeeps ==
  ASSUME IInv, NEW v \in Accounts, RegProxy(v) PROVE IInv'
<1>. DEFINE proxying == is_proxy \cup {v}
            start == [Walk EXCEPT !.at = v]
<1>1. /\ TypeOK /\ staked \in Stakes
      /\ proxying \in SUBSET voters /\ is_proxy' = proxying
      /\ SetTallies(Propagate(start, staked, proxying))
  BY DEF IInv, NoProxyOfProxies, TypeOK, RegProxy, Stakes
<1>2. proxy[v] = NoProxy
  <2>1. start \in Walks /\ start.at = v
    <3>1. start = [[at |-> NoProxy, last |-> last_vote_weight, proxied |-> proxied_vote_weight,
                    weights |-> vote_weights, total |-> total_interior_vote_weight,
                    ok |-> TRUE] EXCEPT !.at = v]
      BY DEF Walk
    <3>. HIDE DEF start
    <3>2. start = [at |-> v, last |-> last_vote_weight, proxied |-> proxied_vote_weight,
                   weights |-> vote_weights, total |-> total_interior_vote_weight, ok |-> TRUE]
      BY <3>1
    <3>. QED  BY <1>1, <3>2 DEF Walks, TypeOK
  <2>2. Propagate(start, staked, proxying).ok
    BY <1>1 DEF SetTallies
  <2>3. start.at \in proxying \cap Accounts
    BY <2>1
  <2>. HIDE DEF start, proxying
  <2>. QED  BY <1>1, <2>1, <2>2, <2>3, ProxyAborts
<1>3. \A a \in proxying : proxy[a] = NoProxy
  BY <1>1, <1>2 DEF IInv, NoProxyOfProxies, TypeOK
<1>4. UNCHANGED <<registry, week, voters, staked, proxy, votes, last_vote,
                  total_vote_amount, erased>>
  BY DEF RegProxy
<1>. HIDE DEF proxying
<1>. QED  BY <1>1, <1>3, <1>4, ReweighKeeps

LEMMA UnregProxyKeeps ==
  ASSUME IInv, NEW v \in Accounts, UnregProxy(v) PROVE IInv'
<1>. DEFINE proxying == is_proxy \ {v}
            start == [Walk EXCEPT !.at = v]
<1>1. /\ proxying \in SUBSET voters /\ is_proxy' = proxying
      /\ SetTallies(Propagate(start, staked, proxying))
  BY DEF IInv, NoProxyOfProxies, TypeOK, UnregProxy
<1>2. \A a \in proxying : proxy[a] = NoProxy
  BY DEF IInv, NoProxyOfProxies, TypeOK
<1>3. UNCHANGED <<registry, week, voters, staked, proxy, votes, last_vote,
                  total_vote_amount, erased>>
  BY DEF UnregProxy
<1>. HIDE DEF proxying
<1>. QED  BY <1>1, <1>2, <1>3, ReweighKeeps

-----------------------------------------------------------------------------
(* The other actions.                                                      *)

LEMMA VoteProducerKeeps ==
  ASSUME IInv, NEW v \in Accounts, NEW p \in Accounts \cup {NoProxy},
         NEW list \in SUBSET Candidates, VoteProducer(v, p, list)
  PROVE  IInv'
<1>1. UpdateVotes(v, p, list, TRUE, staked)
      /\ UNCHANGED <<registry, week, voters, staked, is_proxy, erased>>
  BY DEF VoteProducer
<1>2. /\ staked \in Stakes /\ staked' \in Stakes
      /\ voters \subseteq voters' /\ voters' \subseteq Accounts
  BY <1>1 DEF IInv, NoProxyOfProxies, TypeOK, Stakes
<1>3. UNCHANGED <<registry, week, is_proxy, erased>>
  BY <1>1
<1>4. TRUE \in BOOLEAN /\ (TRUE \/ p = proxy[v])
  OBVIOUS
<1>. QED  BY <1>1, <1>2, <1>3, <1>4, UpdateVotesKeeps

LEMMA ChangeStakeKeeps ==
  ASSUME IInv, NEW v \in Accounts, NEW delta \in -MaxStake .. MaxStake, ChangeStake(v, delta)
  PROVE  IInv'
<1>. DEFINE stake == [staked EXCEPT ![v] = @ + delta]
<1>1. /\ stake[v] \in 0 .. MaxStake /\ staked' = stake /\ voters' = voters \cup {v}
      /\ UNCHANGED <<registry, week, is_proxy, erased>>
  BY DEF ChangeStake
<1>2. TypeOK
  BY DEF IInv, NoProxyOfProxies
<1>3. stake \in Stakes
  <2>1. staked \in [Accounts -> 0 .. MaxStake]
    BY <1>2 DEF TypeOK
  <2>2. \A a \in Accounts : stake[a] \in 0 .. MaxStake
    BY <1>1, <2>1
  <2>3. stake = [a \in Accounts |-> stake[a]]
    BY <2>1
  <2>. HIDE DEF stake
  <2>. QED  BY <2>2, <2>3 DEF Stakes
<1>4. voters \subseteq voters' /\ voters' \subseteq Accounts
  BY <1>1, <1>2 DEF TypeOK
<1>5. CASE votes[v] # {} \/ proxy[v] # NoProxy
  <2>1. UpdateVotes(v, proxy[v], votes[v], FALSE, stake)
    BY <1>5 DEF ChangeStake
  <2>2. proxy[v] \in Accounts \cup {NoProxy} /\ votes[v] \in SUBSET Candidates
    BY <1>2 DEF TypeOK
  <2>3. FALSE \in BOOLEAN /\ (FALSE \/ proxy[v] = proxy[v])
    OBVIOUS
  <2>. HIDE DEF stake
  <2>. QED  BY <1>1, <1>3, <1>4, <2>1, <2>2, <2>3, UpdateVotesKeeps
<1>6. CASE ~ (votes[v] # {} \/ proxy[v] # NoProxy)
  <2>1. UNCHANGED <<proxy, votes, last_vote_weight, last_vote, proxied_vote_weight, tallies>>
    BY <1>6 DEF ChangeStake
  <2>2. TypeOK'
    <3>1. Registry!TypeOK'
      BY <1>1, <1>2 DEF TypeOK, Registry!TypeOK, registry
    <3>2. is_proxy' \subseteq voters' /\ staked' \in [Accounts -> 0 .. MaxStake]
      BY <1>1, <1>2, <1>3 DEF TypeOK, Stakes
    <3>. HIDE DEF stake
    <3>. QED  BY <1>1, <1>2, <1>4, <2>1, <3>1, <3>2 DEF TypeOK, tallies
  <2>3. NoProxyOfProxies'
    BY <1>1, <2>1, <2>2 DEF IInv, NoProxyOfProxies
  <2>4. Even(last_vote_weight)' /\ Acyclic'
    BY <2>1 DEF IInv, Even, Acyclic, Closed
  <2>5. ProxiedIsSum' /\ VoteAmountIsSum'
    BY <2>1 DEF IInv, ProxiedIsSum, VoteAmountIsSum, tallies
  <2>6. VotesStand' /\ WeightIsVoted'
    BY <1>1, <2>1 DEF IInv, VotesStand, WeightIsVoted, Voted, registry, tallies
  <2>7. TotalCoversVotes'
    BY <2>1 DEF IInv, TotalCoversVotes, AllVoted, VotedBy, VotersFor, tallies
  <2>. QED  BY <2>3, <2>4, <2>5, <2>6, <2>7 DEF IInv
<1>. QED  BY <1>5, <1>6

\* Who becomes an interior and has not been erased has no votes yet.
LEMMA RegisterKeeps ==
  ASSUME IInv, NEW c \in Candidates, Register(c) PROVE IInv'
<1>1. UNCHANGED <<week, voter_info, tallies, erased>>
  BY DEF Register
<1>2. /\ Registry!TypeOK'
      /\ interiors \subseteq interiors' /\ interiors' \subseteq interiors \cup {c}
  <2>. USE DEF IInv, NoProxyOfProxies, TypeOK, Registry!TypeOK
  <2>1. CASE Registry!RegFrontier(c)
    BY <2>1 DEF Registry!RegFrontier, Registry!Activate
  <2>2. CASE Registry!RegInterior(c)
    BY <2>2 DEF Registry!RegInterior, Registry!Activate
  <2>3. CASE Registry!UnregProd(c)
    BY <2>3 DEF Registry!UnregProd, Registry!DeactivateRow
  <2>4. CASE Registry!Punish(c)
    BY <2>4 DEF Registry!Punish, Registry!DeactivateRow
  <2>5. CASE Registry!PunishOff(c)
    BY <2>5 DEF Registry!PunishOff
  <2>. QED  BY <2>1, <2>2, <2>3, <2>4, <2>5 DEF Register
<1>3. TypeOK'
  BY <1>1, <1>2 DEF IInv, NoProxyOfProxies, TypeOK, voter_info, tallies
<1>4. NoProxyOfProxies'
  BY <1>1, <1>3 DEF IInv, NoProxyOfProxies, voter_info
<1>5. VotesStand'
  BY <1>1, <1>2 DEF IInv, VotesStand, voter_info, tallies
<1>6. WeightIsVoted'
  <2>1. ASSUME NEW x \in interiors'
        PROVE  vote_weights[x] <= Voted(x) /\ (x \notin erased => vote_weights[x] = Voted(x))
    <3>1. CASE x \in interiors
      BY <3>1 DEF IInv, WeightIsVoted
    <3>2. CASE x \notin interiors
      <4>1. x \in Candidates /\ vote_weights[x] = 0
        BY <1>2, <3>2 DEF IInv, VotesStand
      <4>2. last_vote_weight \in [Accounts -> Nat]
        BY DEF IInv, NoProxyOfProxies, TypeOK
      <4>3. Voted(x) = VotedBy(last_vote_weight, Accounts, x)
        BY DEF Voted, VotedBy, VotersFor
      <4>4. Voted(x) \in Nat
        BY <4>2, <4>3, VotedType
      <4>5. ASSUME x \notin erased PROVE Voted(x) = 0
        <5>1. {u \in Accounts : proxy[u] = NoProxy /\ x \in votes[u]} = {}
          BY <3>2, <4>5 DEF IInv, VotesStand
        <5>. QED  BY <5>1, SumEmpty DEF Voted
      <4>. QED  BY <4>1, <4>4, <4>5
    <3>. QED  BY <3>1, <3>2
  <2>. QED  BY <1>1, <2>1 DEF WeightIsVoted, Voted, voter_info, tallies
<1>. QED
  BY <1>1, <1>4, <1>5, <1>6 DEF IInv, Even, Acyclic, Closed, ProxiedIsSum, VoteAmountIsSum,
     TotalCoversVotes, AllVoted, VotedBy, VotersFor, voter_info, tallies

LEMMA EraseKeeps ==
  ASSUME IInv, NEW c \in Candidates, EraseProducer(c) PROVE IInv'
<1>1. /\ vote_weights' = [vote_weights EXCEPT ![c] = 0] /\ erased' = erased \cup {c}
      /\ UNCHANGED <<week, voter_info, total_interior_vote_weight, total_vote_amount>>
  BY DEF EraseProducer
<1>2. /\ Registry!TypeOK'
      /\ interiors' \subseteq interiors /\ interiors \subseteq interiors' \cup {c}
  BY DEF EraseProducer, Registry!UnregProduce, IInv, NoProxyOfProxies, TypeOK, Registry!TypeOK
<1>3. vote_weights \in [Candidates -> Int]
  BY DEF IInv, NoProxyOfProxies, TypeOK
<1>4. /\ vote_weights' \in [Candidates -> Int] /\ vote_weights'[c] = 0
      /\ \A x \in Candidates \ {c} : vote_weights'[x] = vote_weights[x]
  BY <1>1, <1>3
<1>5. TypeOK'
  BY <1>1, <1>2, <1>4 DEF IInv, NoProxyOfProxies, TypeOK, voter_info
<1>6. NoProxyOfProxies'
  BY <1>1, <1>5 DEF IInv, NoProxyOfProxies, voter_info
<1>7. VotesStand'
  BY <1>1, <1>2, <1>4 DEF IInv, VotesStand, voter_info
<1>8. WeightIsVoted'
  <2>1. ASSUME NEW x \in interiors'
        PROVE  vote_weights'[x] <= Voted(x) /\ (x \notin erased' => vote_weights'[x] = Voted(x))
    <3>1. x \in Candidates /\ x \in interiors
      BY <1>2 DEF IInv, VotesStand
    <3>2. CASE x = c
      <4>1. last_vote_weight \in [Accounts -> Nat]
        BY DEF IInv, NoProxyOfProxies, TypeOK
      <4>2. Voted(x) = VotedBy(last_vote_weight, Accounts, x)
        BY DEF Voted, VotedBy, VotersFor
      <4>3. Voted(x) \in Nat
        BY <4>1, <4>2, VotedType
      <4>. QED  BY <1>1, <1>4, <3>2, <4>3
    <3>3. CASE x # c
      BY <1>1, <1>4, <3>1, <3>3 DEF IInv, WeightIsVoted
    <3>. QED  BY <3>2, <3>3
  <2>2. \A x : Voted(x)' = Voted(x)
    BY <1>1 DEF Voted, voter_info
  <2>. QED  BY <2>1, <2>2 DEF WeightIsVoted
<1>. QED
  BY <1>1, <1>6, <1>7, <1>8 DEF IInv, Even, Acyclic, Closed, ProxiedIsSum, VoteAmountIsSum,
     TotalCoversVotes, AllVoted, VotedBy, VotersFor, voter_info

-----------------------------------------------------------------------------
(* The invariant.                                                          *)

LEMMA InitKeeps == Init => IInv
<1>. SUFFICES ASSUME Init PROVE IInv
  OBVIOUS
<1>1. /\ Registry!Init /\ week = 0 /\ voters = {} /\ is_proxy = {} /\ erased = {}
      /\ staked = [a \in Accounts |-> 0] /\ proxy = [a \in Accounts |-> NoProxy]
      /\ votes = [a \in Accounts |-> {}] /\ last_vote_weight = [a \in Accounts |-> 0]
      /\ last_vote = [a \in Accounts |-> 0] /\ proxied_vote_weight = [a \in Accounts |-> 0]
      /\ vote_weights = [c \in Candidates |-> 0]
      /\ total_interior_vote_weight = 0 /\ total_vote_amount = 0
  BY DEF Init
<1>2. TypeOK
  BY <1>1, FactorAssumption DEF TypeOK, Registry!TypeOK, Registry!Init
<1>3. NoProxyOfProxies /\ Even(last_vote_weight)
  BY <1>1, <1>2 DEF NoProxyOfProxies, Even
<1>4. Acyclic
  <2>1. Closed({}) /\ {} \in SUBSET Accounts /\ \A a \in Accounts : a \notin {}
    BY DEF Closed
  <2>. QED  BY <1>1, <2>1 DEF Acyclic
<1>5. VotesStand
  BY <1>1 DEF VotesStand, Registry!Init
<1>6. \A D \in SUBSET Accounts :
        SumFunctionOnSet(last_vote_weight, D) = 0 /\ SumFunctionOnSet(last_vote, D) = 0
  BY <1>1, VotersFinite, SumZero
<1>7. ProxiedIsSum /\ VoteAmountIsSum /\ WeightIsVoted
  BY <1>1, <1>6 DEF ProxiedIsSum, VoteAmountIsSum, WeightIsVoted, Registry!Init
<1>8. TotalCoversVotes
  <2>. DEFINE f == [c \in Candidates |-> VotedBy(last_vote_weight, Accounts, c)]
  <2>1. \A c \in Candidates : f[c] = 0
    BY <1>6 DEF VotedBy, VotersFor
  <2>2. AllVoted(last_vote_weight, Accounts) = SumFunctionOnSet(f, Candidates)
    BY DEF AllVoted
  <2>. HIDE DEF f
  <2>3. SumFunctionOnSet(f, Candidates) = 0
    BY <2>1, VotersFinite, SumZero
  <2>. QED  BY <1>1, <2>2, <2>3 DEF TotalCoversVotes
<1>. QED  BY <1>3, <1>4, <1>5, <1>7, <1>8 DEF IInv

LEMMA NextKeeps == IInv /\ [Next]_vars => IInv'
<1>. SUFFICES ASSUME IInv, [Next]_vars PROVE IInv'
  OBVIOUS
<1>1. CASE \E v \in Accounts, list \in SUBSET Candidates : VoteProducer(v, NoProxy, list)
  BY <1>1, VoteProducerKeeps
<1>2. CASE \E v \in Accounts, p \in Accounts : VoteProducer(v, p, {})
  BY <1>2, VoteProducerKeeps
<1>3. CASE \E v \in Accounts, delta \in -MaxStake .. MaxStake : ChangeStake(v, delta)
  BY <1>3, ChangeStakeKeeps
<1>4. CASE \E v \in Accounts : RegProxy(v)
  BY <1>4, RegProxyKeeps
<1>5. CASE \E v \in Accounts : UnregProxy(v)
  BY <1>5, UnregProxyKeeps
<1>6. CASE \E c \in Candidates : Register(c)
  BY <1>6, RegisterKeeps
<1>7. CASE \E c \in Candidates : EraseProducer(c)
  BY <1>7, EraseKeeps
<1>8. CASE NextWeek \/ UNCHANGED vars
  <2>1. /\ UNCHANGED <<registry, voter_info, tallies, erased>>
        /\ week' \in 0 .. LastWeek
    BY <1>8, FactorAssumption DEF NextWeek, vars, IInv, NoProxyOfProxies, TypeOK
  <2>2. TypeOK'
    BY <2>1 DEF IInv, NoProxyOfProxies, TypeOK, Registry!TypeOK, registry, voter_info, tallies
  <2>3. NoProxyOfProxies'
    BY <2>1, <2>2 DEF IInv, NoProxyOfProxies, voter_info
  <2>4. Even(last_vote_weight)' /\ Acyclic'
    BY <2>1 DEF IInv, Even, Acyclic, Closed, voter_info
  <2>5. ProxiedIsSum' /\ VoteAmountIsSum'
    BY <2>1 DEF IInv, ProxiedIsSum, VoteAmountIsSum, voter_info, tallies
  <2>6. VotesStand' /\ WeightIsVoted'
    BY <2>1 DEF IInv, VotesStand, WeightIsVoted, Voted, registry, voter_info, tallies
  <2>7. TotalCoversVotes'
    BY <2>1 DEF IInv, TotalCoversVotes, AllVoted, VotedBy, VotersFor, voter_info, tallies
  <2>. QED  BY <2>3, <2>4, <2>5, <2>6, <2>7 DEF IInv
<1>. QED  BY <1>1, <1>2, <1>3, <1>4, <1>5, <1>6, <1>7, <1>8 DEF Next

(* The invariant itself: over any sequence of votes, restakes, proxies and  *)
(* erasures the tables of led.system agree with the voters' rows.           *)
THEOREM VotingInvariant == Spec => []IInv
<1>1. Init => IInv
  BY InitKeeps
<1>2. IInv /\ [Next]_vars => IInv'
  BY NextKeeps
<1>. QED  BY <1>1, <1>2, PTL DEF Spec

(* A proxy has no proxy and a voter votes in one way only, in rows of their *)
(* types, whatever the order of regproxy, unregproxy and voteproducer.      *)
THEOREM NoProxyOfProxiesHolds == Spec => []NoProxyOfProxies
<1>1. IInv => NoProxyOfProxies
  BY DEF IInv
<1>. QED  BY <1>1, VotingInvariant, PTL

(* What a proxy carries is the sum of what its followers last voted with,   *)
(* through update_votes and propagate_weight_change on chains of any length.*)
THEOREM ProxiedIsSumHolds == Spec => []ProxiedIsSum
<1>1. IInv => ProxiedIsSum
  BY DEF IInv
<1>. QED  BY <1>1, VotingInvariant, PTL

(* The amount update_votes counts is the sum of the voters' last votes.     *)
THEOREM VoteAmountIsSumHolds == Spec => []VoteAmountIsSum
<1>1. IInv => VoteAmountIsSum
  BY DEF IInv
<1>. QED  BY <1>1, VotingInvariant, PTL

(* An interior weighs what its voters last voted with, and less at most if  *)
(* unregproduce erased it in between.                                       *)
THEOREM WeightIsVotedHolds == Spec => []WeightIsVoted
<1>1. IInv => WeightIsVoted
  BY DEF IInv
<1>. QED  BY <1>1, VotingInvariant, PTL

(* The total that the vote pay is divided by covers the interiors' weights. *)
THEOREM TotalCoversWeightsHolds == Spec => []TotalCoversWeights
<1>1. IInv => TotalCoversWeights
  <2>. SUFFICES ASSUME IInv PROVE TotalCoversWeights
    OBVIOUS
  <2>. DEFINE T == {c \in interiors : vote_weights[c] > 0}
              f == [c \in Candidates |-> IF c \in T THEN vote_weights[c] ELSE 0]
              g == [c \in Candidates |-> VotedBy(last_vote_weight, Accounts, c)]
  <2>1. /\ last_vote_weight \in [Accounts -> Nat] /\ vote_weights \in [Candidates -> Int]
        /\ total_interior_vote_weight \in Nat
    BY DEF IInv, NoProxyOfProxies, TypeOK
  <2>2. T \in SUBSET Candidates
    BY DEF IInv, VotesStand
  <2>3. \A c \in T : vote_weights[c] \in Int /\ f[c] = vote_weights[c]
    BY <2>1, <2>2
  <2>4. \A c \in Candidates \ T : f[c] = 0
    OBVIOUS
  <2>5. \A c \in Candidates : f[c] \in Int /\ g[c] \in Int /\ f[c] <= g[c]
    <3>. TAKE c \in Candidates
    <3>1. g[c] = VotedBy(last_vote_weight, Accounts, c) /\ g[c] \in Nat
      BY <2>1, VotedType
    <3>2. c \in T => vote_weights[c] <= VotedBy(last_vote_weight, Accounts, c)
      BY DEF IInv, WeightIsVoted, Voted, VotedBy, VotersFor
    <3>. HIDE DEF g, T
    <3>3. f[c] = IF c \in T THEN vote_weights[c] ELSE 0
      OBVIOUS
    <3>4. vote_weights[c] \in Int
      BY <2>1
    <3>. QED  BY <3>1, <3>2, <3>3, <3>4
  <2>6. SumFunctionOnSet(g, Candidates) <= total_interior_vote_weight
    BY DEF IInv, TotalCoversVotes, AllVoted
  <2>7. TotalCoversWeights <=> total_interior_vote_weight >= SumFunctionOnSet(vote_weights, T)
    BY DEF TotalCoversWeights
  <2>. HIDE DEF T, f, g
  <2>8. SumFunctionOnSet(f, Candidates) = SumFunctionOnSet(vote_weights, T)
    BY <2>2, <2>3, <2>4, VotersFinite, SumRestrict
  <2>9. SumFunctionOnSet(f, Candidates) <= SumFunctionOnSet(g, Candidates)
    BY <2>5, VotersFinite, SumMonotone
  <2>10. SumFunctionOnSet(f, Candidates) \in Int /\ SumFunctionOnSet(g, Candidates) \in Int
    BY <2>5, VotersFinite, SumType
  <2>. QED  BY <2>1, <2>6, <2>7, <2>8, <2>9, <2>10
<1>. QED  BY <1>1, VotingInvariant, PTL

=============================================================================
