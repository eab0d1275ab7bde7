-------------------------- MODULE LedStakingProofs --------------------------
(***************************************************************************)
(* Theorems about staking, for every set of accounts, every delay and      *)
(* every genesis.  The invariants need each other: a deferred refund can   *)
(* only fail for want of tokens in led.stake, which StakeIsBacked rules    *)
(* out, so that DeferredNeverEarly is inductive only together with it.     *)
(***************************************************************************)
EXTENDS LedStaking, SumTheorems

\* last_stake is written once, with what was read through the end iterator.
LastStakeIsNull == NullRead = 0 => \A v \in Accounts : last_stake[v] = 0

Sound == TypeOK /\ StakeIsBacked /\ TotalsAreDelegations /\ VoterStakeIsDelegated

Counted == LastStakeIsNull /\ TotalStakeIsSum

IInv == Sound /\ Counted /\ DeferredNeverEarly

Total(f) == SumFunctionOnSet(f, Accounts)
TotalOfPairs(w) == SumFunctionOnSet(w, Pairs)

-----------------------------------------------------------------------------
(* What the updates of the tables do to their sums. *)

Added(f, f2, a, d) == f2 = [f EXCEPT ![a] = @ + d]

LEMMA PairsFinite == IsFiniteSet(Pairs)
BY AccountsAssumption, FS_Product DEF Pairs

LEMMA TotalType ==
  ASSUME NEW f \in [Accounts -> Int]
  PROVE  Total(f) \in Int
BY AccountsAssumption, SumType DEF Total

LEMMA TotalUpdate ==
  ASSUME NEW f \in [Accounts -> Int], NEW f2 \in [Accounts -> Int], NEW a \in Accounts,
         \A x \in Accounts \ {a} : f2[x] = f[x]
  PROVE  Total(f2) = Total(f) - f[a] + f2[a]
BY AccountsAssumption, SumUpdate DEF Total

LEMMA TotalAdd ==
  ASSUME NEW f \in [Accounts -> Int], NEW a \in Accounts, NEW d \in Int,
         NEW f2, Added(f, f2, a, d)
  PROVE  Total(f) \in Int /\ Total(f2) = Total(f) + d
<1>1. f2 \in [Accounts -> Int] /\ f[a] \in Int
  BY DEF Added
<1>2. f2[a] = f[a] + d /\ \A x \in Accounts \ {a} : f2[x] = f[x]
  BY DEF Added
<1>3. Total(f2) = Total(f) - f[a] + f2[a]
  BY ONLY <1>1, <1>2, a \in Accounts, f \in [Accounts -> Int], TotalUpdate
<1>4. Total(f) \in Int
  BY TotalType
<1> QED
  BY ONLY <1>1, <1>2, <1>3, <1>4, d \in Int

LEMMA TotalOfZeros ==
  ASSUME NEW f, \A a \in Accounts : f[a] = 0
  PROVE  Total(f) = 0
BY AccountsAssumption, SumZero DEF Total

LEMMA PairsUpdate ==
  ASSUME NEW w \in [Pairs -> Int], NEW a \in Accounts, NEW b \in Accounts, NEW d \in Int,
         NEW w2, Added(w, w2, <<a, b>>, d)
  PROVE  TotalOfPairs(w) \in Int /\ TotalOfPairs(w2) = TotalOfPairs(w) + d
<1>1. <<a, b>> \in Pairs
  BY DEF Pairs
<1>2. \A x \in Pairs : w[x] \in Int /\ w2[x] \in Int
  BY <1>1 DEF Added
<1>3. w2[<<a, b>>] = w[<<a, b>>] + d /\ \A x \in Pairs \ {<<a, b>>} : w2[x] = w[x]
  BY <1>1 DEF Added
<1>4. SumFunctionOnSet(w2, Pairs) = SumFunctionOnSet(w, Pairs) - w[<<a, b>>] + w2[<<a, b>>]
  BY ONLY <1>1, <1>2, <1>3, PairsFinite, SumUpdate
<1>5. SumFunctionOnSet(w, Pairs) \in Int
  BY <1>2, PairsFinite, SumType
<1> QED
  BY <1>1, <1>2, <1>3, <1>4, <1>5 DEF TotalOfPairs

\* Only the receiver's column and the owner's line change.
LEMMA LinesUpdate ==
  ASSUME NEW w \in [Pairs -> Int], NEW a \in Accounts, NEW b \in Accounts, NEW d \in Int,
         NEW w2, Added(w, w2, <<a, b>>, d), NEW x \in Accounts
  PROVE  /\ DelegatedTo(w, x) \in Int /\ DelegatedFrom(w, x) \in Int
         /\ DelegatedTo(w2, x) = DelegatedTo(w, x) + (IF x = b THEN d ELSE 0)
         /\ DelegatedFrom(w2, x) = DelegatedFrom(w, x) + (IF x = a THEN d ELSE 0)
<1> DEFINE to == [f \in Accounts |-> w[<<f, x>>]]
           to2 == [f \in Accounts |-> w2[<<f, x>>]]
           from == [t \in Accounts |-> w[<<x, t>>]]
           from2 == [t \in Accounts |-> w2[<<x, t>>]]
<1>1. \A f, t \in Accounts : <<f, t>> \in Pairs
  BY DEF Pairs
<1>2. \A f, t \in Accounts :
        w2[<<f, t>>] = w[<<f, t>>] + (IF f = a /\ t = b THEN d ELSE 0)
  <2> SUFFICES ASSUME NEW f \in Accounts, NEW t \in Accounts
               PROVE  w2[<<f, t>>] = w[<<f, t>>] + (IF f = a /\ t = b THEN d ELSE 0)
    OBVIOUS
  <2>1. CASE f = a /\ t = b
    BY <1>1, <2>1 DEF Added
  <2>2. CASE ~ (f = a /\ t = b)
    <3>1. <<f, t>> # <<a, b>>
      BY <2>2
    <3>2. w2[<<f, t>>] = w[<<f, t>>] /\ w[<<f, t>>] \in Int
      BY <1>1, <3>1 DEF Added
    <3> QED
      BY <2>2, <3>2
  <2> QED
    BY <2>1, <2>2
<1> DEFINE gain == IF x = b THEN d ELSE 0
           share == IF x = a THEN d ELSE 0
<1>3. to \in [Accounts -> Int] /\ from \in [Accounts -> Int] /\ gain \in Int /\ share \in Int
  BY <1>1
<1>4. Added(to, to2, a, gain)
  BY <1>1, <1>2 DEF Added
<1>5. Added(from, from2, b, share)
  BY <1>1, <1>2 DEF Added
<1> HIDE DEF to, to2, from, from2, gain, share
<1>6. Total(to2) = Total(to) + gain /\ Total(to) \in Int
  BY <1>3, <1>4, TotalAdd, TotalType
<1>7. Total(from2) = Total(from) + share /\ Total(from) \in Int
  BY <1>3, <1>5, TotalAdd, TotalType
<1>8. /\ Total(to) = DelegatedTo(w, x) /\ Total(to2) = DelegatedTo(w2, x)
      /\ Total(from) = DelegatedFrom(w, x) /\ Total(from2) = DelegatedFrom(w2, x)
  BY DEF DelegatedTo, DelegatedFrom, Total, to, to2, from, from2
<1> QED
  BY <1>6, <1>7, <1>8 DEF gain, share

\* led.stake can pay every refund.
LEMMA RefundIsCovered ==
  ASSUME TypeOK, StakeIsBacked, NEW o \in Accounts
  PROVE  RefundAmount(o) \in Nat /\ stake_balance >= RefundAmount(o)
<1>1. TotalOfPairs(net_weight) \in Nat /\ TotalOfPairs(cpu_weight) \in Nat
  BY PairsFinite, SumNatural DEF TypeOK, TotalOfPairs
<1>2. /\ Total(refund_net) \in Nat /\ refund_net[o] <= Total(refund_net)
      /\ Total(refund_cpu) \in Nat /\ refund_cpu[o] <= Total(refund_cpu)
  BY AccountsAssumption, SumNatural, SumBoundsTerm DEF TypeOK, Total
<1>3. refund_net[o] \in Nat /\ refund_cpu[o] \in Nat
  BY DEF TypeOK
<1> QED
  BY <1>1, <1>2, <1>3 DEF StakeIsBacked, RefundAmount, Total, TotalOfPairs

-----------------------------------------------------------------------------
LEMMA InitInv == Init => IInv
<1> SUFFICES ASSUME Init PROVE IInv
  OBVIOUS
<1>1. TypeOK
  BY GenesisAssumption, RefundDelayAssumption DEF Init, TypeOK, Unset, Failed
<1>2. TotalOfPairs(net_weight) = 0 /\ TotalOfPairs(cpu_weight) = 0
  BY PairsFinite, SumZero DEF Init, TotalOfPairs
<1>3. Total(refund_net) = 0 /\ Total(refund_cpu) = 0 /\ Total(staked) = 0
  BY TotalOfZeros DEF Init
<1>4. \A x \in Accounts :
        /\ DelegatedTo(net_weight, x) = 0 /\ DelegatedTo(cpu_weight, x) = 0
        /\ DelegatedFrom(net_weight, x) = 0 /\ DelegatedFrom(cpu_weight, x) = 0
  <2> SUFFICES ASSUME NEW x \in Accounts
               PROVE  /\ DelegatedTo(net_weight, x) = 0 /\ DelegatedTo(cpu_weight, x) = 0
                      /\ DelegatedFrom(net_weight, x) = 0 /\ DelegatedFrom(cpu_weight, x) = 0
    OBVIOUS
  <2>1. \A f, t \in Accounts : net_weight[<<f, t>>] = 0 /\ cpu_weight[<<f, t>>] = 0
    BY DEF Init, Pairs
  <2>2. /\ Total([f \in Accounts |-> net_weight[<<f, x>>]]) = 0
        /\ Total([f \in Accounts |-> cpu_weight[<<f, x>>]]) = 0
        /\ Total([t \in Accounts |-> net_weight[<<x, t>>]]) = 0
        /\ Total([t \in Accounts |-> cpu_weight[<<x, t>>]]) = 0
    BY <2>1, TotalOfZeros
  <2> QED
    BY <2>2 DEF Total, DelegatedTo, DelegatedFrom
<1>5. Sound
  BY <1>1, <1>2, <1>3, <1>4
  DEF Init, Sound, StakeIsBacked, TotalsAreDelegations, VoterStakeIsDelegated, Total,
      TotalOfPairs
<1>6. Counted
  BY <1>3 DEF Init, Counted, LastStakeIsNull, TotalStakeIsSum, Total
<1>7. DeferredNeverEarly
  BY DEF Init, DeferredNeverEarly, RefundAmount
<1> QED
  BY <1>5, <1>6, <1>7 DEF IInv

-----------------------------------------------------------------------------
(* A change of stake, in the parts that changebw and update_voting_power   *)
(* are made of.                                                            *)

\* The account the stake belongs to, and what is paid for it: through the refund
\* or around it.
Through(from, paid, net, cpu) ==
  /\ UpdateRefund(from, net, cpu)
  /\ paid = NotCovered(from, net, cpu)
  /\ timer' = [timer EXCEPT ![from] =
                 IF refund_net'[from] + refund_cpu'[from] = 0 THEN Unset ELSE RefundDelay]

Around(from, paid, net, cpu) ==
  /\ UNCHANGED refunds
  /\ paid = net + cpu
  /\ timer' = [timer EXCEPT ![from] = Unset]

OneSign(net, cpu) == (net >= 0 /\ cpu >= 0) \/ (net <= 0 /\ cpu <= 0)

LEMMA ChangeParts ==
  ASSUME TypeOK,
         NEW source \in Accounts, NEW receiver \in Accounts, NEW net \in Int, NEW cpu \in Int,
         NEW transfer \in BOOLEAN, OneSign(net, cpu),
         ChangeBW(source, receiver, net, cpu, transfer)
  PROVE  \E from \in Accounts, paid \in Nat :
           /\ UpdateDelband(from, receiver, net, cpu)
           /\ UpdateUserres(receiver, net, cpu)
           /\ UpdateVotingPower(from, net + cpu)
           /\ PayStake(source, paid)
           /\ Through(from, paid, net, cpu) \/ Around(from, paid, net, cpu)
<1> DEFINE from == IF transfer THEN receiver ELSE source
<1>1. from \in Accounts
  OBVIOUS
<1>2. /\ UpdateDelband(from, receiver, net, cpu)
      /\ UpdateUserres(receiver, net, cpu)
      /\ UpdateVotingPower(from, net + cpu)
  BY DEF ChangeBW
<1>3. CASE /\ UpdateRefund(from, net, cpu)
           /\ IF refund_net'[from] + refund_cpu'[from] = 0
                THEN CancelDeferred(from)
                ELSE Schedule(from)
           /\ PayStake(source, NotCovered(from, net, cpu))
  <2>1. refund_net[from] \in Nat /\ refund_cpu[from] \in Nat
    BY <1>1 DEF TypeOK
  <2> HIDE DEF from
  <2>2. NotCovered(from, net, cpu) \in Nat
    BY <2>1 DEF NotCovered, NonNegative
  <2>3. Through(from, NotCovered(from, net, cpu), net, cpu)
    BY <1>3 DEF Through, CancelDeferred, Schedule
  <2> QED
    BY <1>1, <1>2, <1>3, <2>2, <2>3
<1>4. CASE /\ net + cpu >= 0
           /\ UNCHANGED refunds
           /\ CancelDeferred(from)
           /\ PayStake(source, net + cpu)
  <2> HIDE DEF from
  <2>1. net + cpu \in Nat
    BY <1>4
  <2>2. Around(from, net + cpu, net, cpu)
    BY <1>4 DEF Around, CancelDeferred
  <2> QED
    BY <1>1, <1>2, <1>4, <2>1, <2>2
<1> QED
  BY <1>3, <1>4 DEF ChangeBW

\* The tables of delegations, resources and votes change by the same amounts.
LEMMA DelegationsKept ==
  ASSUME Sound,
         NEW from \in Accounts, NEW receiver \in Accounts, NEW net \in Int, NEW cpu \in Int,
         UpdateDelband(from, receiver, net, cpu),
         UpdateUserres(receiver, net, cpu),
         UpdateVotingPower(from, net + cpu)
  PROVE  /\ net_weight' \in [Pairs -> Nat] /\ cpu_weight' \in [Pairs -> Nat]
         /\ total_net' \in [Accounts -> Nat] /\ total_cpu' \in [Accounts -> Nat]
         /\ staked' \in [Accounts -> Nat]
         /\ TotalOfPairs(net_weight') = TotalOfPairs(net_weight) + net
         /\ TotalOfPairs(cpu_weight') = TotalOfPairs(cpu_weight) + cpu
         /\ TotalsAreDelegations' /\ VoterStakeIsDelegated'
<1>1. /\ net_weight \in [Pairs -> Nat] /\ cpu_weight \in [Pairs -> Nat]
      /\ net_weight \in [Pairs -> Int] /\ cpu_weight \in [Pairs -> Int]
      /\ total_net \in [Accounts -> Nat] /\ total_cpu \in [Accounts -> Nat]
      /\ staked \in [Accounts -> Nat]
  BY DEF Sound, TypeOK
<1>2. /\ net_weight' = [net_weight EXCEPT ![<<from, receiver>>] = @ + net]
      /\ cpu_weight' = [cpu_weight EXCEPT ![<<from, receiver>>] = @ + cpu]
      /\ net_weight[<<from, receiver>>] + net >= 0
      /\ cpu_weight[<<from, receiver>>] + cpu >= 0
  BY DEF UpdateDelband
<1>3. /\ Added(net_weight, net_weight', <<from, receiver>>, net)
       /\ Added(cpu_weight, cpu_weight', <<from, receiver>>, cpu)
  BY <1>2 DEF Added
<1>4. /\ total_net' = [total_net EXCEPT ![receiver] = @ + net]
      /\ total_cpu' = [total_cpu EXCEPT ![receiver] = @ + cpu]
      /\ total_net[receiver] + net >= 0 /\ total_cpu[receiver] + cpu >= 0
  BY DEF UpdateUserres
<1>5. /\ staked' = [staked EXCEPT ![from] = @ + (net + cpu)]
      /\ staked[from] + (net + cpu) >= 0
  BY DEF UpdateVotingPower
<1>6. net_weight' \in [Pairs -> Nat] /\ cpu_weight' \in [Pairs -> Nat]
  <2>1. <<from, receiver>> \in Pairs
    BY DEF Pairs
  <2>2. /\ net_weight[<<from, receiver>>] + net \in Nat
        /\ cpu_weight[<<from, receiver>>] + cpu \in Nat
    BY <1>1, <1>2, <2>1
  <2> QED
    BY <1>1, <1>2, <2>1, <2>2
<1>7. total_net' \in [Accounts -> Nat] /\ total_cpu' \in [Accounts -> Nat]
  BY <1>1, <1>4
<1>8. staked' \in [Accounts -> Nat]
  BY <1>1, <1>5
<1>9. /\ TotalOfPairs(net_weight') = TotalOfPairs(net_weight) + net
      /\ TotalOfPairs(cpu_weight') = TotalOfPairs(cpu_weight) + cpu
  <2>1. TotalOfPairs(net_weight') = TotalOfPairs(net_weight) + net
    BY ONLY <1>1, <1>3, from \in Accounts, receiver \in Accounts, net \in Int, PairsUpdate
  <2>2. TotalOfPairs(cpu_weight') = TotalOfPairs(cpu_weight) + cpu
    BY ONLY <1>1, <1>3, from \in Accounts, receiver \in Accounts, cpu \in Int, PairsUpdate
  <2> QED
    BY <2>1, <2>2
<1>10. ASSUME NEW x \in Accounts
      PROVE  /\ DelegatedTo(net_weight, x) \in Int /\ DelegatedFrom(net_weight, x) \in Int
             /\ DelegatedTo(cpu_weight, x) \in Int /\ DelegatedFrom(cpu_weight, x) \in Int
             /\ DelegatedTo(net_weight', x)
                  = DelegatedTo(net_weight, x) + (IF x = receiver THEN net ELSE 0)
             /\ DelegatedTo(cpu_weight', x)
                  = DelegatedTo(cpu_weight, x) + (IF x = receiver THEN cpu ELSE 0)
             /\ DelegatedFrom(net_weight', x)
                  = DelegatedFrom(net_weight, x) + (IF x = from THEN net ELSE 0)
             /\ DelegatedFrom(cpu_weight', x)
                  = DelegatedFrom(cpu_weight, x) + (IF x = from THEN cpu ELSE 0)
  <2>1. /\ DelegatedTo(net_weight, x) \in Int /\ DelegatedFrom(net_weight, x) \in Int
        /\ DelegatedTo(net_weight', x)
             = DelegatedTo(net_weight, x) + (IF x = receiver THEN net ELSE 0)
        /\ DelegatedFrom(net_weight', x)
             = DelegatedFrom(net_weight, x) + (IF x = from THEN net ELSE 0)
    BY ONLY <1>1, <1>3, from \in Accounts, receiver \in Accounts, x \in Accounts, net \in Int,
            LinesUpdate
  <2>2. /\ DelegatedTo(cpu_weight, x) \in Int /\ DelegatedFrom(cpu_weight, x) \in Int
        /\ DelegatedTo(cpu_weight', x)
             = DelegatedTo(cpu_weight, x) + (IF x = receiver THEN cpu ELSE 0)
        /\ DelegatedFrom(cpu_weight', x)
             = DelegatedFrom(cpu_weight, x) + (IF x = from THEN cpu ELSE 0)
    BY ONLY <1>1, <1>3, from \in Accounts, receiver \in Accounts, x \in Accounts, cpu \in Int,
            LinesUpdate
  <2> QED
    BY <2>1, <2>2
<1>11. ASSUME NEW x \in Accounts
       PROVE  /\ total_net'[x] = DelegatedTo(net_weight', x)
              /\ total_cpu'[x] = DelegatedTo(cpu_weight', x)
  <2>1. /\ total_net[x] = DelegatedTo(net_weight, x)
        /\ total_cpu[x] = DelegatedTo(cpu_weight, x)
    BY DEF Sound, TotalsAreDelegations
  <2> QED
    BY <1>1, <1>4, <1>10, <2>1
<1>12. ASSUME NEW x \in Accounts
       PROVE  staked'[x] = DelegatedFrom(net_weight', x) + DelegatedFrom(cpu_weight', x)
  <2>1. staked[x] = DelegatedFrom(net_weight, x) + DelegatedFrom(cpu_weight, x)
    BY DEF Sound, VoterStakeIsDelegated
  <2> QED
    BY <1>1, <1>5, <1>10, <2>1
<1>13. TotalsAreDelegations' /\ VoterStakeIsDelegated'
  BY <1>11, <1>12 DEF TotalsAreDelegations, VoterStakeIsDelegated, DelegatedTo, DelegatedFrom
<1> QED
  BY <1>6, <1>7, <1>8, <1>9, <1>13

\* A change through the refund: what it moves into or out of the refund and what
\* is paid add up to the change.
LEMMA RefundKept ==
  ASSUME TypeOK, NEW from \in Accounts, NEW net \in Int, NEW cpu \in Int,
         UpdateRefund(from, net, cpu)
  PROVE  /\ refund_net' \in [Accounts -> Nat] /\ refund_cpu' \in [Accounts -> Nat]
         /\ age' \in [Accounts -> 0 .. RefundDelay]
         /\ Total(refund_net') + Total(refund_cpu') + net + cpu
              = Total(refund_net) + Total(refund_cpu) + NotCovered(from, net, cpu)
<1>1. /\ refund_net \in [Accounts -> Nat] /\ refund_cpu \in [Accounts -> Nat]
      /\ refund_net \in [Accounts -> Int] /\ refund_cpu \in [Accounts -> Int]
      /\ age \in [Accounts -> 0 .. RefundDelay]
  BY DEF TypeOK
<1> DEFINE n == NonNegative(refund_net[from] - net)
           c == NonNegative(refund_cpu[from] - cpu)
<1>2. refund_net[from] \in Nat /\ refund_cpu[from] \in Nat
  BY <1>1
<1>3. n \in Nat /\ c \in Nat
  BY <1>2 DEF NonNegative
<1>4. n + net + c + cpu = refund_net[from] + refund_cpu[from] + NotCovered(from, net, cpu)
  BY <1>2 DEF NonNegative, NotCovered
<1>5. /\ refund_net' = [refund_net EXCEPT ![from] = n]
      /\ refund_cpu' = [refund_cpu EXCEPT ![from] = c]
  BY DEF UpdateRefund
<1> HIDE DEF n, c
<1>6. refund_net' \in [Accounts -> Nat] /\ refund_cpu' \in [Accounts -> Nat]
  BY <1>1, <1>3, <1>5
<1>7. age' \in [Accounts -> 0 .. RefundDelay]
  BY <1>1, RefundDelayAssumption DEF UpdateRefund
<1>8. /\ refund_net[from] + (n - refund_net[from]) = n
       /\ refund_cpu[from] + (c - refund_cpu[from]) = c
  BY <1>2, <1>3
<1>9. Added(refund_net, refund_net', from, n - refund_net[from])
  BY <1>5, <1>8 DEF Added
<1>10. Added(refund_cpu, refund_cpu', from, c - refund_cpu[from])
  BY <1>5, <1>8 DEF Added
<1>11. n - refund_net[from] \in Int /\ c - refund_cpu[from] \in Int
  BY <1>2, <1>3
<1>12. /\ Total(refund_net) \in Int
       /\ Total(refund_net') = Total(refund_net) + (n - refund_net[from])
  BY ONLY <1>1, <1>9, <1>11, from \in Accounts, TotalAdd
<1>13. /\ Total(refund_cpu) \in Int
       /\ Total(refund_cpu') = Total(refund_cpu) + (c - refund_cpu[from])
  BY ONLY <1>1, <1>10, <1>11, from \in Accounts, TotalAdd
<1>14. NotCovered(from, net, cpu) \in Int
  BY <1>2 DEF NotCovered, NonNegative
<1>15. Total(refund_net') + Total(refund_cpu') + net + cpu
         = Total(refund_net) + Total(refund_cpu) + NotCovered(from, net, cpu)
  BY <1>2, <1>3, <1>4, <1>12, <1>13, <1>14
<1> QED
  BY <1>6, <1>7, <1>15

\* What is pending grows only when the change takes from the stake, and then the
\* clock and the transaction start anew.
Restarts(o) ==
  refund_net'[o] + refund_cpu'[o] > RefundAmount(o) => age'[o] = 0 /\ timer'[o] = RefundDelay

LEMMA RefundTimed ==
  ASSUME TypeOK, DeferredNeverEarly, NEW from \in Accounts, NEW net \in Int, NEW cpu \in Int,
         NEW paid, OneSign(net, cpu),
         Through(from, paid, net, cpu) \/ Around(from, paid, net, cpu)
  PROVE  /\ timer' \in [Accounts -> Failed .. RefundDelay]
         /\ DeferredNeverEarly'
         /\ \A o \in Accounts : Restarts(o)
<1>1. /\ refund_net \in [Accounts -> Nat] /\ refund_cpu \in [Accounts -> Nat]
      /\ age \in [Accounts -> 0 .. RefundDelay]
      /\ timer \in [Accounts -> Failed .. RefundDelay]
  BY DEF TypeOK
<1>2. timer' \in [Accounts -> Failed .. RefundDelay]
  BY <1>1, RefundDelayAssumption DEF Through, Around, Unset, Failed
<1>3. ASSUME NEW o \in Accounts, o # from
      PROVE  /\ refund_net'[o] = refund_net[o] /\ refund_cpu'[o] = refund_cpu[o]
             /\ age'[o] = age[o] /\ timer'[o] = timer[o]
  BY <1>1, <1>3 DEF Through, Around, UpdateRefund, refunds
<1>4. CASE Around(from, paid, net, cpu)
  <2>1. timer'[from] = Unset
    BY <1>1, <1>4 DEF Around
  <2>2. /\ refund_net' = refund_net /\ refund_cpu' = refund_cpu
    BY <1>4 DEF Around, refunds
  <2>3. DeferredNeverEarly'
    BY <1>3, <2>1 DEF DeferredNeverEarly, RefundAmount
  <2>4. \A o \in Accounts : Restarts(o)
    BY <1>1, <2>2 DEF Restarts, RefundAmount
  <2> QED
    BY <1>2, <2>3, <2>4
<1>5. CASE Through(from, paid, net, cpu)
  <2>1. timer'[from] = IF refund_net'[from] + refund_cpu'[from] = 0 THEN Unset ELSE RefundDelay
    BY <1>1, <1>5 DEF Through
  <2>2. /\ refund_net'[from] = NonNegative(refund_net[from] - net)
        /\ refund_cpu'[from] = NonNegative(refund_cpu[from] - cpu)
        /\ age'[from] = IF net < 0 \/ cpu < 0 \/ refund_net'[from] + refund_cpu'[from] = 0
                          THEN 0 ELSE age[from]
    BY <1>1, <1>5 DEF Through, UpdateRefund
  <2>3. refund_net[from] \in Nat /\ refund_cpu[from] \in Nat /\ age[from] \in Nat
    BY <1>1, RefundDelayAssumption
  <2>4. refund_net'[from] \in Nat /\ refund_cpu'[from] \in Nat /\ age'[from] \in Nat
    BY <2>2, <2>3 DEF NonNegative
  <2>5. DeferredNeverEarly'
    <3>1. ASSUME NEW o \in Accounts,
                 refund_net'[o] + refund_cpu'[o] > 0, timer'[o] # Unset
          PROVE  timer'[o] >= 0 /\ age'[o] + timer'[o] >= RefundDelay
      <4>1. CASE o = from
        BY <2>1, <2>4, <3>1, <4>1, RefundDelayAssumption
      <4>2. CASE o # from
        BY <1>3, <3>1, <4>2 DEF DeferredNeverEarly, RefundAmount
      <4> QED
        BY <4>1, <4>2
    <3> QED
      BY <3>1 DEF DeferredNeverEarly, RefundAmount
  <2>6. ASSUME NEW o \in Accounts PROVE Restarts(o)
    <3>1. CASE o = from
      <4>1. SUFFICES ASSUME refund_net'[from] + refund_cpu'[from]
                              > refund_net[from] + refund_cpu[from]
                     PROVE  age'[from] = 0 /\ timer'[from] = RefundDelay
        BY <3>1 DEF Restarts, RefundAmount
      <4>2. net < 0 \/ cpu < 0
        BY <2>2, <2>3, <4>1 DEF NonNegative
      <4> QED
        BY <2>1, <2>2, <2>3, <4>1, <4>2
    <3>2. CASE o # from
      BY <1>1, <1>3, <3>2 DEF Restarts, RefundAmount
    <3> QED
      BY <3>1, <3>2
  <2> QED
    BY <1>2, <2>5, <2>6
<1> QED
  BY <1>4, <1>5

LEMMA ChangeKeeps ==
  ASSUME IInv,
         NEW source \in Accounts, NEW receiver \in Accounts, NEW net \in Int, NEW cpu \in Int,
         NEW transfer \in BOOLEAN, OneSign(net, cpu),
         ChangeBW(source, receiver, net, cpu, transfer)
  PROVE  IInv' /\ \A o \in Accounts : Restarts(o)
<1>1. /\ TypeOK /\ StakeIsBacked /\ DeferredNeverEarly /\ Sound
  BY DEF IInv, Sound
<1>2. PICK from \in Accounts, paid \in Nat :
        /\ UpdateDelband(from, receiver, net, cpu)
        /\ UpdateUserres(receiver, net, cpu)
        /\ UpdateVotingPower(from, net + cpu)
        /\ PayStake(source, paid)
        /\ Through(from, paid, net, cpu) \/ Around(from, paid, net, cpu)
  BY <1>1, ChangeParts
<1>3. /\ net_weight' \in [Pairs -> Nat] /\ cpu_weight' \in [Pairs -> Nat]
      /\ total_net' \in [Accounts -> Nat] /\ total_cpu' \in [Accounts -> Nat]
      /\ staked' \in [Accounts -> Nat]
      /\ TotalOfPairs(net_weight') = TotalOfPairs(net_weight) + net
      /\ TotalOfPairs(cpu_weight') = TotalOfPairs(cpu_weight) + cpu
      /\ TotalsAreDelegations' /\ VoterStakeIsDelegated'
  BY <1>1, <1>2, DelegationsKept
<1>4. /\ timer' \in [Accounts -> Failed .. RefundDelay]
      /\ DeferredNeverEarly'
      /\ \A o \in Accounts : Restarts(o)
  BY <1>1, <1>2, RefundTimed
<1>5. /\ refund_net' \in [Accounts -> Nat] /\ refund_cpu' \in [Accounts -> Nat]
      /\ age' \in [Accounts -> 0 .. RefundDelay]
      /\ Total(refund_net') + Total(refund_cpu') + net + cpu
           = Total(refund_net) + Total(refund_cpu) + paid
  <2>1. CASE Through(from, paid, net, cpu)
    BY <1>1, <2>1, RefundKept DEF Through
  <2>2. CASE Around(from, paid, net, cpu)
    <3>1. /\ refund_net' = refund_net /\ refund_cpu' = refund_cpu /\ age' = age
          /\ paid = net + cpu
      BY <2>2 DEF Around, refunds
    <3>2. Total(refund_net) \in Int /\ Total(refund_cpu) \in Int
      BY <1>1, TotalType DEF TypeOK
    <3> QED
      BY <1>1, <3>1, <3>2 DEF TypeOK
  <2> QED
    BY <1>2, <2>1, <2>2
<1>6. /\ balance' \in [Accounts -> Nat] /\ stake_balance' \in Nat
      /\ stake_balance' = stake_balance + paid
  BY <1>1, <1>2 DEF PayStake, TypeOK
<1>7. /\ voters' \subseteq Accounts /\ last_stake' \in [Accounts -> Int]
      /\ total_stake_amount' \in Int
  BY <1>1, <1>2, NullReadAssumption DEF UpdateVotingPower, TypeOK
<1>8. TypeOK'
  BY <1>3, <1>4, <1>5, <1>6, <1>7 DEF TypeOK
<1>9. StakeIsBacked'
  <2>1. stake_balance = TotalOfPairs(net_weight) + TotalOfPairs(cpu_weight)
                          + Total(refund_net) + Total(refund_cpu)
    BY <1>1 DEF StakeIsBacked, Total, TotalOfPairs
  <2>2. /\ TotalOfPairs(net_weight) \in Int /\ TotalOfPairs(cpu_weight) \in Int
        /\ Total(refund_net) \in Int /\ Total(refund_cpu) \in Int
        /\ Total(refund_net') \in Int /\ Total(refund_cpu') \in Int
    BY <1>1, <1>5, TotalType, PairsFinite, SumType DEF TypeOK, TotalOfPairs
  <2>3. stake_balance' = TotalOfPairs(net_weight') + TotalOfPairs(cpu_weight')
                           + Total(refund_net') + Total(refund_cpu')
    BY <1>3, <1>5, <1>6, <2>1, <2>2
  <2> QED
    BY <2>3 DEF StakeIsBacked, Total, TotalOfPairs
<1>10. Counted'
  <2>1. CASE NullRead # 0
    BY <2>1 DEF Counted, LastStakeIsNull, TotalStakeIsSum
  <2>2. CASE NullRead = 0
    <3>1. /\ \A v \in Accounts : last_stake[v] = 0
          /\ total_stake_amount = Total(staked)
      BY <2>2 DEF IInv, Counted, LastStakeIsNull, TotalStakeIsSum, Total
    <3>2. /\ \A v \in Accounts : last_stake'[v] = 0
          /\ total_stake_amount' = total_stake_amount - 0 + (net + cpu)
          /\ Added(staked, staked', from, net + cpu)
      BY <1>1, <1>2, <2>2, <3>1 DEF UpdateVotingPower, TypeOK, Added
    <3>3. staked \in [Accounts -> Int] /\ net + cpu \in Int
      BY <1>1 DEF TypeOK
    <3>4. Total(staked) \in Int /\ Total(staked') = Total(staked) + (net + cpu)
      BY ONLY <3>2, <3>3, from \in Accounts, TotalAdd
    <3>5. total_stake_amount' = Total(staked')
      BY <3>1, <3>2, <3>3, <3>4
    <3> QED
      BY <3>2, <3>5 DEF Counted, LastStakeIsNull, TotalStakeIsSum, Total
  <2> QED
    BY <2>1, <2>2
<1> QED
  BY <1>3, <1>4, <1>8, <1>9, <1>10 DEF IInv, Sound

-----------------------------------------------------------------------------
\* A refund takes from led.stake what was pending and leaves the rest alone.
LEMMA PaidKeeps ==
  ASSUME IInv, NEW owner \in Accounts, PayRefund(owner),
         timer' = timer \/ timer' = [timer EXCEPT ![owner] = Unset]
  PROVE  IInv' /\ \A o \in Accounts : Restarts(o)
<1>1. TypeOK /\ StakeIsBacked /\ DeferredNeverEarly
  BY DEF IInv, Sound
<1>2. /\ refund_net \in [Accounts -> Nat] /\ refund_cpu \in [Accounts -> Nat]
      /\ refund_net \in [Accounts -> Int] /\ refund_cpu \in [Accounts -> Int]
      /\ refund_net[owner] \in Nat /\ refund_cpu[owner] \in Nat
      /\ stake_balance \in Nat /\ RefundAmount(owner) \in Nat
  BY <1>1 DEF TypeOK, RefundAmount
<1>3. /\ refund_net' = [refund_net EXCEPT ![owner] = 0]
      /\ refund_cpu' = [refund_cpu EXCEPT ![owner] = 0]
      /\ age' = [age EXCEPT ![owner] = 0]
      /\ stake_balance' = stake_balance - RefundAmount(owner)
      /\ stake_balance >= RefundAmount(owner)
      /\ balance' = [balance EXCEPT ![owner] = @ + RefundAmount(owner)]
  BY DEF PayRefund, Refundable
<1>4. UNCHANGED <<net_weight, cpu_weight, total_net, total_cpu, voters, staked, last_stake,
                  total_stake_amount>>
  BY DEF PayRefund, delband, userres, voter_rows
<1>5. TypeOK'
  <2>1. balance' \in [Accounts -> Nat] /\ stake_balance' \in Nat
    BY <1>1, <1>2, <1>3 DEF TypeOK
  <2>2. refund_net' \in [Accounts -> Nat] /\ refund_cpu' \in [Accounts -> Nat]
    BY <1>2, <1>3
  <2>3. age' \in [Accounts -> 0 .. RefundDelay]
    BY <1>1, <1>3, RefundDelayAssumption DEF TypeOK
  <2>4. timer' \in [Accounts -> Failed .. RefundDelay]
    BY <1>1, RefundDelayAssumption DEF TypeOK, Unset, Failed
  <2> QED
    BY <1>1, <1>4, <2>1, <2>2, <2>3, <2>4 DEF TypeOK
<1>6. StakeIsBacked'
  <2>1. /\ 0 - refund_net[owner] \in Int /\ 0 - refund_cpu[owner] \in Int
        /\ refund_net[owner] + (0 - refund_net[owner]) = 0
        /\ refund_cpu[owner] + (0 - refund_cpu[owner]) = 0
    BY <1>2
  <2>2. /\ Added(refund_net, refund_net', owner, 0 - refund_net[owner])
        /\ Added(refund_cpu, refund_cpu', owner, 0 - refund_cpu[owner])
    BY <1>3, <2>1 DEF Added
  <2>3. /\ Total(refund_net) \in Int
        /\ Total(refund_net') = Total(refund_net) + (0 - refund_net[owner])
    BY ONLY <1>2, <2>1, <2>2, owner \in Accounts, TotalAdd
  <2>4. /\ Total(refund_cpu) \in Int
        /\ Total(refund_cpu') = Total(refund_cpu) + (0 - refund_cpu[owner])
    BY ONLY <1>2, <2>1, <2>2, owner \in Accounts, TotalAdd
  <2>5. TotalOfPairs(net_weight) \in Int /\ TotalOfPairs(cpu_weight) \in Int
    BY <1>1, PairsFinite, SumType DEF TypeOK, TotalOfPairs
  <2>6. stake_balance = TotalOfPairs(net_weight) + TotalOfPairs(cpu_weight)
                          + Total(refund_net) + Total(refund_cpu)
    BY <1>1 DEF StakeIsBacked, Total, TotalOfPairs
  <2>7. stake_balance' = TotalOfPairs(net_weight) + TotalOfPairs(cpu_weight)
                           + Total(refund_net') + Total(refund_cpu')
    BY <1>2, <1>3, <2>3, <2>4, <2>5, <2>6 DEF RefundAmount
  <2> QED
    BY <1>4, <2>7 DEF StakeIsBacked, Total, TotalOfPairs
<1>7. TotalsAreDelegations' /\ VoterStakeIsDelegated'
  BY <1>4 DEF IInv, Sound, TotalsAreDelegations, VoterStakeIsDelegated, DelegatedTo,
              DelegatedFrom
<1>8. Counted'
  BY <1>4 DEF IInv, Counted, LastStakeIsNull, TotalStakeIsSum
<1>9. ASSUME NEW o \in Accounts, o # owner
      PROVE  /\ refund_net'[o] = refund_net[o] /\ refund_cpu'[o] = refund_cpu[o]
             /\ age'[o] = age[o] /\ timer'[o] = timer[o]
  BY <1>1, <1>3, <1>9 DEF TypeOK
<1>10. refund_net'[owner] = 0 /\ refund_cpu'[owner] = 0
  BY <1>2, <1>3
<1>11. DeferredNeverEarly'
  BY <1>1, <1>9, <1>10 DEF DeferredNeverEarly, RefundAmount
<1>12. ASSUME NEW o \in Accounts PROVE Restarts(o)
  BY <1>2, <1>9, <1>10 DEF Restarts, RefundAmount
<1> QED
  BY <1>5, <1>6, <1>7, <1>8, <1>11, <1>12 DEF IInv, Sound

\* A deferred transaction whose refund aborts had nothing to refund.
LEMMA DeferredKeeps ==
  ASSUME IInv, NEW owner \in Accounts, RunDeferred(owner)
  PROVE  IInv' /\ \A o \in Accounts : Restarts(o)
<1>1. TypeOK /\ StakeIsBacked /\ DeferredNeverEarly
  BY DEF IInv, Sound
<1>2. CASE PayRefund(owner) /\ CancelDeferred(owner)
  BY <1>2, PaidKeeps DEF CancelDeferred
<1>3. CASE /\ ~ Refundable(owner)
           /\ timer' = [timer EXCEPT ![owner] = Failed]
           /\ UNCHANGED <<balance, stake_balance, delband, userres, refunds, voter_rows>>
  <2>1. /\ RefundAmount(owner) \in Nat /\ stake_balance >= RefundAmount(owner)
    BY <1>1, RefundIsCovered
  <2>2. timer[owner] = 0 /\ age[owner] \in 0 .. RefundDelay
    BY <1>1 DEF RunDeferred, TypeOK
  <2>3. RefundAmount(owner) = 0
    BY <1>1, <1>3, <2>1, <2>2, RefundDelayAssumption DEF DeferredNeverEarly, Refundable, Unset
  <2>4. UNCHANGED <<balance, stake_balance, net_weight, cpu_weight, total_net, total_cpu,
                    refund_net, refund_cpu, age, voters, staked, last_stake,
                    total_stake_amount>>
    BY <1>3 DEF delband, userres, refunds, voter_rows
  <2>5. timer' \in [Accounts -> Failed .. RefundDelay]
    BY <1>1, <1>3, RefundDelayAssumption DEF TypeOK, Failed
  <2>6. TypeOK'
    BY <1>1, <2>4, <2>5 DEF TypeOK
  <2>7. StakeIsBacked' /\ TotalsAreDelegations' /\ VoterStakeIsDelegated'
    BY <2>4 DEF IInv, Sound, StakeIsBacked, TotalsAreDelegations, VoterStakeIsDelegated,
                DelegatedTo, DelegatedFrom
  <2>8. Counted'
    BY <2>4 DEF IInv, Counted, LastStakeIsNull, TotalStakeIsSum
  <2>9. \A o \in Accounts : o # owner => timer'[o] = timer[o]
    BY <1>1, <1>3 DEF TypeOK
  <2>10. DeferredNeverEarly'
    BY <1>1, <2>3, <2>4, <2>9 DEF DeferredNeverEarly, RefundAmount
  <2>11. ASSUME NEW o \in Accounts PROVE Restarts(o)
    BY <1>1, <2>4 DEF Restarts, RefundAmount, TypeOK
  <2> QED
    BY <2>6, <2>7, <2>8, <2>10, <2>11 DEF IInv, Sound
<1> QED
  BY <1>2, <1>3 DEF RunDeferred

\* While a refund waits, its age and the delay of its transaction pass together.
LEMMA TickKeeps ==
  ASSUME IInv, Tick
  PROVE  IInv' /\ \A o \in Accounts : Restarts(o)
<1>1. TypeOK /\ DeferredNeverEarly
  BY DEF IInv, Sound
<1>2. UNCHANGED <<balance, stake_balance, net_weight, cpu_weight, total_net, total_cpu,
                  refund_net, refund_cpu, voters, staked, last_stake, total_stake_amount>>
  BY DEF Tick, delband, userres, voter_rows
<1>3. ASSUME NEW o \in Accounts
      PROVE  /\ age'[o] = IF RefundAmount(o) > 0 /\ age[o] < RefundDelay
                            THEN age[o] + 1 ELSE age[o]
             /\ timer'[o] = IF timer[o] > 0 THEN timer[o] - 1 ELSE timer[o]
             /\ age[o] \in 0 .. RefundDelay /\ timer[o] \in Failed .. RefundDelay
             /\ RefundAmount(o) \in Nat
  BY <1>1 DEF Tick, TypeOK, RefundAmount
<1>4. age' \in [Accounts -> 0 .. RefundDelay] /\ timer' \in [Accounts -> Failed .. RefundDelay]
  <2>1. ASSUME NEW o \in Accounts
        PROVE  age'[o] \in 0 .. RefundDelay /\ timer'[o] \in Failed .. RefundDelay
    BY <1>3, RefundDelayAssumption DEF Failed
  <2>2. /\ age' = [o \in Accounts |-> age'[o]]
        /\ timer' = [o \in Accounts |-> timer'[o]]
    BY DEF Tick
  <2> QED
    BY <2>1, <2>2
<1>5. TypeOK'
  BY <1>1, <1>2, <1>4 DEF TypeOK
<1>6. StakeIsBacked' /\ TotalsAreDelegations' /\ VoterStakeIsDelegated'
  BY <1>2 DEF IInv, Sound, StakeIsBacked, TotalsAreDelegations, VoterStakeIsDelegated,
              DelegatedTo, DelegatedFrom
<1>7. Counted'
  BY <1>2 DEF IInv, Counted, LastStakeIsNull, TotalStakeIsSum
<1>8. ASSUME NEW o \in Accounts, refund_net'[o] + refund_cpu'[o] > 0, timer'[o] # Unset
      PROVE  timer'[o] >= 0 /\ age'[o] + timer'[o] >= RefundDelay
  <2>1. RefundAmount(o) > 0
    BY <1>2, <1>8 DEF RefundAmount
  <2>2. timer[o] # Unset
    BY <1>3, <1>8 DEF Unset
  <2>3. timer[o] >= 0 /\ age[o] + timer[o] >= RefundDelay
    BY <1>1, <2>1, <2>2 DEF DeferredNeverEarly
  <2> QED
    BY <1>3, <2>1, <2>3, RefundDelayAssumption
<1>9. DeferredNeverEarly'
  BY <1>8 DEF DeferredNeverEarly, RefundAmount
<1>10. ASSUME NEW o \in Accounts PROVE Restarts(o)
  BY <1>2, <1>3 DEF Restarts, RefundAmount
<1> QED
  BY <1>5, <1>6, <1>7, <1>9, <1>10 DEF IInv, Sound

-----------------------------------------------------------------------------
LEMMA NextInv == IInv /\ [Next]_vars => IInv' /\ \A o \in Accounts : Restarts(o)
<1> SUFFICES ASSUME IInv, [Next]_vars
             PROVE  IInv' /\ \A o \in Accounts : Restarts(o)
  OBVIOUS
<1>1. ASSUME NEW from \in Accounts, NEW receiver \in Accounts, NEW net \in Amounts,
             NEW cpu \in Amounts, NEW transfer \in BOOLEAN,
             DelegateBW(from, receiver, net, cpu, transfer)
      PROVE  IInv' /\ \A o \in Accounts : Restarts(o)
  <2>1. net \in Int /\ cpu \in Int /\ OneSign(net, cpu)
    BY MaxDeltaAssumption DEF Amounts, OneSign
  <2> QED
    BY <1>1, <2>1, ChangeKeeps DEF DelegateBW
<1>2. ASSUME NEW from \in Accounts, NEW receiver \in Accounts, NEW net \in Amounts,
             NEW cpu \in Amounts, UndelegateBW(from, receiver, net, cpu)
      PROVE  IInv' /\ \A o \in Accounts : Restarts(o)
  <2>1. - net \in Int /\ - cpu \in Int /\ OneSign(- net, - cpu)
    BY MaxDeltaAssumption DEF Amounts, OneSign
  <2>2. ChangeBW(from, receiver, - net, - cpu, FALSE)
    BY <1>2 DEF UndelegateBW
  <2> HIDE DEF OneSign
  <2> QED
    BY <2>1, <2>2, ChangeKeeps
<1>3. ASSUME NEW owner \in Accounts, Refund(owner)
      PROVE  IInv' /\ \A o \in Accounts : Restarts(o)
  BY <1>3, PaidKeeps DEF Refund
<1>4. ASSUME NEW owner \in Accounts, RunDeferred(owner)
      PROVE  IInv' /\ \A o \in Accounts : Restarts(o)
  BY <1>4, DeferredKeeps
<1>5. ASSUME Tick
      PROVE  IInv' /\ \A o \in Accounts : Restarts(o)
  BY <1>5, TickKeeps
<1>6. ASSUME UNCHANGED vars
      PROVE  IInv' /\ \A o \in Accounts : Restarts(o)
  <2>1. UNCHANGED <<balance, stake_balance, net_weight, cpu_weight, total_net, total_cpu,
                    refund_net, refund_cpu, age, timer, voters, staked, last_stake,
                    total_stake_amount>>
    BY <1>6 DEF vars, delband, userres, refunds, voter_rows
  <2>2. IInv'
    BY <2>1 DEF IInv, Sound, Counted, TypeOK, StakeIsBacked, TotalsAreDelegations,
                VoterStakeIsDelegated, DelegatedTo, DelegatedFrom, LastStakeIsNull,
                TotalStakeIsSum, DeferredNeverEarly, RefundAmount
  <2>3. ASSUME NEW o \in Accounts PROVE Restarts(o)
    BY <2>1 DEF IInv, Sound, TypeOK, Restarts, RefundAmount
  <2> QED
    BY <2>2, <2>3
<1> QED
  BY <1>1, <1>2, <1>3, <1>4, <1>5, <1>6 DEF Next

LEMMA SpecInv == Spec => []IInv
<1>1. IInv /\ [Next]_vars => IInv'
  BY NextInv
<1> QED
  BY InitInv, <1>1, PTL DEF Spec

(* Every row of the staking tables holds what its type allows, for any     *)
(* number of accounts: no delegation, refund or balance goes negative.     *)
THEOREM RowsStand == Spec => []TypeOK
<1>1. IInv => TypeOK
  BY DEF IInv, Sound
<1> QED
  BY SpecInv, <1>1, PTL

(* led.stake holds exactly what is delegated and what waits to be          *)
(* refunded: no sequence of changebw and refund makes or loses a token.    *)
THEOREM StakeBacked == Spec => []StakeIsBacked
<1>1. IInv => StakeIsBacked
  BY DEF IInv, Sound
<1> QED
  BY SpecInv, <1>1, PTL

(* A receiver's resources are what its delegators gave it.                 *)
THEOREM ResourcesDelegated == Spec => []TotalsAreDelegations
<1>1. IInv => TotalsAreDelegations
  BY DEF IInv, Sound
<1> QED
  BY SpecInv, <1>1, PTL

(* A voter's stake is what it has delegated, whoever paid for it.          *)
THEOREM VotersDelegate == Spec => []VoterStakeIsDelegated
<1>1. IInv => VoterStakeIsDelegated
  BY DEF IInv, Sound
<1> QED
  BY SpecInv, <1>1, PTL

(* The global stake total is the sum of the voters' stakes, if the read    *)
(* through the end iterator yields 0.                                      *)
THEOREM TotalStakeSummed == Spec => []TotalStakeIsSum
<1>1. IInv => TotalStakeIsSum
  BY DEF IInv, Counted
<1> QED
  BY SpecInv, <1>1, PTL

(* No deferred refund runs before the request it pays is old enough,       *)
(* however requests grow, shrink and are refunded by hand meanwhile.       *)
THEOREM DeferredInTime == Spec => []DeferredNeverEarly
<1>1. IInv => DeferredNeverEarly
  BY DEF IInv
<1> QED
  BY SpecInv, <1>1, PTL

(* What joins a pending refund waits the whole delay.                      *)
THEOREM GrowthRestarts == Spec => GrowingRefundRestarts
<1>1. IInv /\ [Next]_vars
        => [\A o \in Accounts :
              refund_net'[o] + refund_cpu'[o] > RefundAmount(o) =>
                age'[o] = 0 /\ timer'[o] = RefundDelay]_vars
  BY NextInv DEF Restarts
<1> QED
  BY SpecInv, <1>1, PTL DEF Spec, GrowingRefundRestarts

-----------------------------------------------------------------------------
(* The escrow: each step is one of StakeEscrow, or changes nothing there.  *)

Pending == [a \in Accounts |-> RefundAmount(a)]

\* Without a refund there is no request whose age counts.
Unaged == \A o \in Accounts : RefundAmount(o) = 0 => age[o] = 0

EscrowTypes ==
  /\ balance \in [Accounts -> Nat] /\ staked \in [Accounts -> Nat]
  /\ refund_net \in [Accounts -> Nat] /\ refund_cpu \in [Accounts -> Nat]
  /\ age \in [Accounts -> 0 .. RefundDelay]

\* What an increase takes from the refund is what its payer does not pay.
LEMMA CoveredParts ==
  ASSUME NEW r \in Nat, NEW n \in Nat
  PROVE  /\ n - NonNegative(n - r) \in 0 .. n
         /\ n - NonNegative(n - r) = r - NonNegative(r - n)
         /\ NonNegative(r - n) \in Nat /\ NonNegative(n - r) \in Nat
BY DEF NonNegative

\* A step that changes the refund of one account only.
LEMMA PendingUpdate ==
  ASSUME NEW o \in Accounts, NEW v, refund_net'[o] + refund_cpu'[o] = v,
         \A a \in Accounts : a # o =>
           refund_net'[a] = refund_net[a] /\ refund_cpu'[a] = refund_cpu[a]
  PROVE  Pending' = [Pending EXCEPT ![o] = v]
<1>1. \A a \in Accounts : Pending'[a] = IF a = o THEN v ELSE Pending[a]
  BY DEF Pending, RefundAmount
<1>2. Pending' = [a \in Accounts |-> Pending'[a]] /\ Pending = [a \in Accounts |-> Pending[a]]
  BY DEF Pending
<1>. HIDE DEF Pending
<1>. QED  BY <1>1, <1>2

LEMMA IncreaseIsStake ==
  ASSUME EscrowTypes, Unaged, NEW from \in Accounts, NEW receiver \in Accounts,
         NEW net \in Amounts, NEW cpu \in Amounts, NEW transfer \in BOOLEAN,
         DelegateBW(from, receiver, net, cpu, transfer)
  PROVE  Escrow!Next /\ Unaged'
<1>. DEFINE owner == IF transfer THEN receiver ELSE from
            amount == net + cpu
<1>1. /\ owner \in Accounts /\ net \in 0 .. MaxDelta /\ cpu \in 0 .. MaxDelta
      /\ net \in Nat /\ cpu \in Nat /\ MaxDelta \in Nat
      /\ amount \in 1 .. 2 * MaxDelta /\ ~ (net + cpu < 0)
  BY MaxDeltaAssumption DEF DelegateBW, Amounts
<1>2. /\ PayStake(from, NotCovered(owner, net, cpu)) /\ UpdateRefund(owner, net, cpu)
      /\ owner = from
      \/ /\ PayStake(from, net + cpu) /\ UNCHANGED refunds
  BY <1>1 DEF DelegateBW, ChangeBW, is_delegating_to_self
<1>3. staked' = [staked EXCEPT ![owner] = @ + amount]
  BY DEF DelegateBW, ChangeBW, UpdateVotingPower
<1>. HIDE DEF owner, amount
<1>4. ASSUME NEW covered \in 0 .. 2 * MaxDelta, Escrow!Stake(from, owner, amount, covered)
      PROVE  Escrow!Next
  BY <1>1, <1>4 DEF Escrow!Next
<1>5. CASE /\ PayStake(from, NotCovered(owner, net, cpu)) /\ UpdateRefund(owner, net, cpu)
           /\ owner = from
  <2>. DEFINE rn == refund_net[owner]
              rc == refund_cpu[owner]
              cn == net - NonNegative(net - rn)
              cc == cpu - NonNegative(cpu - rc)
  <2>1. rn \in Nat /\ rc \in Nat
    BY <1>1 DEF EscrowTypes
  <2>2. /\ cn \in 0 .. net /\ cn = rn - NonNegative(rn - net)
        /\ cc \in 0 .. cpu /\ cc = rc - NonNegative(rc - cpu)
        /\ NonNegative(rn - net) \in Nat /\ NonNegative(rc - cpu) \in Nat
        /\ NonNegative(net - rn) \in Nat /\ NonNegative(cpu - rc) \in Nat
    BY <1>1, <2>1, CoveredParts
  <2>3. /\ refund_net' = [refund_net EXCEPT ![owner] = NonNegative(rn - net)]
        /\ refund_cpu' = [refund_cpu EXCEPT ![owner] = NonNegative(rc - cpu)]
        /\ age' = [age EXCEPT ![owner] =
                     IF refund_net'[owner] + refund_cpu'[owner] = 0 THEN 0 ELSE @]
    <3>1. ~ (net < 0) /\ ~ (cpu < 0)
      BY <1>1
    <3>. QED  BY <1>5, <3>1, Zenon DEF UpdateRefund
  <2>4. /\ NotCovered(owner, net, cpu) = NonNegative(net - rn) + NonNegative(cpu - rc)
        /\ balance[from] >= NotCovered(owner, net, cpu)
        /\ balance' = [balance EXCEPT ![from] = @ - NotCovered(owner, net, cpu)]
    BY <1>5 DEF NotCovered, PayStake
  <2>. HIDE DEF rn, rc
  <2>5. amount - (cn + cc) = NonNegative(net - rn) + NonNegative(cpu - rc)
    BY <1>1, <2>2 DEF amount
  <2>. HIDE DEF cn, cc
  <2>6. /\ cn + cc \in 0 .. 2 * MaxDelta /\ cn + cc <= amount /\ cn + cc <= rn + rc
    BY <1>1, <2>1, <2>2 DEF amount
  <2>7. refund_net'[owner] = rn - cn /\ refund_cpu'[owner] = rc - cc
    <3>1. /\ refund_net'[owner] = NonNegative(rn - net)
          /\ refund_cpu'[owner] = NonNegative(rc - cpu)
      BY <1>1, <2>3 DEF EscrowTypes
    <3>. QED  BY <2>1, <2>2, <3>1
  <2>8. \A a \in Accounts : a # owner =>
          refund_net'[a] = refund_net[a] /\ refund_cpu'[a] = refund_cpu[a] /\ age'[a] = age[a]
    BY <2>3 DEF EscrowTypes
  <2>9. Pending' = [Pending EXCEPT ![owner] = @ - (cn + cc)]
    <3>1. cn \in Nat /\ cc \in Nat
      BY <1>1, <2>2
    <3>2. refund_net'[owner] + refund_cpu'[owner] = (rn + rc) - (cn + cc)
      BY <2>1, <2>7, <3>1
    <3>3. Pending[owner] = rn + rc
      BY <1>1 DEF Pending, RefundAmount, rn, rc
    <3>4. refund_net'[owner] + refund_cpu'[owner] = Pending[owner] - (cn + cc)
      BY <3>2, <3>3
    <3>. HIDE DEF Pending
    <3>. QED  BY <1>1, <2>8, <3>4, PendingUpdate
  <2>10. Pending'[owner] = refund_net'[owner] + refund_cpu'[owner] /\ Pending[owner] = rn + rc
    BY <1>1 DEF Pending, RefundAmount, rn, rc
  <2>11. /\ cn + cc <= Pending[owner]
         /\ age' = [age EXCEPT ![owner] = IF Pending'[owner] = 0 THEN 0 ELSE @]
         /\ balance[from] >= amount - (cn + cc)
         /\ balance' = [balance EXCEPT ![from] = @ - (amount - (cn + cc))]
    BY <2>3, <2>4, <2>5, <2>6, <2>10
  <2>12. Escrow!Stake(from, owner, amount, cn + cc)
    BY <1>3, <1>5, <2>6, <2>9, <2>11 DEF Escrow!Stake, Pending
  <2>13. Unaged'
    BY <1>1, <2>3, <2>8 DEF Unaged, RefundAmount, EscrowTypes
  <2>. QED  BY <1>4, <2>6, <2>12, <2>13
<1>6. CASE PayStake(from, net + cpu) /\ UNCHANGED refunds
  <2>1. /\ refund_net' = refund_net /\ refund_cpu' = refund_cpu /\ age' = age
        /\ balance[from] >= amount /\ balance' = [balance EXCEPT ![from] = @ - amount]
        /\ 0 > 0 => from = owner
    BY <1>6 DEF refunds, PayStake, amount
  <2>2. Pending' = Pending /\ Unaged'
    BY <2>1 DEF Pending, RefundAmount, Unaged
  <2>3. /\ Pending[owner] \in Nat
        /\ Pending' = [Pending EXCEPT ![owner] = @ - 0]
        /\ age' = [age EXCEPT ![owner] = IF Pending'[owner] = 0 THEN 0 ELSE @]
    BY <1>1, <2>1, <2>2 DEF Pending, Unaged, RefundAmount, EscrowTypes
  <2>4. amount - 0 = amount /\ 0 <= amount /\ 0 \in 0 .. 2 * MaxDelta
    BY <1>1, MaxDeltaAssumption
  <2>5. /\ 0 <= Pending[owner] /\ balance[from] >= amount - 0
        /\ balance' = [balance EXCEPT ![from] = @ - (amount - 0)]
    <3>1. 0 <= Pending[owner]
      <4>. HIDE DEF Pending
      <4>. QED  BY <2>3
    <3>2. /\ balance[from] >= amount - 0
          /\ balance' = [balance EXCEPT ![from] = @ - (amount - 0)]
      BY <2>1, <2>4, Zenon
    <3>. QED  BY <3>1, <3>2
  <2>6. Escrow!Stake(from, owner, amount, 0)
    BY <1>3, <2>1, <2>3, <2>4, <2>5, Zenon DEF Escrow!Stake, Pending
  <2>. QED  BY <1>4, <2>2, <2>4, <2>6
<1>. QED  BY <1>2, <1>5, <1>6

LEMMA DecreaseIsUnstake ==
  ASSUME EscrowTypes, Unaged, NEW from \in Accounts, NEW receiver \in Accounts,
         NEW net \in Amounts, NEW cpu \in Amounts, UndelegateBW(from, receiver, net, cpu)
  PROVE  Escrow!Next /\ Unaged'
<1>. DEFINE amount == net + cpu
            rn == refund_net[from]
            rc == refund_cpu[from]
<1>1. /\ net \in Nat /\ cpu \in Nat /\ amount \in 1 .. 2 * MaxDelta
      /\ (- net) + (- cpu) < 0 /\ rn \in Nat /\ rc \in Nat
  BY MaxDeltaAssumption DEF UndelegateBW, Amounts, EscrowTypes
<1>2. /\ PayStake(from, NotCovered(from, - net, - cpu)) /\ UpdateRefund(from, - net, - cpu)
      /\ UpdateVotingPower(from, (- net) + (- cpu))
  BY <1>1 DEF UndelegateBW, ChangeBW
<1>3. /\ NonNegative((- net) - rn) = 0 /\ NonNegative((- cpu) - rc) = 0
      /\ NonNegative(rn - (- net)) = rn + net /\ NonNegative(rc - (- cpu)) = rc + cpu
      /\ (- net < 0) \/ (- cpu < 0)
  BY <1>1 DEF NonNegative
<1>4. NotCovered(from, - net, - cpu) = 0
  BY <1>3 DEF NotCovered
<1>5. balance' = balance
  BY <1>2, <1>4 DEF PayStake, EscrowTypes
<1>6. /\ refund_net' = [refund_net EXCEPT ![from] = rn + net]
      /\ refund_cpu' = [refund_cpu EXCEPT ![from] = rc + cpu]
      /\ age' = [age EXCEPT ![from] = 0]
  BY <1>2, <1>3 DEF UpdateRefund
<1>7. staked[from] >= amount /\ staked' = [staked EXCEPT ![from] = @ - amount]
  <2>1. /\ staked[from] + ((- net) + (- cpu)) >= 0
        /\ staked' = [staked EXCEPT ![from] = @ + ((- net) + (- cpu))]
    BY <1>2 DEF UpdateVotingPower
  <2>2. staked[from] \in Nat /\ staked[from] + ((- net) + (- cpu)) = staked[from] - amount
    BY <1>1 DEF EscrowTypes
  <2>3. staked' = [staked EXCEPT ![from] = staked[from] - amount]
    BY <2>1, <2>2, Zenon
  <2>4. staked[from] - amount >= 0
    BY <2>1, <2>2
  <2>. HIDE DEF amount
  <2>. QED  BY <1>1, <2>2, <2>3, <2>4
<1>. HIDE DEF amount, rn, rc
<1>8. \A a \in Accounts : a # from =>
        refund_net'[a] = refund_net[a] /\ refund_cpu'[a] = refund_cpu[a] /\ age'[a] = age[a]
  BY <1>6 DEF EscrowTypes
<1>9. /\ refund_net'[from] = rn + net /\ refund_cpu'[from] = rc + cpu
      /\ age'[from] = 0
  BY <1>6 DEF EscrowTypes
<1>10. Pending' = [Pending EXCEPT ![from] = @ + amount]
  <2>1. refund_net'[from] + refund_cpu'[from] = Pending[from] + amount
    BY <1>1, <1>9 DEF rn, rc, amount, Pending, RefundAmount
  <2>. QED  BY <1>8, <2>1, PendingUpdate
<1>11. Escrow!Unstake(from, amount)
  BY <1>5, <1>6, <1>7, <1>10 DEF Escrow!Unstake, Pending
<1>12. Unaged'
  BY <1>8, <1>9 DEF Unaged, RefundAmount
<1>. QED  BY <1>1, <1>11, <1>12 DEF Escrow!Next

LEMMA PayIsRelease ==
  ASSUME EscrowTypes, Unaged, NEW owner \in Accounts, PayRefund(owner)
  PROVE  Escrow!Next /\ Unaged'
<1>1. /\ RefundAmount(owner) > 0 /\ age[owner] >= RefundDelay
      /\ balance' = [balance EXCEPT ![owner] = @ + RefundAmount(owner)]
      /\ refund_net' = [refund_net EXCEPT ![owner] = 0]
      /\ refund_cpu' = [refund_cpu EXCEPT ![owner] = 0]
      /\ age' = [age EXCEPT ![owner] = 0] /\ staked' = staked
  BY DEF PayRefund, Refundable, voter_rows
<1>2. /\ refund_net'[owner] = 0 /\ refund_cpu'[owner] = 0 /\ age'[owner] = 0
      /\ \A a \in Accounts : a # owner =>
           refund_net'[a] = refund_net[a] /\ refund_cpu'[a] = refund_cpu[a] /\ age'[a] = age[a]
  BY <1>1 DEF EscrowTypes
<1>3. Pending' = [Pending EXCEPT ![owner] = 0] /\ Pending[owner] = RefundAmount(owner)
  <2>1. refund_net'[owner] + refund_cpu'[owner] = 0
    BY <1>2
  <2>2. Pending[owner] = RefundAmount(owner)
    BY DEF Pending
  <2>. QED  BY <1>2, <2>1, <2>2, PendingUpdate
<1>4. Escrow!Release(owner)
  BY <1>1, <1>3 DEF Escrow!Release, Pending
<1>5. Unaged'
  BY <1>2 DEF Unaged, RefundAmount
<1>. QED  BY <1>4, <1>5 DEF Escrow!Next

LEMMA TickIsWait ==
  ASSUME EscrowTypes, Unaged, Tick
  PROVE  Escrow!Next /\ Unaged'
<1>1. /\ age' = [a \in Accounts |->
                   IF RefundAmount(a) > 0 /\ age[a] < RefundDelay THEN age[a] + 1 ELSE age[a]]
      /\ UNCHANGED <<balance, staked, refund_net, refund_cpu>>
  BY DEF Tick, voter_rows
<1>2. Pending' = Pending /\ \A a \in Accounts : Pending[a] = RefundAmount(a)
  BY <1>1 DEF Pending, RefundAmount
<1>3. age' = [a \in Accounts |->
                IF Pending[a] > 0 /\ age[a] < RefundDelay THEN age[a] + 1 ELSE age[a]]
  BY <1>1, <1>2
<1>4. Escrow!Wait
  BY <1>1, <1>2, <1>3 DEF Escrow!Wait, Pending
<1>5. Unaged'
  BY <1>1 DEF Unaged, RefundAmount, EscrowTypes
<1>. QED  BY <1>4, <1>5 DEF Escrow!Next

LEMMA EscrowStep ==
  IInv /\ Unaged /\ [Next]_vars => [Escrow!Next]_(Escrow!vars) /\ Unaged'
<1>. SUFFICES ASSUME IInv, Unaged, [Next]_vars
              PROVE  (Escrow!Next \/ UNCHANGED Escrow!vars) /\ Unaged'
  OBVIOUS
<1>1. EscrowTypes
  BY DEF IInv, Sound, TypeOK, EscrowTypes
<1>2. CASE \E from, receiver \in Accounts, net, cpu \in Amounts, transfer \in BOOLEAN :
             DelegateBW(from, receiver, net, cpu, transfer)
  BY <1>1, <1>2, IncreaseIsStake
<1>3. CASE \E from, receiver \in Accounts, net, cpu \in Amounts :
             UndelegateBW(from, receiver, net, cpu)
  BY <1>1, <1>3, DecreaseIsUnstake
<1>4. CASE \E owner \in Accounts : PayRefund(owner)
  BY <1>1, <1>4, PayIsRelease
<1>5. CASE Tick
  BY <1>1, <1>5, TickIsWait
<1>6. CASE UNCHANGED <<balance, staked, refunds>>
  <2>1. Pending' = Pending /\ Unaged'
    BY <1>6 DEF Pending, Unaged, RefundAmount, refunds
  <2>. QED  BY <1>6, <2>1 DEF Escrow!vars, Pending, refunds
<1>7. \/ \E owner \in Accounts : PayRefund(owner)
      \/ UNCHANGED <<balance, staked, refunds>>
      \/ ~ \E owner \in Accounts : Refund(owner) \/ RunDeferred(owner)
  BY DEF Refund, RunDeferred, voter_rows
<1>8. UNCHANGED vars => UNCHANGED <<balance, staked, refunds>>
  BY DEF vars, voter_rows
<1>. QED  BY <1>2, <1>3, <1>4, <1>5, <1>6, <1>7, <1>8 DEF Next

\* Staking implements the escrow: what is unstaked is liquid only after its
\* delay, and only a payer's own tokens and own refund pay for a stake.
THEOREM ImplementsEscrow == Spec => EscrowRefined
<1>1. Init => Unaged
  BY DEF Init, Unaged
<1>2. Init => Escrow!Init
  BY DEF Init, Escrow!Init, RefundAmount
<1>3. IInv /\ Unaged /\ [Next]_vars => IInv'
  BY NextInv
<1>. QED
  BY InitInv, EscrowStep, <1>1, <1>2, <1>3, PTL DEF Spec, EscrowRefined, Escrow!Spec

=============================================================================
