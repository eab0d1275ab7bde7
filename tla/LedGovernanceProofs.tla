------------------------- MODULE LedGovernanceProofs -------------------------
(***************************************************************************)
(* Theorems about led.msig and led.forum, where accounts decide together:  *)
(* for any set of proposals, levels, voters and accounts, any time, and    *)
(* whatever the transactions need.                                         *)
(***************************************************************************)
EXTENDS LedMsig, LedForum, FiniteSetTheorems, TLAPS

(***************************************************************************)
(* led.msig.  StaysExecutable is inductive beside the types: a copy of a   *)
(* level that leaves one list joins the other.  ExecutedIsApproved needs   *)
(* to know that each approval which exec counts is still a consent:        *)
(* Approve records it under the hash that the proposal has, Unapprove      *)
(* takes the oldest of both, only RemoveProposal changes the transaction   *)
(* and takes the approvals along, and an approval that Invalidate takes    *)
(* back does not count, being no younger than the invalidation.            *)
(***************************************************************************)
\* An approval that counts is a consent to the proposed transaction.
CountedIsConsent ==
  \A k \in Keys, l \in Levels : \A i \in 1 .. Len(provided[k][l]) :
    Counts(k, l, i) => consents[k][l][i] = trx[k]

\* Nothing is dated in the future.
DatedByNow ==
  /\ \A k \in Keys, l \in Levels : \A i \in 1 .. Len(provided[k][l]) : provided[k][l][i] <= now
  /\ \A a \in Accounts : invalidated[a] <= now

IInv == TypeOK /\ StaysExecutable /\ CountedIsConsent /\ DatedByNow

\* What approve and unapprove do to the list of one level.
LEMMA AppendOne ==
  ASSUME NEW S, NEW s \in Seq(S), NEW x \in S
  PROVE  /\ Append(s, x) \in Seq(S) /\ Append(s, x) # <<>>
         /\ Len(Append(s, x)) = Len(s) + 1
         /\ \A i \in 1 .. Len(s) : Append(s, x)[i] = s[i]
         /\ Append(s, x)[Len(s) + 1] = x
  OBVIOUS

LEMMA TailOne ==
  ASSUME NEW S, NEW s \in Seq(S), s # <<>>
  PROVE  /\ Tail(s) \in Seq(S)
         /\ Len(s) \in Nat \ {0} /\ Len(Tail(s)) = Len(s) - 1
         /\ \A i \in 1 .. Len(s) - 1 : Tail(s)[i] = s[i + 1]
  OBVIOUS

\* The types of one level's entries.
LEMMA LevelTypes ==
  ASSUME TypeOK, NEW k \in Keys, NEW l \in Levels
  PROVE  /\ requested[k][l] \in Nat
         /\ provided[k][l] \in Seq(Times) /\ consents[k][l] \in Seq(Trxs \cup {NoTrx})
         /\ Len(provided[k][l]) \in Nat /\ Len(consents[k][l]) = Len(provided[k][l])
         /\ \A i \in 1 .. Len(provided[k][l]) : provided[k][l][i] \in Times
         /\ provided[k][l] = <<>> <=> Len(provided[k][l]) = 0
<1>1. requested[k][l] \in 0 .. MaxCopies
  BY DEF TypeOK
<1>2. /\ provided[k][l] \in Seq(Times) /\ consents[k][l] \in Seq(Trxs \cup {NoTrx})
      /\ Len(consents[k][l]) = Len(provided[k][l])
  BY DEF TypeOK
<1>. QED  BY <1>1, <1>2, MsigAssumption

\* What TypeOK says of the rows of a proposal.
Rows(k, l) ==
  /\ trx[k] = NoTrx => requested[k][l] = 0 /\ provided[k][l] = <<>>
  /\ requested[k][l] + Len(provided[k][l]) <= MaxCopies
  /\ Len(consents[k][l]) = Len(provided[k][l])

LEMMA RowsOfTypes == TypeOK => \A k \in Keys, l \in Levels : Rows(k, l)
  BY DEF TypeOK, Rows

LEMMA TypesFromRows ==
  ASSUME now' \in Times, trx' \in [Keys -> Trxs \cup {NoTrx}],
         expiration' \in [Keys -> Times],
         requested' \in [Keys -> [Levels -> 0 .. MaxCopies]],
         provided' \in [Keys -> [Levels -> Seq(Times)]],
         invalidated' \in [Accounts -> {Never} \cup Times],
         deferred' \in [Keys -> Trxs \cup {NoTrx}],
         consents' \in [Keys -> [Levels -> Seq(Trxs \cup {NoTrx})]],
         \A k \in Keys, l \in Levels : Rows(k, l)'
  PROVE  TypeOK'
BY DEF TypeOK, Rows

LEMMA InitIInv == Init => IInv
<1>. SUFFICES ASSUME Init PROVE IInv
  OBVIOUS
<1>. USE MsigAssumption DEF Init
<1>1. \A k \in Keys, l \in Levels :
        requested[k][l] = 0 /\ provided[k][l] = <<>> /\ consents[k][l] = <<>>
  BY DEF NotRequested, NoApprovals
<1>2. /\ NotRequested \in [Levels -> 0 .. MaxCopies]
      /\ NoApprovals \in [Levels -> Seq(Times)]
      /\ NoApprovals \in [Levels -> Seq(Trxs \cup {NoTrx})]
  BY DEF NotRequested, NoApprovals
<1>3. TypeOK
  <2>1. /\ requested \in [Keys -> [Levels -> 0 .. MaxCopies]]
        /\ provided \in [Keys -> [Levels -> Seq(Times)]]
        /\ consents \in [Keys -> [Levels -> Seq(Trxs \cup {NoTrx})]]
    BY <1>2
  <2>2. \A k \in Keys, l \in Levels :
          /\ requested[k][l] + Len(provided[k][l]) <= MaxCopies
          /\ Len(consents[k][l]) = Len(provided[k][l])
    BY <1>1
  <2>3. /\ now \in Times /\ expiration \in [Keys -> Times]
        /\ invalidated \in [Accounts -> {Never} \cup Times]
    BY DEF Times, Never
  <2>. QED  BY <1>1, <2>1, <2>2, <2>3 DEF TypeOK
<1>4. StaysExecutable /\ CountedIsConsent
  BY <1>1 DEF StaysExecutable, CountedIsConsent
<1>5. DatedByNow
  BY <1>1 DEF DatedByNow, Never
<1>. QED  BY <1>3, <1>4, <1>5 DEF IInv

-----------------------------------------------------------------------------
LEMMA ProposeKeeps ==
  ASSUME IInv, NEW k \in Keys, NEW t \in Trxs, NEW expires \in Times,
         NEW copies \in [Levels -> 0 .. MaxCopies], Propose(k, t, expires, copies)
  PROVE  IInv'
<1>. USE MsigAssumption DEF IInv
<1>1. /\ trx' = [trx EXCEPT ![k] = t] /\ requested' = [requested EXCEPT ![k] = copies]
      /\ expiration' = [expiration EXCEPT ![k] = expires]
      /\ trx[k] = NoTrx /\ t # NoTrx /\ Authorized(t, Asked(copies))
      /\ UNCHANGED <<now, provided, invalidated, deferred, consents>>
  BY DEF Propose
<1>2. \A l \in Levels : provided[k][l] = <<>> /\ Len(provided[k][l]) = 0
  BY <1>1 DEF TypeOK
<1>3. TypeOK'
  <2>1. /\ trx' \in [Keys -> Trxs \cup {NoTrx}] /\ expiration' \in [Keys -> Times]
        /\ requested' \in [Keys -> [Levels -> 0 .. MaxCopies]]
    BY <1>1 DEF TypeOK
  <2>2. ASSUME NEW j \in Keys, NEW l \in Levels PROVE Rows(j, l)'
    <3>. Rows(j, l)
      BY RowsOfTypes
    <3>1. CASE j = k
      <4>1. requested'[j][l] = copies[l] /\ copies[l] \in 0 .. MaxCopies /\ trx'[j] = t
        BY <1>1, <3>1 DEF TypeOK
      <4>. QED  BY <1>1, <1>2, <3>1, <4>1 DEF Rows
    <3>2. CASE j # k
      <4>1. requested'[j] = requested[j] /\ trx'[j] = trx[j]
        BY <1>1, <3>2 DEF TypeOK
      <4>. QED  BY <1>1, <4>1 DEF Rows
    <3>. QED  BY <3>1, <3>2
  <2>3. /\ now' \in Times /\ provided' \in [Keys -> [Levels -> Seq(Times)]]
        /\ invalidated' \in [Accounts -> {Never} \cup Times]
        /\ deferred' \in [Keys -> Trxs \cup {NoTrx}]
        /\ consents' \in [Keys -> [Levels -> Seq(Trxs \cup {NoTrx})]]
    BY <1>1 DEF TypeOK
  <2>. QED  BY <2>1, <2>2, <2>3, TypesFromRows
<1>4. StaysExecutable'
  BY <1>1 DEF StaysExecutable, Provided, Authorized, Asked, TypeOK
<1>5. CountedIsConsent'
  <2>. SUFFICES ASSUME NEW j \in Keys, NEW l \in Levels, NEW i \in 1 .. Len(provided[j][l]),
                       Counts(j, l, i)
                PROVE  consents[j][l][i] = trx'[j]
    BY <1>1 DEF CountedIsConsent, Counts
  <2>1. j # k
    BY <1>2
  <2>. QED  BY <1>1, <2>1 DEF CountedIsConsent, TypeOK
<1>6. DatedByNow'
  BY <1>1 DEF DatedByNow
<1>. QED  BY <1>3, <1>4, <1>5, <1>6

LEMMA ApproveKeeps ==
  ASSUME IInv, NEW k \in Keys, NEW l \in Levels, NEW hash \in Trxs \cup {NoTrx},
         Approve(k, l, hash)
  PROVE  IInv'
<1>. USE MsigAssumption DEF IInv
<1>. DEFINE n == Len(provided[k][l])
<1>0. /\ requested[k][l] \in Nat
      /\ provided[k][l] \in Seq(Times) /\ consents[k][l] \in Seq(Trxs \cup {NoTrx})
      /\ n \in Nat /\ Len(consents[k][l]) = n
  BY LevelTypes
<1>1. /\ requested' = [requested EXCEPT ![k][l] = @ - 1]
      /\ provided' = [provided EXCEPT ![k][l] = Append(@, now)]
      /\ consents' = [consents EXCEPT ![k][l] = Append(@, trx[k])]
      /\ trx[k] \in Trxs /\ requested[k][l] > 0 /\ now \in Times
      /\ UNCHANGED <<now, trx, expiration, invalidated, deferred>>
  <2>1. requested[k][l] > 0 /\ now \in Times
    BY DEF Approve, TypeOK
  <2>2. trx[k] \in Trxs
    BY <2>1 DEF TypeOK
  <2>3. (IF hash = NoTrx THEN trx[k] ELSE hash) = trx[k]
    BY DEF Approve, HashMatches
  <2>. QED  BY <2>1, <2>2, <2>3 DEF Approve
<1>2. /\ requested'[k][l] = requested[k][l] - 1
      /\ provided'[k][l] = Append(provided[k][l], now)
      /\ consents'[k][l] = Append(consents[k][l], trx[k])
  BY <1>1 DEF TypeOK
<1>3. \A j \in Keys, m \in Levels : ~ (j = k /\ m = l) =>
        /\ requested'[j][m] = requested[j][m] /\ provided'[j][m] = provided[j][m]
        /\ consents'[j][m] = consents[j][m]
  BY <1>1 DEF TypeOK
<1>4. /\ provided'[k][l] \in Seq(Times) /\ provided'[k][l] # <<>>
      /\ Len(provided'[k][l]) = n + 1
      /\ \A i \in 1 .. n : provided'[k][l][i] = provided[k][l][i]
      /\ provided'[k][l][n + 1] = now
  BY <1>0, <1>1, <1>2, AppendOne
<1>5. /\ consents'[k][l] \in Seq(Trxs \cup {NoTrx})
      /\ Len(consents'[k][l]) = n + 1
      /\ \A i \in 1 .. n : consents'[k][l][i] = consents[k][l][i]
      /\ consents'[k][l][n + 1] = trx[k]
  <2>. DEFINE c == consents[k][l]
              S == Trxs \cup {NoTrx}
  <2>1. trx[k] \in S /\ c \in Seq(S) /\ Len(c) = n /\ consents'[k][l] = Append(c, trx[k])
    BY <1>0, <1>1, <1>2
  <2>2. /\ Append(c, trx[k]) \in Seq(S) /\ Len(Append(c, trx[k])) = Len(c) + 1
        /\ \A i \in 1 .. Len(c) : Append(c, trx[k])[i] = c[i]
        /\ Append(c, trx[k])[Len(c) + 1] = trx[k]
    <3>. HIDE DEF c, S
    <3>. QED  BY <2>1, AppendOne
  <2>. QED  BY <2>1, <2>2
<1>. HIDE DEF n
<1>6. TypeOK'
  <2>1. provided' \in [Keys -> [Levels -> Seq(Times)]]
    BY <1>1, <1>2, <1>4 DEF TypeOK
  <2>2. consents' \in [Keys -> [Levels -> Seq(Trxs \cup {NoTrx})]]
    BY <1>1, <1>2, <1>5 DEF TypeOK
  <2>3. requested[k][l] - 1 \in 0 .. MaxCopies
    BY <1>1 DEF TypeOK
  <2>4. requested' \in [Keys -> [Levels -> 0 .. MaxCopies]]
    BY <1>1, <2>3 DEF TypeOK
  <2>5. ASSUME NEW j \in Keys, NEW m \in Levels PROVE Rows(j, m)'
    <3>. Rows(j, m)
      BY RowsOfTypes
    <3>1. CASE j = k /\ m = l
      <4>1. requested[k][l] + n <= MaxCopies
        BY <3>1 DEF Rows, n
      <4>2. requested'[k][l] + Len(provided'[k][l]) <= MaxCopies
        BY <1>0, <1>2, <1>4, <4>1
      <4>. QED  BY <1>1, <1>4, <1>5, <3>1, <4>2 DEF Rows
    <3>2. CASE ~ (j = k /\ m = l)
      BY <1>1, <1>3, <3>2 DEF Rows
    <3>. QED  BY <3>1, <3>2
  <2>6. /\ now' \in Times /\ trx' \in [Keys -> Trxs \cup {NoTrx}]
        /\ expiration' \in [Keys -> Times]
        /\ invalidated' \in [Accounts -> {Never} \cup Times]
        /\ deferred' \in [Keys -> Trxs \cup {NoTrx}]
    BY <1>1 DEF TypeOK
  <2>. QED  BY <2>1, <2>2, <2>4, <2>5, <2>6, TypesFromRows
<1>7. StaysExecutable'
  <2>1. ASSUME NEW j \in Keys, NEW m \in Levels
        PROVE  (m \in Asked(requested[j]) \cup Provided(j))
                 => (m \in Asked(requested'[j]) \cup Provided(j)')
    BY <1>3, <1>4 DEF Asked, Provided
  <2>2. \A j \in Keys :
          Asked(requested[j]) \cup Provided(j) \subseteq Asked(requested'[j]) \cup Provided(j)'
    BY <2>1 DEF Asked, Provided
  <2>. QED  BY <1>1, <2>2 DEF StaysExecutable, Authorized
<1>8. CountedIsConsent'
  <2>. SUFFICES ASSUME NEW j \in Keys, NEW m \in Levels,
                       NEW i \in 1 .. Len(provided'[j][m]), Counts(j, m, i)'
                PROVE  consents'[j][m][i] = trx[j]
    BY <1>1 DEF CountedIsConsent
  <2>1. CASE j = k /\ m = l /\ i = n + 1
    BY <1>5, <2>1
  <2>2. CASE j = k /\ m = l /\ i # n + 1
    <3>1. i \in 1 .. n
      BY <1>0, <1>4, <2>2
    <3>2. provided'[j][m][i] = provided[j][m][i] /\ consents'[j][m][i] = consents[j][m][i]
      BY <1>4, <1>5, <2>2, <3>1
    <3>3. Counts(j, m, i)
      BY <1>1, <3>2 DEF Counts
    <3>. QED  BY <2>2, <3>1, <3>2, <3>3 DEF CountedIsConsent, n
  <2>3. CASE ~ (j = k /\ m = l)
    BY <1>1, <1>3, <2>3 DEF CountedIsConsent, Counts
  <2>. QED  BY <2>1, <2>2, <2>3
<1>9. DatedByNow'
  <2>. SUFFICES ASSUME NEW j \in Keys, NEW m \in Levels, NEW i \in 1 .. Len(provided'[j][m])
                PROVE  provided'[j][m][i] <= now
    BY <1>1 DEF DatedByNow
  <2>1. CASE j = k /\ m = l /\ i = n + 1
    BY <1>1, <1>4, <2>1 DEF Times
  <2>2. CASE j = k /\ m = l /\ i # n + 1
    <3>1. i \in 1 .. n
      BY <1>0, <1>4, <2>2
    <3>. QED  BY <1>4, <2>2, <3>1 DEF DatedByNow, n
  <2>3. CASE ~ (j = k /\ m = l)
    BY <1>3, <2>3 DEF DatedByNow
  <2>. QED  BY <2>1, <2>2, <2>3
<1>. QED  BY <1>6, <1>7, <1>8, <1>9

LEMMA UnapproveKeeps ==
  ASSUME IInv, NEW k \in Keys, NEW l \in Levels, Unapprove(k, l)
  PROVE  IInv'
<1>. USE MsigAssumption DEF IInv
<1>. DEFINE n == Len(provided[k][l])
<1>0. /\ requested[k][l] \in Nat
      /\ provided[k][l] \in Seq(Times) /\ consents[k][l] \in Seq(Trxs \cup {NoTrx})
      /\ n \in Nat /\ Len(consents[k][l]) = n
  BY LevelTypes
<1>1. /\ requested' = [requested EXCEPT ![k][l] = @ + 1]
      /\ provided' = [provided EXCEPT ![k][l] = Tail(@)]
      /\ consents' = [consents EXCEPT ![k][l] = Tail(@)]
      /\ provided[k][l] # <<>>
      /\ UNCHANGED <<now, trx, expiration, invalidated, deferred>>
  BY DEF Unapprove
<1>2. /\ requested'[k][l] = requested[k][l] + 1
      /\ provided'[k][l] = Tail(provided[k][l])
      /\ consents'[k][l] = Tail(consents[k][l])
  BY <1>1 DEF TypeOK
<1>3. \A j \in Keys, m \in Levels : ~ (j = k /\ m = l) =>
        /\ requested'[j][m] = requested[j][m] /\ provided'[j][m] = provided[j][m]
        /\ consents'[j][m] = consents[j][m]
  BY <1>1 DEF TypeOK
<1>4. /\ provided'[k][l] \in Seq(Times)
      /\ n > 0 /\ Len(provided'[k][l]) = n - 1
      /\ \A i \in 1 .. n - 1 : provided'[k][l][i] = provided[k][l][i + 1]
  <2>1. Len(provided[k][l]) \in Nat \ {0}
    BY <1>0, <1>1, TailOne
  <2>2. /\ Tail(provided[k][l]) \in Seq(Times) /\ Len(Tail(provided[k][l])) = n - 1
        /\ \A i \in 1 .. n - 1 : Tail(provided[k][l])[i] = provided[k][l][i + 1]
    BY <1>0, <1>1, TailOne
  <2>. QED  BY <1>2, <2>1, <2>2
<1>5. /\ consents'[k][l] \in Seq(Trxs \cup {NoTrx})
      /\ Len(consents'[k][l]) = n - 1
      /\ \A i \in 1 .. n - 1 : consents'[k][l][i] = consents[k][l][i + 1]
  <2>1. consents[k][l] # <<>>
    BY <1>0, <1>4
  <2>. QED  BY <1>0, <1>2, <2>1, TailOne
<1>. HIDE DEF n
<1>6. trx[k] # NoTrx /\ requested[k][l] + n <= MaxCopies
  BY <1>1 DEF TypeOK, n
<1>7. TypeOK'
  <2>1. provided' \in [Keys -> [Levels -> Seq(Times)]]
    BY <1>1, <1>2, <1>4 DEF TypeOK
  <2>2. consents' \in [Keys -> [Levels -> Seq(Trxs \cup {NoTrx})]]
    BY <1>1, <1>2, <1>5 DEF TypeOK
  <2>3. requested[k][l] + 1 \in 0 .. MaxCopies
    BY <1>0, <1>4, <1>6
  <2>4. requested' \in [Keys -> [Levels -> 0 .. MaxCopies]]
    BY <1>1, <2>3 DEF TypeOK
  <2>5. ASSUME NEW j \in Keys, NEW m \in Levels PROVE Rows(j, m)'
    <3>. Rows(j, m)
      BY RowsOfTypes
    <3>1. CASE j = k /\ m = l
      <4>1. requested'[k][l] + Len(provided'[k][l]) <= MaxCopies
        BY <1>0, <1>2, <1>4, <1>6
      <4>. QED  BY <1>1, <1>4, <1>5, <1>6, <3>1, <4>1 DEF Rows
    <3>2. CASE ~ (j = k /\ m = l)
      BY <1>1, <1>3, <3>2 DEF Rows
    <3>. QED  BY <3>1, <3>2
  <2>6. /\ now' \in Times /\ trx' \in [Keys -> Trxs \cup {NoTrx}]
        /\ expiration' \in [Keys -> Times]
        /\ invalidated' \in [Accounts -> {Never} \cup Times]
        /\ deferred' \in [Keys -> Trxs \cup {NoTrx}]
    BY <1>1 DEF TypeOK
  <2>. QED  BY <2>1, <2>2, <2>4, <2>5, <2>6, TypesFromRows
<1>8. StaysExecutable'
  <2>1. requested'[k][l] > 0
    BY <1>0, <1>2
  <2>2. ASSUME NEW j \in Keys, NEW m \in Levels
        PROVE  (m \in Asked(requested[j]) \cup Provided(j))
                 => (m \in Asked(requested'[j]) \cup Provided(j)')
    BY <1>3, <2>1 DEF Asked, Provided
  <2>3. \A j \in Keys :
          Asked(requested[j]) \cup Provided(j) \subseteq Asked(requested'[j]) \cup Provided(j)'
    BY <2>2 DEF Asked, Provided
  <2>. QED  BY <1>1, <2>3 DEF StaysExecutable, Authorized
<1>9. CountedIsConsent' /\ DatedByNow'
  <2>1. ASSUME NEW i \in 1 .. Len(provided'[k][l])
        PROVE  /\ provided'[k][l][i] = provided[k][l][i + 1]
               /\ consents'[k][l][i] = consents[k][l][i + 1]
               /\ i + 1 \in 1 .. Len(provided[k][l])
    <3>1. i \in 1 .. n - 1 /\ i + 1 \in 1 .. n
      BY <1>0, <1>4
    <3>. QED  BY <1>4, <1>5, <3>1 DEF n
  <2>2. ASSUME NEW j \in Keys, NEW m \in Levels, NEW i \in 1 .. Len(provided'[j][m]),
               Counts(j, m, i)'
        PROVE  consents'[j][m][i] = trx[j]
    <3>1. CASE j = k /\ m = l
      <4>1. Counts(k, l, i + 1)
        BY <1>1, <2>1, <2>2, <3>1 DEF Counts
      <4>. QED  BY <2>1, <3>1, <4>1 DEF CountedIsConsent
    <3>2. CASE ~ (j = k /\ m = l)
      BY <1>1, <1>3, <2>2, <3>2 DEF CountedIsConsent, Counts
    <3>. QED  BY <3>1, <3>2
  <2>3. ASSUME NEW j \in Keys, NEW m \in Levels, NEW i \in 1 .. Len(provided'[j][m])
        PROVE  provided'[j][m][i] <= now
    <3>1. CASE j = k /\ m = l
      BY <2>1, <3>1 DEF DatedByNow
    <3>2. CASE ~ (j = k /\ m = l)
      BY <1>3, <3>2 DEF DatedByNow
    <3>. QED  BY <3>1, <3>2
  <2>4. CountedIsConsent'
    BY <1>1, <2>2 DEF CountedIsConsent
  <2>5. DatedByNow'
    BY <1>1, <2>3 DEF DatedByNow
  <2>. QED  BY <2>4, <2>5
<1>. QED  BY <1>7, <1>8, <1>9

\* Both rows of the proposal go, whatever is deferred.
LEMMA RemoveProposalKeeps ==
  ASSUME IInv, NEW k \in Keys, RemoveProposal(k),
         UNCHANGED <<now, invalidated>>, deferred' \in [Keys -> Trxs \cup {NoTrx}]
  PROVE  IInv'
<1>. USE MsigAssumption DEF IInv
<1>1. /\ trx' = [trx EXCEPT ![k] = NoTrx]
      /\ expiration' = [expiration EXCEPT ![k] = 0]
      /\ requested' = [requested EXCEPT ![k] = NotRequested]
      /\ provided' = [provided EXCEPT ![k] = NoApprovals]
      /\ consents' = [consents EXCEPT ![k] = NoApprovals]
  BY DEF RemoveProposal
<1>2. /\ NotRequested \in [Levels -> 0 .. MaxCopies]
      /\ NoApprovals \in [Levels -> Seq(Times)]
      /\ NoApprovals \in [Levels -> Seq(Trxs \cup {NoTrx})]
      /\ \A l \in Levels : NotRequested[l] = 0 /\ NoApprovals[l] = <<>>
      /\ 0 \in Times
  BY DEF NoApprovals, NotRequested, Times
<1>3. /\ trx'[k] = NoTrx
      /\ \A l \in Levels : /\ requested'[k][l] = 0 /\ provided'[k][l] = <<>>
                           /\ consents'[k][l] = <<>>
                           /\ Len(provided'[k][l]) = 0 /\ Len(consents'[k][l]) = 0
  BY <1>1, <1>2 DEF TypeOK
<1>4. \A j \in Keys : j # k => /\ trx'[j] = trx[j] /\ requested'[j] = requested[j]
                               /\ provided'[j] = provided[j] /\ consents'[j] = consents[j]
  BY <1>1 DEF TypeOK
<1>5. TypeOK'
  <2>1. /\ trx' \in [Keys -> Trxs \cup {NoTrx}] /\ expiration' \in [Keys -> Times]
        /\ requested' \in [Keys -> [Levels -> 0 .. MaxCopies]]
        /\ provided' \in [Keys -> [Levels -> Seq(Times)]]
        /\ consents' \in [Keys -> [Levels -> Seq(Trxs \cup {NoTrx})]]
    BY <1>1, <1>2 DEF TypeOK
  <2>2. ASSUME NEW j \in Keys, NEW l \in Levels PROVE Rows(j, l)'
    <3>. Rows(j, l)
      BY RowsOfTypes
    <3>1. CASE j = k
      BY <1>3, <3>1 DEF Rows
    <3>2. CASE j # k
      BY <1>4, <3>2 DEF Rows
    <3>. QED  BY <3>1, <3>2
  <2>3. now' \in Times /\ invalidated' \in [Accounts -> {Never} \cup Times]
    BY DEF TypeOK
  <2>. QED  BY <2>1, <2>2, <2>3, TypesFromRows
<1>6. StaysExecutable'
  <2>. SUFFICES ASSUME NEW j \in Keys, trx'[j] # NoTrx
                PROVE  Authorized(trx'[j], Asked(requested'[j]) \cup Provided(j)')
    BY DEF StaysExecutable
  <2>1. j # k
    BY <1>3
  <2>2. Provided(j)' = Provided(j)
    BY <1>4, <2>1 DEF Provided
  <2>. QED  BY <1>4, <2>1, <2>2 DEF StaysExecutable, Authorized
<1>7. CountedIsConsent'
  <2>. SUFFICES ASSUME NEW j \in Keys, NEW l \in Levels,
                       NEW i \in 1 .. Len(provided'[j][l]), Counts(j, l, i)'
                PROVE  consents'[j][l][i] = trx'[j]
    BY DEF CountedIsConsent
  <2>1. j # k
    BY <1>3
  <2>. QED  BY <1>4, <2>1 DEF CountedIsConsent, Counts
<1>8. DatedByNow'
  <2>. SUFFICES ASSUME NEW j \in Keys, NEW l \in Levels, NEW i \in 1 .. Len(provided'[j][l])
                PROVE  provided'[j][l][i] <= now
    BY DEF DatedByNow
  <2>1. j # k
    BY <1>3
  <2>. QED  BY <1>4, <2>1 DEF DatedByNow
<1>. QED  BY <1>5, <1>6, <1>7, <1>8

LEMMA InvalidateKeeps ==
  ASSUME IInv, NEW a \in Accounts, Invalidate(a)
  PROVE  IInv'
<1>. USE MsigAssumption DEF IInv
<1>1. /\ invalidated' = [invalidated EXCEPT ![a] = now]
      /\ consents' = [k \in Keys |->
                       [l \in Levels |-> IF Actor[l] # a THEN consents[k][l]
                                        ELSE [i \in 1 .. Len(consents[k][l]) |-> NoTrx]]]
      /\ UNCHANGED <<now, trx, expiration, requested, provided, deferred>>
  BY DEF Invalidate
<1>2. ASSUME NEW k \in Keys, NEW l \in Levels
      PROVE  /\ consents'[k][l] \in Seq(Trxs \cup {NoTrx})
             /\ Len(consents'[k][l]) = Len(provided[k][l])
  <2>1. /\ consents[k][l] \in Seq(Trxs \cup {NoTrx}) /\ Len(provided[k][l]) \in Nat
        /\ Len(consents[k][l]) = Len(provided[k][l])
    BY LevelTypes
  <2>2. CASE Actor[l] # a
    BY <1>1, <2>1, <2>2
  <2>3. CASE Actor[l] = a
    <3>1. consents'[k][l] = [i \in 1 .. Len(provided[k][l]) |-> NoTrx]
      BY <1>1, <2>1, <2>3
    <3>. QED  BY <2>1, <3>1
  <2>. QED  BY <2>2, <2>3
<1>3. TypeOK'
  <2>1. consents' \in [Keys -> [Levels -> Seq(Trxs \cup {NoTrx})]]
    <3>1. \A k \in Keys : consents'[k] \in [Levels -> Seq(Trxs \cup {NoTrx})]
      BY <1>1, <1>2
    <3>. QED  BY <1>1, <3>1
  <2>2. invalidated' \in [Accounts -> {Never} \cup Times]
    BY <1>1 DEF TypeOK
  <2>. QED  BY <1>1, <1>2, <2>1, <2>2 DEF TypeOK
<1>4. StaysExecutable'
  BY <1>1 DEF StaysExecutable, Provided, Authorized, Asked
<1>5. CountedIsConsent'
  <2>. SUFFICES ASSUME NEW k \in Keys, NEW l \in Levels, NEW i \in 1 .. Len(provided[k][l]),
                       Counts(k, l, i)'
                PROVE  consents'[k][l][i] = trx[k]
    BY <1>1 DEF CountedIsConsent
  <2>1. Actor[l] # a
    <3>1. provided[k][l][i] <= now /\ provided[k][l][i] \in Int /\ now \in Int /\ now # Never
      <4>1. provided[k][l][i] \in Times /\ now \in Times
        BY LevelTypes DEF TypeOK
      <4>2. provided[k][l][i] <= now
        BY DEF DatedByNow
      <4>. QED  BY <4>1, <4>2 DEF Times, Never
    <3>2. Actor[l] = a => invalidated'[Actor[l]] = now
      BY <1>1 DEF TypeOK
    <3>. QED  BY <1>1, <3>1, <3>2 DEF Counts
  <2>2. Counts(k, l, i) /\ consents'[k][l] = consents[k][l]
    BY <1>1, <2>1 DEF Counts, TypeOK
  <2>. QED  BY <2>2 DEF CountedIsConsent
<1>6. DatedByNow'
  BY <1>1 DEF DatedByNow, TypeOK, Times
<1>. QED  BY <1>3, <1>4, <1>5, <1>6

LEMMA NextBlockKeeps ==
  ASSUME IInv, NextBlock
  PROVE  IInv'
<1>. USE MsigAssumption DEF IInv
<1>1. /\ now < LastBlock /\ now' = now + 1
      /\ UNCHANGED <<trx, expiration, requested, provided, invalidated, deferred, consents>>
  BY DEF NextBlock
<1>2. TypeOK'
  <2>1. now' \in Times
    BY <1>1 DEF TypeOK, Times
  <2>. QED  BY <1>1, <2>1 DEF TypeOK
<1>3. StaysExecutable'
  BY <1>1 DEF StaysExecutable, Authorized, Asked, Provided
<1>4. CountedIsConsent'
  BY <1>1 DEF CountedIsConsent, Counts
<1>5. DatedByNow'
  <2>1. now \in Int /\ \A t \in {Never} \cup Times : t \in Int /\ (t <= now => t <= now + 1)
    BY DEF TypeOK, Times, Never
  <2>2. \A k \in Keys, l \in Levels : \A i \in 1 .. Len(provided[k][l]) :
          provided[k][l][i] \in Times
    BY LevelTypes
  <2>3. \A a \in Accounts : invalidated[a] \in {Never} \cup Times
    BY DEF TypeOK
  <2>. QED  BY <1>1, <2>1, <2>2, <2>3 DEF DatedByNow
<1>. QED  BY <1>2, <1>3, <1>4, <1>5

LEMMA StepIInv == IInv /\ [Next]_vars => IInv'
<1>. SUFFICES ASSUME IInv, [Next]_vars PROVE IInv'
  OBVIOUS
<1>1. CASE \E k \in Keys, t \in Trxs, expires \in Times,
               copies \in [Levels -> 0 .. MaxCopies] : Propose(k, t, expires, copies)
  BY <1>1, ProposeKeeps
<1>2. CASE \E k \in Keys, l \in Levels, hash \in Trxs \cup {NoTrx} : Approve(k, l, hash)
  BY <1>2, ApproveKeeps
<1>3. CASE \E k \in Keys, l \in Levels : Unapprove(k, l)
  BY <1>3, UnapproveKeeps
<1>4. ASSUME NEW k \in Keys, NEW by_proposer \in BOOLEAN, Cancel(k, by_proposer)
      PROVE  IInv'
  BY <1>4, RemoveProposalKeeps DEF Cancel, IInv, TypeOK
<1>5. ASSUME NEW k \in Keys, Exec(k) PROVE IInv'
  <2>1. deferred' \in [Keys -> Trxs \cup {NoTrx}]
    BY <1>5 DEF Exec, IInv, TypeOK
  <2>. QED  BY <1>5, <2>1, RemoveProposalKeeps DEF Exec
<1>6. ASSUME NEW k \in Keys, RunDeferred(k) PROVE IInv'
  <2>1. /\ deferred' \in [Keys -> Trxs \cup {NoTrx}]
        /\ UNCHANGED <<now, trx, expiration, requested, provided, invalidated, consents>>
    BY <1>6 DEF RunDeferred, IInv, TypeOK
  <2>2. \A j \in Keys : Provided(j)' = Provided(j)
    BY <2>1 DEF Provided
  <2>3. StaysExecutable' /\ DatedByNow'
    BY <2>1, <2>2 DEF IInv, StaysExecutable, DatedByNow, Authorized, Asked
  <2>4. CountedIsConsent'
    BY <2>1 DEF IInv, CountedIsConsent, Counts
  <2>. QED
    BY <2>1, <2>3, <2>4 DEF IInv, TypeOK
<1>7. CASE \E a \in Accounts : Invalidate(a)
  BY <1>7, InvalidateKeeps
<1>8. CASE NextBlock
  BY <1>8, NextBlockKeeps
<1>9. CASE UNCHANGED vars
  <2>1. UNCHANGED <<now, trx, expiration, requested, provided, invalidated, deferred, consents>>
    BY <1>9 DEF vars
  <2>2. TypeOK'
    BY <2>1 DEF IInv, TypeOK
  <2>3. StaysExecutable' /\ DatedByNow'
    BY <2>1 DEF IInv, StaysExecutable, DatedByNow, Authorized, Asked, Provided
  <2>4. CountedIsConsent'
    BY <2>1 DEF IInv, CountedIsConsent, Counts
  <2>. QED  BY <2>2, <2>3, <2>4 DEF IInv
<1>. QED
  BY <1>1, <1>2, <1>3, <1>4, <1>5, <1>6, <1>7, <1>8, <1>9 DEF Next

LEMMA Invariance == Spec => []IInv
  BY InitIInv, StepIInv, PTL DEF Spec

-----------------------------------------------------------------------------
(* TypeOK: a proposal has both its rows or neither, and each copy of a     *)
(* level that was requested is in at most one of the lists.                *)
THEOREM RowsStand == Spec => []TypeOK
  BY Invariance, PTL DEF IInv

(* StaysExecutable: the levels asked and those that approved are always    *)
(* enough.                                                                 *)
THEOREM Executable == Spec => []StaysExecutable
  BY Invariance, PTL DEF IInv

(* ExecutedIsApproved: exec sends only what enough levels have approved    *)
(* and not taken back, by unapproving or by invalidating.                  *)
THEOREM ExecutedApproved == Spec => ExecutedIsApproved
<1>. DEFINE Approved ==
       \A k \in Keys :
         deferred'[k] \notin {deferred[k], NoTrx} =>
           Authorized(deferred'[k], Consenting(k, deferred'[k]))
<1>1. IInv /\ [Next]_vars => [Approved]_vars
  <2>. SUFFICES ASSUME IInv, [Next]_vars, NEW k \in Keys,
                       deferred'[k] \notin {deferred[k], NoTrx}
                PROVE  Authorized(deferred'[k], Consenting(k, deferred'[k]))
    OBVIOUS
  <2>. USE DEF IInv, TypeOK
  <2>1. PICK j \in Keys : Exec(j)
    <3>1. ~ UNCHANGED deferred
      OBVIOUS
    <3>2. ASSUME NEW j \in Keys, RunDeferred(j) PROVE FALSE
      BY <3>2 DEF RunDeferred
    <3>. QED
      BY <3>1, <3>2 DEF Next, vars, Propose, Approve, Unapprove, Cancel, Invalidate, NextBlock
  <2>2. /\ k = j /\ deferred'[k] = trx[k] /\ trx[k] # NoTrx
        /\ Authorized(trx[k], Counted(k))
    BY <2>1 DEF Exec
  <2>3. Counted(k) \subseteq Consenting(k, trx[k])
    BY <2>2 DEF CountedIsConsent, Counted, Consenting
  <2>. QED  BY <2>2, <2>3 DEF Authorized
<1>. QED
  BY <1>1, Invariance, PTL DEF Spec, ExecutedIsApproved

-----------------------------------------------------------------------------
(***************************************************************************)
(* led.forum.  TallyIsOfVotes is inductive beside the types: a vote moves  *)
(* the two counts by what it moves between the sides, and once a proposal  *)
(* is over votes may only leave, which the counts bound.                   *)
(***************************************************************************)
\* The voters of a proposal who are on a side, f being their votes.
On(f, side) == Cardinality({u \in Voters : f[u] = side})

LEMMA SideIsOn ==
  ASSUME NEW p, NEW side
  PROVE  Side(p, side) = On(vote[p], side) /\ Side(p, side)' = On(vote'[p], side)
BY DEF Side, On

\* Who is on a side, when v's vote changes.
LEMMA SideRecounted ==
  ASSUME NEW f \in [Voters -> {Agree, Disagree, NoVote}],
         NEW f2 \in [Voters -> {Agree, Disagree, NoVote}],
         NEW v \in Voters, NEW side \in {Agree, Disagree},
         \A u \in Voters \ {v} : f2[u] = f[u]
  PROVE  /\ On(f, side) \in Nat /\ On(f2, side) \in Nat
         /\ (f2[v] = side <=> f[v] = side) => On(f2, side) = On(f, side)
         /\ f2[v] = side /\ f[v] # side => On(f2, side) = On(f, side) + 1
         /\ f2[v] # side /\ f[v] = side => On(f2, side) = On(f, side) - 1
<1>. DEFINE rest == {u \in Voters : u # v /\ f[u] = side}
            A == {u \in Voters : f[u] = side}
            B == {u \in Voters : f2[u] = side}
<1>1. IsFiniteSet(rest) /\ v \notin rest
  <2>1. rest \subseteq Voters
    OBVIOUS
  <2>. QED  BY <2>1, ForumAssumption, FS_Subset
<1>2. Cardinality(rest) \in Nat /\ Cardinality(rest \cup {v}) = Cardinality(rest) + 1
  <2>. HIDE DEF rest
  <2>. QED  BY <1>1, FS_CardinalityType, FS_AddElement
<1>3. A = IF f[v] = side THEN rest \cup {v} ELSE rest
  OBVIOUS
<1>4. B = IF f2[v] = side THEN rest \cup {v} ELSE rest
  OBVIOUS
<1>5. Cardinality(A) = Cardinality(rest) + (IF f[v] = side THEN 1 ELSE 0)
  <2>. HIDE DEF rest, A
  <2>. QED  BY <1>2, <1>3
<1>6. Cardinality(B) = Cardinality(rest) + (IF f2[v] = side THEN 1 ELSE 0)
  <2>. HIDE DEF rest, B
  <2>. QED  BY <1>2, <1>4
<1>7. /\ Cardinality(A) \in Nat /\ Cardinality(B) \in Nat
      /\ (f2[v] = side <=> f[v] = side) => Cardinality(B) = Cardinality(A)
      /\ f2[v] = side /\ f[v] # side => Cardinality(B) = Cardinality(A) + 1
      /\ f2[v] # side /\ f[v] = side => Cardinality(B) = Cardinality(A) - 1
  <2>. HIDE DEF rest, A, B
  <2>. QED  BY <1>2, <1>5, <1>6
<1>. QED  BY <1>7 DEF On

ForumInv == ForumTypeOK /\ TallyIsOfVotes

LEMMA SideType ==
  ASSUME ForumInv, NEW p \in Proposals, NEW side
  PROVE  Side(p, side) \in Nat
<1>1. {v \in Voters : vote[p][v] = side} \subseteq Voters
  OBVIOUS
<1>2. IsFiniteSet({v \in Voters : vote[p][v] = side})
  BY <1>1, ForumAssumption, FS_Subset
<1>. QED  BY <1>2, FS_CardinalityType DEF Side

LEMMA ForumInitInv == ForumInit => ForumInv
<1>. SUFFICES ASSUME ForumInit PROVE ForumInv
  OBVIOUS
<1>1. ForumTypeOK
  BY ForumAssumption DEF ForumInit, ForumTypeOK
<1>2. TallyIsOfVotes
  BY DEF ForumInit, TallyIsOfVotes
<1>. QED  BY <1>1, <1>2 DEF ForumInv

\* A recount in the place of an old vote keeps the tally of an open proposal.
LEMMA RecountKeeps ==
  ASSUME ForumInv, NEW p \in proposals, ~ is_expired(p),
         NEW v \in Voters, NEW new \in {Agree, Disagree, NoVote},
         Recount(p, vote[p][v], new),
         vote' = [vote EXCEPT ![p][v] = new],
         UNCHANGED <<time, proposals, expires_at, pass>>
  PROVE  ForumInv'
<1>. USE ForumAssumption DEF ForumInv
<1>. DEFINE old == vote[p][v]
<1>1. /\ p \in Proposals /\ vote[p] \in [Voters -> {Agree, Disagree, NoVote}]
      /\ count_agree[p] \in Nat /\ count_disagree[p] \in Nat
  BY DEF ForumTypeOK
<1>2. vote'[p] = [vote[p] EXCEPT ![v] = new] /\ \A q \in Proposals \ {p} : vote'[q] = vote[q]
  BY <1>1 DEF ForumTypeOK
<1>3. count_agree[p] = On(vote[p], Agree) /\ count_disagree[p] = On(vote[p], Disagree)
  BY SideIsOn DEF TallyIsOfVotes
<1>4. \A u \in Voters \ {v} : vote'[p][u] = vote[p][u]
  BY <1>1, <1>2
<1>5. vote'[p][v] = new
  BY <1>1, <1>2
<1>6. ASSUME NEW s \in {Agree, Disagree}
      PROVE  /\ On(vote'[p], s) \in Nat
             /\ On(vote'[p], s) = On(vote[p], s) + One(new = s) - One(old = s)
  <2>. DEFINE f == vote[p]
              f2 == vote'[p]
  <2>1. /\ (\A u \in Voters \ {v} : f2[u] = f[u]) /\ f2[v] = new
        /\ f \in [Voters -> {Agree, Disagree, NoVote}]
        /\ f2 \in [Voters -> {Agree, Disagree, NoVote}]
    BY <1>1, <1>2, <1>4, <1>5
  <2>2. /\ On(f, s) \in Nat /\ On(f2, s) \in Nat
        /\ (f2[v] = s <=> f[v] = s) => On(f2, s) = On(f, s)
        /\ f2[v] = s /\ f[v] # s => On(f2, s) = On(f, s) + 1
        /\ f2[v] # s /\ f[v] = s => On(f2, s) = On(f, s) - 1
    <3>. HIDE DEF f, f2
    <3>. QED  BY <2>1, SideRecounted
  <2>. QED  BY <2>1, <2>2 DEF One
<1>7. /\ count_agree'[p] = On(vote'[p], Agree)
      /\ count_disagree'[p] = On(vote'[p], Disagree)
  <2>. HIDE DEF old
  <2>1. /\ count_agree'[p] = count_agree[p] + One(new = Agree)
                                            - One(old = Agree)
        /\ count_disagree'[p] = count_disagree[p] + One(new = Disagree)
                                                  - One(old = Disagree)
    BY <1>1 DEF Recount, ForumTypeOK, old
  <2>. QED  BY <1>3, <1>6, <2>1
<1>8. /\ count_agree' = [count_agree EXCEPT ![p] = count_agree'[p]]
      /\ count_disagree' = [count_disagree EXCEPT ![p] = count_disagree'[p]]
      /\ count_agree'[p] \in Nat /\ count_disagree'[p] \in Nat
  <2>1. count_agree'[p] \in Nat /\ count_disagree'[p] \in Nat
    BY <1>6, <1>7
  <2>. QED  BY <1>1, <2>1 DEF Recount, ForumTypeOK
<1>9. ForumTypeOK'
  <2>1. vote' \in [Proposals -> [Voters -> {Agree, Disagree, NoVote}]]
    BY <1>1 DEF ForumTypeOK
  <2>. QED  BY <1>2, <1>8, <2>1 DEF ForumTypeOK
<1>10. TallyIsOfVotes'
  <2>1. ASSUME NEW q \in proposals, q # p
        PROVE  count_agree'[q] = count_agree[q] /\ count_disagree'[q] = count_disagree[q]
               /\ vote'[q] = vote[q]
    BY <1>2, <1>8, <2>1 DEF ForumTypeOK
  <2>2. On(vote'[p], Agree) \in Nat /\ On(vote'[p], Disagree) \in Nat
    BY <1>6
  <2>3. \A q \in proposals : q # p =>
           /\ count_agree'[q] >= On(vote'[q], Agree)
           /\ count_disagree'[q] >= On(vote'[q], Disagree)
           /\ time < expires_at[q] => /\ count_agree'[q] = On(vote'[q], Agree)
                                     /\ count_disagree'[q] = On(vote'[q], Disagree)
    BY <2>1, SideIsOn DEF TallyIsOfVotes, is_expired, ForumTypeOK
  <2>4. \A q \in proposals : time' >= expires_at'[q] \/ time < expires_at[q]
    BY DEF ForumTypeOK
  <2>. QED  BY <1>7, <2>2, <2>3, <2>4, SideIsOn DEF TallyIsOfVotes, is_expired
<1>. QED  BY <1>9, <1>10

\* A vote that is taken back after the end leaves the tally as it is.
LEMMA LateUnvoteKeeps ==
  ASSUME ForumInv, NEW p \in Proposals, NEW v \in Voters, Unvote(v, p), is_expired(p)
  PROVE  ForumInv'
<1>. USE ForumAssumption DEF ForumInv
<1>1. /\ vote[p][v] # NoVote /\ vote' = [vote EXCEPT ![p][v] = NoVote]
      /\ p \in proposals
      /\ UNCHANGED <<time, proposals, expires_at, count_agree, count_disagree, pass>>
  BY DEF Unvote
<1>2. ForumTypeOK'
  BY <1>1 DEF ForumTypeOK
<1>3. ASSUME NEW side \in {Agree, Disagree}
      PROVE  Side(p, side) \in Nat /\ Side(p, side)' \in Nat /\ Side(p, side)' <= Side(p, side)
  <2>1. \A u \in Voters \ {v} : vote'[p][u] = vote[p][u]
    BY <1>1 DEF ForumTypeOK
  <2>2. vote'[p][v] = NoVote
    BY <1>1 DEF ForumTypeOK
  <2>3. {u \in Voters : vote'[p][u] = side} \subseteq {u \in Voters : vote[p][u] = side}
    BY <2>1, <2>2 DEF NoVote, Agree, Disagree
  <2>4. IsFiniteSet({u \in Voters : vote[p][u] = side})
    <3>1. {u \in Voters : vote[p][u] = side} \subseteq Voters
      OBVIOUS
    <3>. QED  BY <3>1, FS_Subset
  <2>. QED  BY <2>3, <2>4, FS_Subset, FS_CardinalityType DEF Side
<1>4. ASSUME NEW q \in proposals, q # p
      PROVE  Side(q, Agree)' = Side(q, Agree) /\ Side(q, Disagree)' = Side(q, Disagree)
  BY <1>1, <1>4 DEF Side, ForumTypeOK
<1>5. TallyIsOfVotes'
  BY <1>1, <1>3, <1>4 DEF TallyIsOfVotes, is_expired, ForumTypeOK
<1>. QED  BY <1>2, <1>5

LEMMA ForumStepInv == ForumInv /\ [ForumNext]_forum_vars => ForumInv'
<1>. SUFFICES ASSUME ForumInv, [ForumNext]_forum_vars PROVE ForumInv'
  OBVIOUS
<1>. USE ForumAssumption DEF ForumInv
<1>1. ASSUME NEW p \in Proposals, NEW expires \in time .. time + MaxLifetime + 1,
             ForumPropose(p, expires)
      PROVE  ForumInv'
  <2>1. ForumTypeOK'
    BY <1>1 DEF ForumPropose, ForumTypeOK
  <2>2. Side(p, Agree) = 0 /\ Side(p, Disagree) = 0
    <3>1. /\ {v \in Voters : vote[p][v] = Agree} = {}
          /\ {v \in Voters : vote[p][v] = Disagree} = {}
      BY <1>1 DEF ForumPropose, ForumTypeOK, NoVote, Agree, Disagree
    <3>. QED  BY <3>1, FS_EmptySet DEF Side
  <2>3. \A q \in Proposals : \A side : Side(q, side)' = Side(q, side)
    BY <1>1 DEF ForumPropose, Side
  <2>4. \A q \in proposals : is_expired(q)' = is_expired(q)
    BY <1>1 DEF ForumPropose, is_expired, ForumTypeOK
  <2>5. proposals' = proposals \cup {p} /\ UNCHANGED <<count_agree, count_disagree>>
    BY <1>1 DEF ForumPropose
  <2>6. count_agree[p] = 0 /\ count_disagree[p] = 0
    BY <1>1 DEF ForumPropose, ForumTypeOK
  <2>7. TallyIsOfVotes'
    BY <2>2, <2>3, <2>4, <2>5, <2>6 DEF TallyIsOfVotes, ForumTypeOK
  <2>. QED  BY <2>1, <2>7
<1>2. ASSUME NEW p \in Proposals, Expire(p) PROVE ForumInv'
  <2>1. ForumTypeOK'
    BY <1>2 DEF Expire, ForumTypeOK
  <2>2. TallyIsOfVotes'
    BY <1>2, SideType DEF Expire, ForumTypeOK, TallyIsOfVotes, Side, is_expired
  <2>. QED  BY <2>1, <2>2
<1>3. ASSUME NEW p \in Proposals, NEW v \in Voters, NEW side \in {Disagree, Agree},
             Vote(v, p, side)
      PROVE  ForumInv'
  BY <1>3, RecountKeeps DEF Vote
<1>4. ASSUME NEW p \in Proposals, NEW v \in Voters, Unvote(v, p) PROVE ForumInv'
  <2>1. CASE ~ is_expired(p)
    BY <1>4, <2>1, RecountKeeps DEF Unvote
  <2>2. CASE is_expired(p)
    BY <1>4, <2>2, LateUnvoteKeeps
  <2>. QED  BY <2>1, <2>2
<1>5. ASSUME NEW p \in Proposals, ClnProposal(p) PROVE ForumInv'
  <2>1. ForumTypeOK'
    BY <1>5 DEF ClnProposal, ForumTypeOK
  <2>2. TallyIsOfVotes'
    BY <1>5 DEF ClnProposal, ForumTypeOK, TallyIsOfVotes, Side, is_expired
  <2>. QED  BY <2>1, <2>2
<1>6. ASSUME NEW p \in Proposals, PasProposal(p) PROVE ForumInv'
  BY <1>6 DEF PasProposal, ForumTypeOK, TallyIsOfVotes, Side, is_expired
<1>7. CASE Tick
  <2>1. /\ UNCHANGED <<proposals, expires_at, count_agree, count_disagree, pass, vote>>
        /\ time \in Nat /\ time' \in 0 .. LastTick /\ time' = time + 1
    BY <1>7 DEF Tick, ForumTypeOK
  <2>2. \A p \in Proposals : is_expired(p) => is_expired(p)'
    BY <2>1 DEF is_expired, ForumTypeOK
  <2>3. \A p \in Proposals : \A side : Side(p, side)' = Side(p, side)
    BY <2>1 DEF Side
  <2>4. ForumTypeOK'
    BY <2>1 DEF ForumTypeOK
  <2>. QED  BY <2>1, <2>2, <2>3, <2>4 DEF ForumTypeOK, TallyIsOfVotes
<1>8. CASE UNCHANGED forum_vars
  BY <1>8 DEF forum_vars, ForumTypeOK, TallyIsOfVotes, Side, is_expired
<1>. QED
  BY <1>1, <1>2, <1>3, <1>4, <1>5, <1>6, <1>7, <1>8 DEF ForumNext

LEMMA ForumInvariance == ForumSpec => []ForumInv
  BY ForumInitInv, ForumStepInv, PTL DEF ForumSpec

-----------------------------------------------------------------------------
(* ForumTypeOK: no count ever goes below 0, and only a proposal that is    *)
(* there has votes, a tally or the passed mark.                            *)
THEOREM RowsKept == ForumSpec => []ForumTypeOK
  BY ForumInvariance, PTL DEF ForumInv

(* TallyIsOfVotes: the tally that vote and unvote maintain is that of the  *)
(* votes rows, exactly so while the proposal is open.                      *)
THEOREM TallyKept == ForumSpec => []TallyIsOfVotes
  BY ForumInvariance, PTL DEF ForumInv

(* ResultStands: after the end of the vote no call but clnproposal changes *)
(* the tally of a proposal or its end.                                     *)
THEOREM ResultKept == ForumSpec => ResultStands
<1>. DEFINE Stands ==
       \A p \in proposals :
         is_expired(p) /\ p \in proposals' =>
           /\ count_agree'[p] = count_agree[p] /\ count_disagree'[p] = count_disagree[p]
           /\ time' >= expires_at'[p]
<1>1. ForumInv /\ [ForumNext]_forum_vars => [Stands]_forum_vars
  <2>. SUFFICES ASSUME ForumInv, ForumNext, NEW p \in proposals, is_expired(p), p \in proposals'
                PROVE  /\ count_agree'[p] = count_agree[p]
                       /\ count_disagree'[p] = count_disagree[p]
                       /\ time' >= expires_at'[p]
    OBVIOUS
  <2>. USE DEF ForumInv, ForumTypeOK, is_expired
  <2>1. ASSUME NEW q \in Proposals, NEW expires \in time .. time + MaxLifetime + 1,
               ForumPropose(q, expires)
        PROVE  q # p
    BY <2>1 DEF ForumPropose
  <2>2. ASSUME NEW q \in Proposals, Expire(q) PROVE q # p
    BY <2>2 DEF Expire
  <2>3. ASSUME NEW q \in Proposals, NEW v \in Voters, NEW side, Vote(v, q, side)
        PROVE  q # p
    BY <2>3 DEF Vote
  <2>4. ASSUME NEW q \in Proposals, ClnProposal(q) PROVE q # p
    BY <2>4 DEF ClnProposal
  <2>5. ASSUME NEW q \in Proposals, NEW v \in Voters, Unvote(v, q), q = p
        PROVE  UNCHANGED <<time, expires_at, count_agree, count_disagree>>
    BY <2>5 DEF Unvote
  <2>6. CASE Tick
    BY <2>6 DEF Tick
  <2>. QED
    BY <2>1, <2>2, <2>3, <2>4, <2>5, <2>6
    DEF ForumNext, ForumPropose, Expire, Vote, Unvote, Recount, ClnProposal, PasProposal
<1>. QED
  BY <1>1, ForumInvariance, PTL DEF ForumSpec, ResultStands

=============================================================================
