------------------------------- MODULE LedMsig -------------------------------
(***************************************************************************)
(* led.msig: transactions that are proposed, approved by several accounts  *)
(* and then sent as deferred transactions.                                 *)
(*                                                                         *)
(* A proposal is known by its key, the proposer and the proposal name.     *)
(* Approvals carry the time they were given at and invalidations the time  *)
(* they were made at, in blocks.  Both lists are vectors, and a level may  *)
(* be requested more than once: approve and unapprove move one copy, the   *)
(* first there is.  The order among different levels does not matter.      *)
(*                                                                         *)
(* What a transaction needs to be authorized is the chain's business:      *)
(* Sufficient gives the sets of levels that are enough.  The rows of the   *)
(* older approvals table are not modelled: none of the actions adds one.   *)
(***************************************************************************)
EXTENDS Integers, Sequences

CONSTANTS Keys, Levels, Trxs, NoTrx,
          Accounts,    \* the actors of the levels
          Actor,       \* the actor of each level
          Sufficient,  \* for each transaction, the sets of levels that authorize it
          MaxCopies,   \* bound: how often a level is requested
          LastBlock    \* bound: the number of blocks

ASSUME MsigAssumption ==
  /\ NoTrx \notin Trxs
  /\ Actor \in [Levels -> Accounts]
  /\ Sufficient \in [Trxs -> SUBSET SUBSET Levels]
  /\ MaxCopies \in Nat /\ LastBlock \in Nat

Never == -1
Times == 0 .. LastBlock

VARIABLES
  now,          \* the time of the current block
  trx,          \* proposals: packed_transaction, NoTrx without a row
  expiration,   \* proposals: the expiration of the transaction
  requested,    \* approvals: how often requested_approvals has each level
  provided,     \* approvals: the times of each level's provided_approvals, oldest first
  invalidated,  \* invalidations: last_invalidation_time, Never without a row
  deferred,     \* the chain's deferred transaction under the key, or NoTrx
  consents      \* history: the transaction each provided approval is for, or
                \* NoTrx once its actor has invalidated it

vars == <<now, trx, expiration, requested, provided, invalidated, deferred, consents>>

NotRequested == [l \in Levels |-> 0]
NoApprovals == [l \in Levels |-> <<>>]
Provided(k) == {l \in Levels : provided[k][l] # <<>>}
Asked(copies) == {l \in Levels : copies[l] > 0}
Authorized(t, levels) == \E S \in Sufficient[t] : S \subseteq levels

Init ==
  /\ now = 0
  /\ trx = [k \in Keys |-> NoTrx]
  /\ expiration = [k \in Keys |-> 0]
  /\ requested = [k \in Keys |-> NotRequested]
  /\ provided = [k \in Keys |-> NoApprovals]
  /\ invalidated = [a \in Accounts |-> Never]
  /\ deferred = [k \in Keys |-> NoTrx]
  /\ consents = [k \in Keys |-> NoApprovals]

-----------------------------------------------------------------------------
Propose(k, t, expires, copies) ==
  /\ expires >= now
  /\ trx[k] = NoTrx
  /\ Authorized(t, Asked(copies))
  /\ trx' = [trx EXCEPT ![k] = t]
  /\ expiration' = [expiration EXCEPT ![k] = expires]
  /\ requested' = [requested EXCEPT ![k] = copies]
  /\ UNCHANGED <<now, provided, invalidated, deferred, consents>>

\* slip: the hash is looked at only while there is no approval
HashMatchesFirst(k, hash) == hash # NoTrx /\ Provided(k) = {} => trx[k] = hash

\* An approval may name the hash of the transaction it is for; NoTrx is none.
HashMatches(k, hash) == hash # NoTrx => trx[k] = hash

Approve(k, l, hash) ==
  /\ HashMatches(k, hash)
  /\ requested[k][l] > 0
  /\ requested' = [requested EXCEPT ![k][l] = @ - 1]
  /\ provided' = [provided EXCEPT ![k][l] = Append(@, now)]
  /\ consents' = [consents EXCEPT ![k][l] = Append(@, IF hash = NoTrx THEN trx[k] ELSE hash)]
  /\ UNCHANGED <<now, trx, expiration, invalidated, deferred>>

\* slip: a level that takes its approval back is not asked again
UnapproveForGood(k, l) ==
  /\ provided[k][l] # <<>>
  /\ provided' = [provided EXCEPT ![k][l] = Tail(@)]
  /\ consents' = [consents EXCEPT ![k][l] = Tail(@)]
  /\ UNCHANGED <<now, trx, expiration, requested, invalidated, deferred>>

\* The oldest approval is taken back, be it invalidated or not.
Unapprove(k, l) ==
  /\ provided[k][l] # <<>>
  /\ provided' = [provided EXCEPT ![k][l] = Tail(@)]
  /\ requested' = [requested EXCEPT ![k][l] = @ + 1]
  /\ consents' = [consents EXCEPT ![k][l] = Tail(@)]
  /\ UNCHANGED <<now, trx, expiration, invalidated, deferred>>

\* slip: the approvals stay and count for the next proposal of the same name
RemoveProposalRow(k) ==
  /\ trx' = [trx EXCEPT ![k] = NoTrx]
  /\ expiration' = [expiration EXCEPT ![k] = 0]
  /\ requested' = [requested EXCEPT ![k] = NotRequested]
  /\ consents' = [consents EXCEPT ![k] = NoApprovals]
  /\ UNCHANGED provided

\* Both rows of the proposal go.
RemoveProposal(k) ==
  /\ trx' = [trx EXCEPT ![k] = NoTrx]
  /\ expiration' = [expiration EXCEPT ![k] = 0]
  /\ requested' = [requested EXCEPT ![k] = NotRequested]
  /\ provided' = [provided EXCEPT ![k] = NoApprovals]
  /\ consents' = [consents EXCEPT ![k] = NoApprovals]

Cancel(k, by_proposer) ==
  /\ trx[k] # NoTrx
  /\ ~ by_proposer => expiration[k] < now
  /\ RemoveProposal(k)
  /\ UNCHANGED <<now, invalidated, deferred>>

\* An approval counts unless its actor has invalidated it since, or in its block.
Counts(k, l, i) == invalidated[Actor[l]] = Never \/ invalidated[Actor[l]] < provided[k][l][i]
Counted(k) == {l \in Levels : \E i \in 1 .. Len(provided[k][l]) : Counts(k, l, i)}

\* send_deferred aborts while an earlier transaction waits under the same key.
Exec(k) ==
  /\ trx[k] # NoTrx
  /\ expiration[k] >= now
  /\ Authorized(trx[k], Counted(k))
  /\ deferred[k] = NoTrx
  /\ deferred' = [deferred EXCEPT ![k] = trx[k]]
  /\ RemoveProposal(k)
  /\ UNCHANGED <<now, invalidated>>

Invalidate(a) ==
  /\ invalidated' = [invalidated EXCEPT ![a] = now]
  /\ consents' = [k \in Keys |->
                    [l \in Levels |-> IF Actor[l] # a THEN consents[k][l]
                                     ELSE [i \in 1 .. Len(consents[k][l]) |-> NoTrx]]]
  /\ UNCHANGED <<now, trx, expiration, requested, provided, deferred>>

\* The chain runs or drops the deferred transaction.
RunDeferred(k) ==
  /\ deferred[k] # NoTrx
  /\ deferred' = [deferred EXCEPT ![k] = NoTrx]
  /\ UNCHANGED <<now, trx, expiration, requested, provided, invalidated, consents>>

NextBlock ==
  /\ now < LastBlock
  /\ now' = now + 1
  /\ UNCHANGED <<trx, expiration, requested, provided, invalidated, deferred, consents>>

Next ==
  \/ \E k \in Keys :
       \/ \E t \in Trxs, expires \in Times, copies \in [Levels -> 0 .. MaxCopies] :
            Propose(k, t, expires, copies)
       \/ \E l \in Levels :
            (\E hash \in Trxs \cup {NoTrx} : Approve(k, l, hash)) \/ Unapprove(k, l)
       \/ \E by_proposer \in BOOLEAN : Cancel(k, by_proposer)
       \/ Exec(k)
       \/ RunDeferred(k)
  \/ \E a \in Accounts : Invalidate(a)
  \/ NextBlock

Spec == Init /\ [][Next]_vars

-----------------------------------------------------------------------------
(* A proposal has both its rows or neither, and no approval comes from     *)
(* nowhere: of a level's copies each is requested or provided.             *)
TypeOK ==
  /\ now \in Times
  /\ trx \in [Keys -> Trxs \cup {NoTrx}]
  /\ expiration \in [Keys -> Times]
  /\ requested \in [Keys -> [Levels -> 0 .. MaxCopies]]
  /\ provided \in [Keys -> [Levels -> Seq(Times)]]
  /\ invalidated \in [Accounts -> {Never} \cup Times]
  /\ deferred \in [Keys -> Trxs \cup {NoTrx}]
  /\ consents \in [Keys -> [Levels -> Seq(Trxs \cup {NoTrx})]]
  /\ \A k \in Keys, l \in Levels :
       /\ trx[k] = NoTrx => requested[k][l] = 0 /\ provided[k][l] = <<>>
       /\ requested[k][l] + Len(provided[k][l]) <= MaxCopies
       /\ Len(consents[k][l]) = Len(provided[k][l])

Consenting(k, t) == {l \in Levels : \E i \in 1 .. Len(consents[k][l]) : consents[k][l][i] = t}

(* A transaction is sent only when enough levels have an approval of that  *)
(* very transaction, in the proposal that is executed, which they neither  *)
(* unapproved nor invalidated since: whatever was cancelled and proposed   *)
(* anew under the same name, and however the blocks fall.  A level that is *)
(* requested once has unapproved all it approved; one that is requested    *)
(* twice has to unapprove twice.                                           *)
ExecutedIsApproved ==
  [][\A k \in Keys :
       deferred'[k] \notin {deferred[k], NoTrx} =>
         Authorized(deferred'[k], Consenting(k, deferred'[k]))]_vars

(* A proposal never gets stuck for a level that cannot be asked any more:  *)
(* the levels asked and those that approved are always enough.             *)
StaysExecutable ==
  \A k \in Keys : trx[k] # NoTrx => Authorized(trx[k], Asked(requested[k]) \cup Provided(k))

=============================================================================
