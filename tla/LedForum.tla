------------------------------ MODULE LedForum ------------------------------
(***************************************************************************)
(* led.forum: proposals that expire, the votes on them and their tally.    *)
(*                                                                         *)
(* Titles, JSON texts and the checks on them are left out, and so are      *)
(* proposers: expire is the proposer's to call.                            *)
(*                                                                         *)
(* The names here differ from LedMsig's: LedGovernanceProofs extends both. *)
(***************************************************************************)
EXTENDS Integers, FiniteSets

CONSTANTS Proposals,
          Voters,      \* the KYC accounts
          MaxLifetime, \* SIX_MONTHS_IN_SECONDS, in ticks
          LastTick     \* bound: the time that passes

ASSUME ForumAssumption ==
  IsFiniteSet(Voters) /\ MaxLifetime \in Nat /\ LastTick \in Nat

Disagree == 0
Agree == 1
NoVote == 2

VARIABLES
  time,
  proposals,       \* the proposals with a row
  expires_at,
  count_agree, count_disagree,
  pass,            \* the proposals declared passed
  vote             \* votes: the row of each proposal and voter, or NoVote

forum_vars == <<time, proposals, expires_at, count_agree, count_disagree, pass, vote>>

is_expired(p) == time >= expires_at[p]

ForumInit ==
  /\ time = 0
  /\ proposals = {}
  /\ expires_at = [p \in Proposals |-> 0]
  /\ count_agree = [p \in Proposals |-> 0]
  /\ count_disagree = [p \in Proposals |-> 0]
  /\ pass = {}
  /\ vote = [p \in Proposals |-> [v \in Voters |-> NoVote]]

-----------------------------------------------------------------------------
ForumPropose(p, expires) ==
  /\ expires > time /\ expires <= time + MaxLifetime
  /\ p \notin proposals
  /\ proposals' = proposals \cup {p}
  /\ expires_at' = [expires_at EXCEPT ![p] = expires]
  /\ UNCHANGED <<time, count_agree, count_disagree, pass, vote>>

Expire(p) ==
  /\ p \in proposals
  /\ ~ is_expired(p)
  /\ expires_at' = [expires_at EXCEPT ![p] = time]
  /\ UNCHANGED <<time, proposals, count_agree, count_disagree, pass, vote>>

One(b) == IF b THEN 1 ELSE 0

\* slip: a vote that changes sides is counted on both
RecountAdded(p, old, new) ==
  /\ count_agree' = [count_agree EXCEPT ![p] = @ + One(new = Agree)
                                                 - One(old = Agree /\ new = NoVote)]
  /\ count_disagree' = [count_disagree EXCEPT ![p] = @ + One(new = Disagree)
                                                       - One(old = Disagree /\ new = NoVote)]

\* What a vote in the place of an old one does to the tally.
Recount(p, old, new) ==
  /\ count_agree' = [count_agree EXCEPT ![p] = @ + One(new = Agree) - One(old = Agree)]
  /\ count_disagree' = [count_disagree EXCEPT ![p] = @ + One(new = Disagree)
                                                       - One(old = Disagree)]

Vote(v, p, side) ==
  /\ p \in proposals
  /\ ~ is_expired(p)
  /\ Recount(p, vote[p][v], side)
  /\ vote' = [vote EXCEPT ![p][v] = side]
  /\ UNCHANGED <<time, proposals, expires_at, pass>>

\* slip: the tally follows the votes after the end as well
UnvoteCounted(v, p) ==
  /\ p \in proposals /\ vote[p][v] # NoVote
  /\ Recount(p, vote[p][v], NoVote)
  /\ vote' = [vote EXCEPT ![p][v] = NoVote]
  /\ UNCHANGED <<time, proposals, expires_at, pass>>

\* A vote taken back after the end has been counted.
Unvote(v, p) ==
  /\ p \in proposals
  /\ vote[p][v] # NoVote
  /\ IF is_expired(p) THEN UNCHANGED <<count_agree, count_disagree>>
                      ELSE Recount(p, vote[p][v], NoVote)
  /\ vote' = [vote EXCEPT ![p][v] = NoVote]
  /\ UNCHANGED <<time, proposals, expires_at, pass>>

\* slip: the proposal is erased before its votes, which nobody finds afterwards
ClnProposalKept(p) ==
  /\ p \in proposals /\ is_expired(p)
  /\ proposals' = proposals \ {p}
  /\ expires_at' = [expires_at EXCEPT ![p] = 0]
  /\ count_agree' = [count_agree EXCEPT ![p] = 0]
  /\ count_disagree' = [count_disagree EXCEPT ![p] = 0]
  /\ pass' = pass \ {p}
  /\ UNCHANGED <<time, vote>>

\* Without a proposal row there are no votes either: nothing happens.
ClnProposal(p) ==
  /\ p \in proposals => is_expired(p)
  /\ vote' = [vote EXCEPT ![p] = [v \in Voters |-> NoVote]]
  /\ proposals' = proposals \ {p}
  /\ expires_at' = [expires_at EXCEPT ![p] = 0]
  /\ count_agree' = [count_agree EXCEPT ![p] = 0]
  /\ count_disagree' = [count_disagree EXCEPT ![p] = 0]
  /\ pass' = pass \ {p}
  /\ UNCHANGED time

PasProposal(p) ==
  /\ p \in proposals
  /\ pass' = pass \cup {p}
  /\ UNCHANGED <<time, proposals, expires_at, count_agree, count_disagree, vote>>

Tick ==
  /\ time < LastTick
  /\ time' = time + 1
  /\ UNCHANGED <<proposals, expires_at, count_agree, count_disagree, pass, vote>>

ForumNext ==
  \/ \E p \in Proposals :
       \/ \E expires \in time .. time + MaxLifetime + 1 : ForumPropose(p, expires)
       \/ Expire(p)
       \/ \E v \in Voters :
            (\E side \in {Disagree, Agree} : Vote(v, p, side)) \/ Unvote(v, p)
       \/ ClnProposal(p)
       \/ PasProposal(p)
  \/ Tick

ForumSpec == ForumInit /\ [][ForumNext]_forum_vars

-----------------------------------------------------------------------------
Side(p, side) == Cardinality({v \in Voters : vote[p][v] = side})

(* Only a proposal that is there has votes, a tally or the passed mark: a  *)
(* name that is proposed anew starts from nothing.                         *)
ForumTypeOK ==
  /\ time \in 0 .. LastTick
  /\ proposals \subseteq Proposals /\ pass \subseteq proposals
  /\ expires_at \in [Proposals -> Nat]
  /\ count_agree \in [Proposals -> Nat] /\ count_disagree \in [Proposals -> Nat]
  /\ vote \in [Proposals -> [Voters -> {Agree, Disagree, NoVote}]]
  /\ \A p \in Proposals \ proposals :
       /\ count_agree[p] = 0 /\ count_disagree[p] = 0
       /\ \A v \in Voters : vote[p][v] = NoVote

(* The tally is of the votes there are, each once on its present side, as  *)
(* long as the proposal is open; afterwards votes may only leave.          *)
TallyIsOfVotes ==
  \A p \in proposals :
    /\ count_agree[p] >= Side(p, Agree) /\ count_disagree[p] >= Side(p, Disagree)
    /\ ~ is_expired(p) =>
         count_agree[p] = Side(p, Agree) /\ count_disagree[p] = Side(p, Disagree)

(* The result stands: from the end of the vote until the proposal is       *)
(* cleaned away nothing changes its tally, nor does it open again.         *)
ResultStands ==
  [][\A p \in proposals :
       is_expired(p) /\ p \in proposals' =>
         /\ count_agree'[p] = count_agree[p] /\ count_disagree'[p] = count_disagree[p]
         /\ time' >= expires_at'[p]]_forum_vars

=============================================================================
