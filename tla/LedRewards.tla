----------------------------- MODULE LedRewards -----------------------------
(***************************************************************************)
(* The rewards of led.system: blocks are counted in onblock; a producer's  *)
(* claim issues new tokens into three buckets, which are held by accounts  *)
(* of led.token, and pays the claimer its shares of them: of the block     *)
(* bucket by its unpaid blocks, of the contribution bucket by a frontier's *)
(* service weight, of the vote bucket by an interior's votes.  What the    *)
(* producers get of the new tokens grows with maximum_producers, every     *)
(* half year.                                                              *)
(*                                                                         *)
(* A claim and its transfers are one transaction: a transfer that the      *)
(* token refuses undoes the claim.  The registry is here what claims read  *)
(* of it.  Weights and their totals are voting's and services': a claim    *)
(* finds whatever they promise, a total that covers the claimer's weight   *)
(* (LedVoting!TotalCoversWeights, LedServices!TotalCoversServices), which  *)
(* for an interior may be negative; such a claim adds to the vote bucket   *)
(* and transfers nothing.  Quotients are exact, and nobody else transfers  *)
(* to or from the buckets' accounts.                                       *)
(*                                                                         *)
(* The names here differ from LedToken's: LedTokenProofs extends both.     *)
(***************************************************************************)
EXTENDS Integers, FiniteSets, Functions

CONSTANTS Producers,
          InitialProducers,  \* maximum_producers at first: 21
          Issues,            \* amounts of new tokens, depending on the time
          MaxTotal,          \* bound: the total of the weights of a kind, and a negative weight
          MaxBucket,         \* bound: what a negative weight fills the vote bucket up to
          MaxBlocks,         \* bound: the unpaid blocks
          MaxFills           \* bound: how often tokens are issued

ASSUME RewardsAssumption ==
  /\ IsFiniteSet(Producers)
  /\ InitialProducers \in Nat \ {0}
  /\ Issues \subseteq Nat
  /\ MaxTotal \in Nat /\ MaxBucket \in Nat /\ MaxBlocks \in Nat /\ MaxFills \in Nat

Kinds == {"frontier", "interior"}
Buckets == {"block", "ctb", "vote"}

VARIABLES
  activated,
  rows,                 \* the producers with a row in frontiers, in interiors
  is_active,            \* producers: is_active
  rested,               \* producers: last_claim_time is more than a day ago
  unpaid_blocks,        \* producers
  total_unpaid_blocks,
  bucket,               \* perblock_bucket, perctb_bucket, pervote_bucket
  bucket_balance,       \* balances of led.bpay, led.cpay, led.vpay in led.token
  unfunded,             \* history: what negative weights have added to the vote bucket
  last_bucket_fill,     \* "never", "now": in this block, or "earlier"
  maximum_producers,
  half_year_cnt,
  fills                 \* how often tokens have been issued

registry == <<rows, is_active>>
blocks == <<unpaid_blocks, total_unpaid_blocks>>
funds == <<bucket, bucket_balance, unfunded, last_bucket_fill, fills>>
sizes == <<maximum_producers, half_year_cnt>>
rewards_vars == <<activated, registry, rested, blocks, funds, sizes>>

producers == UNION {rows[k] : k \in Kinds}

RewardsInit ==
  /\ activated = FALSE
  /\ rows = [k \in Kinds |-> {}] /\ is_active = {} /\ rested = {}
  /\ unpaid_blocks = [p \in Producers |-> 0] /\ total_unpaid_blocks = 0
  /\ bucket = [b \in Buckets |-> 0] /\ bucket_balance = [b \in Buckets |-> 0]
  /\ unfunded = 0
  /\ last_bucket_fill = "never" /\ fills = 0
  /\ maximum_producers = InitialProducers /\ half_year_cnt = 0

-----------------------------------------------------------------------------
(* onblock.                                                                *)

\* slip: only active producers count in the total
CountBlockOfActive(p) ==
  /\ unpaid_blocks' = [unpaid_blocks EXCEPT ![p] = @ + 1]
  /\ total_unpaid_blocks' = total_unpaid_blocks + (IF p \in is_active THEN 1 ELSE 0)

CountBlock(p) ==
  /\ unpaid_blocks' = [unpaid_blocks EXCEPT ![p] = @ + 1]
  /\ total_unpaid_blocks' = total_unpaid_blocks + 1

\* The growth in update_elected_producers, when half a year is over.
GrowSize ==
  IF maximum_producers # 21
    THEN maximum_producers' = maximum_producers + 6 /\ half_year_cnt' = half_year_cnt + 1
    ELSE UNCHANGED sizes

\* A block, by a producer with a row or another one.  The first block of an
\* activated chain elects, years after last_producer_size_update; later ones
\* grow the size or not.  A day may have passed since the last block.
OnBlock ==
  /\ activated
  /\ \/ \E p \in producers : total_unpaid_blocks < MaxBlocks /\ CountBlock(p)
     \/ UNCHANGED blocks
  /\ \/ GrowSize
     \/ last_bucket_fill # "never" /\ UNCHANGED sizes
  /\ last_bucket_fill' = IF last_bucket_fill = "never" THEN "now" ELSE "earlier"
  /\ rested' \in {rested, producers}
  /\ UNCHANGED <<activated, registry, bucket, bucket_balance, unfunded, fills>>

\* A block of a chain that is not activated; a day may have passed as well.
IdleBlock ==
  /\ ~ activated
  /\ last_bucket_fill' = IF last_bucket_fill = "never" THEN "never" ELSE "earlier"
  /\ rested' \in {rested, producers}
  /\ UNCHANGED <<activated, registry, blocks, bucket, bucket_balance, unfunded, fills,
                 sizes>>

-----------------------------------------------------------------------------
(* claimrewards.                                                           *)

\* The producers' part of new tokens for each bucket; the rest goes to losa.
ToProducers(new_tokens) == (new_tokens \div 4) * half_year_cnt
ToBucket(new_tokens) ==
  LET part == ToProducers(new_tokens) \div 5
  IN  [b \in Buckets |-> IF b = "ctb" THEN ToProducers(new_tokens) - 2 * part ELSE part]

\* The token issues and transfers no amount of 0.
CanFill(new_tokens) ==
  /\ new_tokens - ToProducers(new_tokens) > 0
  /\ \A b \in Buckets : ToBucket(new_tokens)[b] > 0

FillDue == last_bucket_fill = "earlier"

\* The conversion to int64_t cuts towards 0.
Quotient(a, b) == IF a >= 0 THEN a \div b ELSE - ((- a) \div b)
Share(amount, part, whole) == IF whole > 0 THEN Quotient(amount * part, whole) ELSE 0

\* What a producer is paid out of the buckets: of its kind's by its weight.
Pay(p, filled, weight, total) ==
  [b \in Buckets |->
     CASE b = "block" -> Share(filled[b], unpaid_blocks[p], total_unpaid_blocks)
       [] b = "ctb" /\ p \in rows["frontier"] -> Share(filled[b], weight, total)
       [] b = "vote" /\ p \in rows["interior"] -> Share(filled[b], weight, total)
       [] OTHER -> 0]

Saving(pay) == (pay * 15) \div 100

\* slip: led.saving is paid on top
SpentTwice(pay) == IF pay > 0 THEN pay + Saving(pay) ELSE 0

\* What leaves a bucket's account, to the owner and to led.saving.
Spent(pay) == IF pay > 0 THEN (pay - Saving(pay)) + Saving(pay) ELSE 0

\* slip: the total keeps what is paid
SettleBlocksKept(p) ==
  /\ unpaid_blocks' = [unpaid_blocks EXCEPT ![p] = 0]
  /\ UNCHANGED total_unpaid_blocks

SettleBlocks(p) ==
  /\ total_unpaid_blocks' = total_unpaid_blocks - unpaid_blocks[p]
  /\ unpaid_blocks' = [unpaid_blocks EXCEPT ![p] = 0]

\* Pays of which led.saving would get nothing abort the claim as well, and so do pays
\* that the account does not have.
PayOut(p, filled, received, weight, total) ==
  LET pay == Pay(p, filled, weight, total)
  IN  /\ \A b \in Buckets :
           /\ pay[b] > 0 => Saving(pay[b]) > 0
           /\ Spent(pay[b]) <= bucket_balance[b] + received[b]
      /\ pay["vote"] < 0 => filled["vote"] - pay["vote"] <= MaxBucket   \* bound
      /\ unfunded' = unfunded + (IF pay["vote"] < 0 THEN - pay["vote"] ELSE 0)
      /\ bucket' = [b \in Buckets |-> filled[b] - pay[b]]
      /\ bucket_balance' = [b \in Buckets |-> bucket_balance[b] + received[b] - Spent(pay[b])]

ClaimRewards(p, weight, total) ==
  /\ p \in is_active
  /\ weight < 0 => p \in rows["interior"]
  /\ activated
  /\ p \in rested
  /\ \/ /\ FillDue
        /\ fills < MaxFills   \* bound
        /\ \E new_tokens \in Issues :
             /\ CanFill(new_tokens)
             /\ PayOut(p, [b \in Buckets |-> bucket[b] + ToBucket(new_tokens)[b]],
                       ToBucket(new_tokens), weight, total)
        /\ last_bucket_fill' = "now"
        /\ fills' = fills + 1
     \/ /\ ~ FillDue
        /\ PayOut(p, bucket, [b \in Buckets |-> 0], weight, total)
        /\ UNCHANGED <<last_bucket_fill, fills>>
  /\ SettleBlocks(p)
  /\ rested' = rested \ {p}
  /\ UNCHANGED <<activated, registry, sizes>>

-----------------------------------------------------------------------------
(* The registry and the administrator.                                     *)

\* regfrontier and reginterior; the same kind again keeps the rows.
Register(p, k) ==
  /\ p \notin producers \/ p \in rows[k]
  /\ rows' = [rows EXCEPT ![k] = @ \cup {p}]
  /\ is_active' = is_active \cup {p}
  /\ UNCHANGED <<activated, rested, blocks, funds, sizes>>

\* unregprod, rmvproducer, punishprod and punish; punishoff.
SetActive(p, active) ==
  /\ p \in producers
  /\ is_active' = IF active THEN is_active \cup {p} ELSE is_active \ {p}
  /\ UNCHANGED <<activated, rows, rested, blocks, funds, sizes>>

\* unregproduce erases the rows, and the unpaid blocks with them.
Erase(p) ==
  /\ p \in producers
  /\ rows' = [k \in Kinds |-> rows[k] \ {p}]
  /\ is_active' = is_active \ {p}
  /\ rested' = rested \ {p}
  /\ unpaid_blocks' = [unpaid_blocks EXCEPT ![p] = 0]
  /\ UNCHANGED <<activated, total_unpaid_blocks, funds, sizes>>

\* activate and deactivate.
SetActivated(on) ==
  /\ activated' = on
  /\ UNCHANGED <<registry, rested, blocks, funds, sizes>>

RewardsNext ==
  \/ OnBlock \/ IdleBlock
  \/ \E p \in Producers :
       \/ \E total \in 0 .. MaxTotal :
            \E weight \in - MaxTotal .. total : ClaimRewards(p, weight, total)
       \/ \E k \in Kinds : Register(p, k)
       \/ \E active \in BOOLEAN : SetActive(p, active)
       \/ Erase(p)
  \/ \E on \in BOOLEAN : SetActivated(on)

RewardsSpec == RewardsInit /\ [][RewardsNext]_rewards_vars

-----------------------------------------------------------------------------
(* No bucket, no balance and no count of unpaid blocks goes below 0,       *)
(* though each claim takes a share of them by numbers kept elsewhere.      *)
RewardsTypeOK ==
  /\ activated \in BOOLEAN
  /\ rows \in [Kinds -> SUBSET Producers] /\ rows["frontier"] \cap rows["interior"] = {}
  /\ is_active \cup rested \subseteq producers
  /\ unpaid_blocks \in [Producers -> Nat] /\ total_unpaid_blocks \in Nat
  /\ bucket \in [Buckets -> Nat] /\ bucket_balance \in [Buckets -> Nat] /\ unfunded \in Nat
  /\ last_bucket_fill \in {"never", "now", "earlier"}
  /\ maximum_producers \in Nat /\ half_year_cnt \in Nat
  /\ fills \in 0 .. MaxFills

\* The vote bucket is in its account but for what negative weights have added to it.
Backed ==
  /\ bucket["block"] <= bucket_balance["block"]
  /\ bucket["ctb"] <= bucket_balance["ctb"]
  /\ bucket["vote"] <= bucket_balance["vote"] + unfunded

(* What the system contract has promised to pay out is there, whatever is  *)
(* filled, paid and saved: each bucket is in the balance of its account,   *)
(* the vote bucket but for what claims with negative weights have added;   *)
(* and no claim takes more of a bucket, or of the count of unpaid blocks,  *)
(* than there is.                                                          *)
BucketsAreFunded == RewardsTypeOK /\ Backed

(* The total that block pays are shared by covers every producer's unpaid  *)
(* blocks, though producers are erased and come back.                      *)
UnpaidIsCovered == SumFunction(unpaid_blocks) <= total_unpaid_blocks

(* A claim never cheats those who claim later: what is left in the block   *)
(* bucket is no less for each block that is left unpaid.                   *)
ClaimsKeepShares ==
  [][bucket'["block"] < bucket["block"] =>
       bucket'["block"] * total_unpaid_blocks
         >= bucket["block"] * total_unpaid_blocks']_rewards_vars

(* "STAGE 1 ( half_year_cnt = 1 )" (producer_pay.cpp:117): from the first  *)
(* election on, there is an amount that a claim can issue.                 *)
ClaimsCanFill ==
  (activated /\ FillDue /\ is_active \cap rested # {}) =>
    \E new_tokens \in Issues : CanFill(new_tokens)

=============================================================================
