----------------------------- MODULE LedElection -----------------------------
(***************************************************************************)
(* What led.system does in onblock, once the chain is activated: count who *)
(* produces, punish who does not, elect the producers by service and vote  *)
(* weight, and follow the schedules of the chain, over the registry of     *)
(* module LedRegistry.                                                     *)
(*                                                                         *)
(* The chain is external: it takes one proposed schedule at a time, and    *)
(* some blocks later puts it into office under a new version; whether it   *)
(* takes one in which a producer has no key is left open.  The weights are *)
(* whatever voting and services make them; that of an interior may be      *)
(* negative, as propagate_weight_change does not stop at 0.                *)
(***************************************************************************)
EXTENDS Integers, FiniteSets, Functions

CONSTANTS Candidates,        \* accounts, as numbers in the order of their names
          Companies,         \* see LedRegistry
          maximum_producers,
          ElectionPeriod,    \* 120 slots
          WatchPeriod,       \* 7200 slots
          MaxWeight,         \* bound: the weight of a producer, either way
          MaxSkip,           \* bound: the slots from one block to the next
          LastSlot,          \* bound: no longer times are told apart
          MaxCount,          \* bound: no higher counts are, all above a threshold
          MaxUserSteps       \* bound: what users do in all

ASSUME ElectionAssumption ==
  /\ IsFiniteSet(Candidates) /\ Candidates \subseteq Nat
  /\ maximum_producers \in Nat /\ maximum_producers > 0
  /\ ElectionPeriod \in Nat /\ WatchPeriod \in Nat /\ MaxWeight \in Nat
  /\ MaxSkip \in Nat /\ MaxSkip > 0
  /\ MaxCount \in Nat /\ MaxUserSteps \in Nat
  /\ LastSlot \in Nat
  /\ LastSlot > WatchPeriod + MaxSkip /\ LastSlot > ElectionPeriod + MaxSkip

VARIABLES
  producers, is_frontier, is_active, is_punished, has_key,
  frontiers, interiors, row_active,  \* the registry
  weight,                         \* service_weights and vote_weights
  interval_produce_blocks,        \* producers: blocks since the last watch
  total_interval_produce_blocks,  \* global2
  watch_slots,                    \* slots since last_watch_producer_time
  update_slots,                   \* slots since last_producer_schedule_update
  active_producers,               \* global2
  proposed_producers,             \* global2
  chain_schedule,                 \* the chain's schedule in office
  chain_proposed,                 \* its next one, {} for none
  new_version,                    \* the version is above last_schedule_version
  user_steps                      \* what users have done

registry == <<producers, is_frontier, is_active, is_punished, has_key,
              frontiers, interiors, row_active>>
counts == <<interval_produce_blocks, total_interval_produce_blocks>>
clocks == <<watch_slots, update_slots>>
schedules == <<active_producers, proposed_producers>>
chain == <<chain_schedule, chain_proposed, new_version>>
vars == <<registry, weight, counts, clocks, schedules, chain, user_steps>>

Registry == INSTANCE LedRegistry

Unregistered == -1    \* a producer without a row: the chain's first one
Capped(x, bound) == IF x > bound THEN bound ELSE x
Later(clock, slots) == Capped(clock + slots, LastSlot)

Init ==
  /\ Registry!Init
  /\ weight = [c \in Candidates |-> 0]
  /\ interval_produce_blocks = [c \in Candidates |-> 0]
  /\ total_interval_produce_blocks = 0
  /\ watch_slots = LastSlot /\ update_slots = LastSlot
  /\ active_producers = {} /\ proposed_producers = {}
  /\ chain_schedule = {} /\ chain_proposed = {} /\ new_version = FALSE
  /\ user_steps = 0

-----------------------------------------------------------------------------
(* The election.                                                           *)

\* The key of by_services and by_votes, rows being the active ones.
Key(rows, c) == IF c \in rows THEN - weight[c] ELSE weight[c]

\* slip: the index does not turn the weights of active rows around
BeforeUp(rows, c, d) == weight[c] < weight[d] \/ (weight[c] = weight[d] /\ c < d)

\* The order of the rows: by the key, then by name.
Before(rows, c, d) == Key(rows, c) < Key(rows, d) \/ (Key(rows, c) = Key(rows, d) /\ c < d)

\* slip: the rows are not asked whether they are active
FitAnyway(rows, c) == weight[c] > 0

Fit(rows, c) == weight[c] > 0 /\ c \in rows

\* The loop over a table ends at the first row that is not fit, or with the places.
Reached(rows, table) ==
  {c \in table : \A d \in table : d = c \/ Before(rows, d, c) => Fit(rows, d)}
Top(rows, S, n) == {c \in S : Cardinality({d \in S : Before(rows, d, c)}) < n}

\* Two thirds of the places are for frontiers, the rest for interiors.
Elect(rows) ==
  LET fs == Top(rows, Reached(rows, frontiers), (maximum_producers * 2) \div 3)
      is == Top(rows, Reached(rows, interiors), maximum_producers - Cardinality(fs))
  IN  fs \cup is

\* slip: a schedule that was proposed is not proposed again
UpdateElectedOnce(rows) ==
  LET elected == Elect(rows)
  IN  IF elected = {} \/ elected = proposed_producers
        THEN UNCHANGED <<proposed_producers, chain_proposed>>
        ELSE /\ proposed_producers' = elected
             /\ chain_proposed' = IF chain_proposed = {} /\ elected # chain_schedule
                                    THEN elected ELSE chain_proposed

\* update_elected_producers.  set_proposed_producers fails when the chain has a
\* proposed schedule already or the same one in office (a change of keys alone
\* is not modelled); proposed_producers is overwritten either way.
UpdateElected(rows) ==
  LET elected == Elect(rows)
  IN  IF elected = {}
        THEN UNCHANGED <<proposed_producers, chain_proposed>>
        ELSE /\ proposed_producers' = elected
             /\ chain_proposed' = IF chain_proposed = {} /\ elected # chain_schedule
                                    THEN elected ELSE chain_proposed

-----------------------------------------------------------------------------
(* watch_block_producer.                                                   *)

Threshold(elapsed) == (elapsed * 9) \div 10

Slackers(produced, total, elapsed) ==
  IF total < Threshold(elapsed)
    THEN {c \in active_producers : produced[c] < Threshold(elapsed) \div maximum_producers}
    ELSE {}

\* slip: the other row stays active
PunishAllProducers(S) ==
  /\ is_punished' = is_punished \cup S
  /\ is_active' = is_active \ S
  /\ UNCHANGED row_active

PunishAll(S) ==
  /\ is_punished' = is_punished \cup S
  /\ is_active' = is_active \ S
  /\ row_active' = row_active \ S

ResetCounts(produced) ==
  /\ interval_produce_blocks' =
       [c \in Candidates |-> IF c \in active_producers THEN 0 ELSE produced[c]]
  /\ total_interval_produce_blocks' = 0

Watch(produced, total, elapsed) ==
  LET slackers == Slackers(produced, total, elapsed) \ is_punished
  IN  /\ active_producers \subseteq producers
      /\ PunishAll(slackers)
      /\ ResetCounts(produced)
      /\ watch_slots' = 0

WatchDue(elapsed) == new_version \/ elapsed > WatchPeriod

One(p) == IF p \in producers THEN 1 ELSE 0
Produced(p) == [c \in Candidates |->
                  Capped(interval_produce_blocks[c] + (IF c = p THEN One(p) ELSE 0), MaxCount)]
Total(p) == total_interval_produce_blocks + One(p)

\* A block by p, some slots after the last one.
OnBlock(p, slots) ==
  LET elapsed == Later(watch_slots, slots)
      since_update == Later(update_slots, slots)
  IN  /\ \/ /\ WatchDue(elapsed)
            /\ Watch(Produced(p), Total(p), elapsed)
         \/ /\ ~ WatchDue(elapsed)
            /\ interval_produce_blocks' = Produced(p)
            /\ total_interval_produce_blocks' = Total(p)
            /\ watch_slots' = elapsed
            /\ UNCHANGED <<is_active, is_punished, row_active>>
      /\ active_producers' = IF new_version THEN proposed_producers ELSE active_producers
      /\ new_version' = FALSE
      /\ \/ /\ since_update > ElectionPeriod
            /\ UpdateElected(row_active')
            /\ update_slots' = 0
         \/ /\ since_update <= ElectionPeriod
            /\ update_slots' = since_update
            /\ UNCHANGED <<proposed_producers, chain_proposed>>
      /\ UNCHANGED <<producers, is_frontier, has_key, frontiers, interiors, weight,
                     chain_schedule, user_steps>>

\* The active rows an election in the block finds.
RowsAfter(p, elapsed) ==
  IF WatchDue(elapsed)
    THEN row_active \ (Slackers(Produced(p), Total(p), elapsed) \ is_punished)
    ELSE row_active

\* An active producer that has no row ("producer not found"), and it may be an
\* elected one that has no key, aborts onblock and undoes what it did; the block
\* stays.
OnBlockAborts(p, slots) ==
  LET elapsed == Later(watch_slots, slots)
  IN  /\ \/ WatchDue(elapsed) /\ ~ active_producers \subseteq producers
         \/ /\ Later(update_slots, slots) > ElectionPeriod
            /\ ~ Elect(RowsAfter(p, elapsed)) \subseteq has_key
      /\ watch_slots' = elapsed
      /\ update_slots' = Later(update_slots, slots)
      /\ UNCHANGED <<registry, weight, counts, schedules, chain, user_steps>>

Block ==
  \E slots \in 1 .. MaxSkip :
    \E p \in (IF chain_schedule = {} THEN {Unregistered} ELSE chain_schedule) :
      OnBlock(p, slots) \/ OnBlockAborts(p, slots)

\* The chain makes the proposed schedule the one in office.
ChainActivates ==
  /\ chain_proposed # {}
  /\ chain_schedule' = chain_proposed
  /\ chain_proposed' = {}
  /\ new_version' = TRUE
  /\ UNCHANGED <<registry, weight, counts, clocks, schedules, user_steps>>

Register(c) ==
  /\ \/ Registry!RegFrontier(c)
     \/ Registry!RegInterior(c)
     \/ Registry!UnregProd(c)
     \/ Registry!Punish(c)
     \/ Registry!PunishOff(c)
     \/ Registry!RmvProducer(c)
  /\ UNCHANGED <<weight, counts, clocks, schedules, chain>>

\* The counts go with the producers row, the weight with the other one.
Erase(c) ==
  /\ Registry!UnregProduce(c)
  /\ weight' = [weight EXCEPT ![c] = 0]
  /\ interval_produce_blocks' = [interval_produce_blocks EXCEPT ![c] = 0]
  /\ UNCHANGED <<total_interval_produce_blocks, clocks, schedules, chain>>

\* What a frontier has sold is not negative; what an interior was voted may be.
Reweigh(c, w) ==
  /\ c \in producers
  /\ w < 0 => c \in interiors
  /\ weight[c] # w
  /\ weight' = [weight EXCEPT ![c] = w]
  /\ UNCHANGED <<registry, counts, clocks, schedules, chain>>

Users ==
  /\ user_steps < MaxUserSteps
  /\ user_steps' = user_steps + 1
  /\ \E c \in Candidates :
       Register(c) \/ Erase(c) \/ \E w \in - MaxWeight .. MaxWeight : Reweigh(c, w)

Next == Block \/ ChainActivates \/ Users

Spec == Init /\ [][Next]_vars

\* Blocks keep coming, and what is proposed becomes irreversible.
Fairness == WF_vars(Block) /\ WF_vars(ChainActivates)
FairSpec == Spec /\ Fairness

-----------------------------------------------------------------------------
(* Every count and schedule is of candidates.                              *)
TypeOK ==
  /\ weight \in [Candidates -> - MaxWeight .. MaxWeight]
  /\ interval_produce_blocks \in [Candidates -> 0 .. MaxCount]
  /\ total_interval_produce_blocks \in Nat
  /\ watch_slots \in 0 .. LastSlot /\ update_slots \in 0 .. LastSlot
  /\ active_producers \subseteq Candidates /\ proposed_producers \subseteq Candidates
  /\ chain_schedule \subseteq Candidates /\ chain_proposed \subseteq Candidates
  /\ new_version \in BOOLEAN

(* Watches and users keep the registry's tables in step, whatever follows  *)
(* what: each producer has one row beside its own, in the table its type   *)
(* names; an active producer can be elected, a punished one is active in   *)
(* neither table.                                                          *)
RegistryStands ==
  /\ Registry!TypeOK
  /\ Registry!OneRowEach
  /\ Registry!ActiveIsElectable
  /\ Registry!PunishedIsInactive

(* Nobody is elected who is punished, be it in the same block or with the  *)
(* row of the other table left behind, and no election passes over a       *)
(* producer for one of its kind that weighs less: not either when a row    *)
(* that is not fit ends the loop early and leaves places empty.            *)
ElectedAreFittest ==
  [][proposed_producers' # proposed_producers =>
       /\ proposed_producers' \cap is_punished' = {}
       /\ \A c \in proposed_producers', d \in row_active' \ proposed_producers' :
            (c \in frontiers <=> d \in frontiers) => weight[d] <= weight[c]]_vars

\* A row that can be elected without a key.
Keyless == \E c \in row_active \ has_key : weight[c] > 0

\* What onblock may abort on.
Halted == Keyless \/ ~ active_producers \subseteq producers

(* A producer is not kept in the proposed schedule once it is punished: an *)
(* election replaces it, unless it is pardoned, the election comes out     *)
(* empty, or onblock may abort in every block.                             *)
PunishedAreReplaced ==
  \A c \in Candidates :
    (c \in is_punished /\ c \in proposed_producers) ~>
      (c \notin is_punished \/ c \notin proposed_producers \/ Elect(row_active) = {} \/ Halted)

(* The chain gets the schedule its users settle for: when they stop, it    *)
(* and the elected become the same, however many proposals were refused    *)
(* while an earlier one was under way.                                     *)
SettledElectionHolds ==
  <>[](Elect(row_active) = {} \/ Halted \/ chain_schedule = Elect(row_active))

(* "only update block producers once every minute" (producer_pay.cpp:88):  *)
(* elections go on, at least while the chain has no key to miss.           *)
ElectionsGoOn == []<>(update_slots <= ElectionPeriod \/ Keyless)

=============================================================================
