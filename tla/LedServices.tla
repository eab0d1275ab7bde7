----------------------------- MODULE LedServices -----------------------------
(***************************************************************************)
(* The services of led.system: what persons buy from a frontier counts for *)
(* it in the elections for WindowDays days.  A frontier keeps one entry    *)
(* per day, addressed by the day modulo WindowDays; the sum of its entries *)
(* is its service weight.  The entries are visited by purchases and by the *)
(* daily update in onblock.                                                *)
(*                                                                         *)
(* Weights are exact: a token weighs one.  What LedRegistry does to a      *)
(* frontier is here to have a row or not, and to be active or not.  Left   *)
(* out are amounts that no action reads (total_purchase_amount, the        *)
(* cumulative payback, the dates of the entries) and the balances of       *)
(* led.token: whether the buyer can pay is open.                           *)
(***************************************************************************)
EXTENDS Integers, FiniteSets, Functions

CONSTANTS Frontiers,
          Buyers,
          Persons,       \* the buyers with a KYC name
          Quantities,    \* tokens of a purchase
          Ratios,        \* transfer ratios
          WindowDays,    \* 30
          SlotsPerDay,   \* blocks_per_day
          BuyersPeriod,  \* blocks_per_week * 4
          MaxWeight      \* bound: the total weight

ASSUME ServicesAssumption ==
  /\ IsFiniteSet(Frontiers)
  /\ Persons \subseteq Buyers
  /\ Quantities \subseteq Nat \ {0} /\ Ratios \subseteq Nat \ {0}
  /\ WindowDays \in Nat \ {0} /\ SlotsPerDay \in Nat \ {0}
  /\ BuyersPeriod \in Nat /\ MaxWeight \in Nat

Days == 0 .. WindowDays - 1
NoDay == WindowDays   \* the initial privIdx, 31 in the code

VARIABLES
  electing,                 \* the chain is activated, and onblock does not abort
  day, slot,                \* of the current block; the day modulo WindowDays
  table_slots,              \* slots since last_frontier_service_table_update
  buyers_slots,             \* slots since last_frontier_buyer_table_clear_time
  frontiers,                \* those with a row
  is_active,                \* of the producers row
  transfer_ratio,
  service_weights,
  service_weight_window,    \* the entries
  service_window_state,     \* the entries that are closed
  privIdx,                  \* the entry visited last
  decrease_service_weight,  \* dropped from the weight, not yet from the total
  buyers,                   \* of each frontier
  voters,                   \* buyers with a voters row
  total_frontier_service_weight,
  recent                    \* history: the sales of the last WindowDays days

clock == <<electing, day, slot, table_slots, buyers_slots>>
weights == <<service_weights, service_weight_window, service_window_state, privIdx,
             decrease_service_weight, total_frontier_service_weight>>
rows == <<frontiers, is_active, transfer_ratio>>
vars == <<clock, weights, rows, buyers, voters, recent>>

NoEntries == [d \in Days |-> 0]
SumEntries(w) == SumFunctionOnSet(w, Days)

Init ==
  /\ electing = FALSE
  /\ day = 0 /\ slot = 0
  /\ table_slots = SlotsPerDay + 1 /\ buyers_slots = BuyersPeriod + 1
  /\ frontiers = {} /\ is_active = {}
  /\ transfer_ratio = [f \in Frontiers |-> 0]
  /\ service_weights = [f \in Frontiers |-> 0]
  /\ service_weight_window = [f \in Frontiers |-> NoEntries]
  /\ service_window_state = [f \in Frontiers |-> {}]
  /\ privIdx = [f \in Frontiers |-> NoDay]
  /\ decrease_service_weight = [f \in Frontiers |-> 0]
  /\ buyers = [f \in Frontiers |-> {}]
  /\ voters = {}
  /\ total_frontier_service_weight = 0
  /\ recent = [f \in Frontiers |-> NoEntries]

-----------------------------------------------------------------------------
(* set_service_weight.                                                     *)

\* The entries from d to the one before today's, round the window.
DaysFrom(d) == {e \in Days : (e - d) % WindowDays < (day - d) % WindowDays}

\* Those are closed by the first visit of another day.
Closed(f) == service_window_state[f] \cup (IF privIdx[f] = NoDay THEN {} ELSE DaysFrom(privIdx[f]))

\* An entry that is closed when it is visited is of an earlier round.
Dropped(f) == IF day \in Closed(f) THEN service_weight_window[f][day] ELSE 0

\* slip: the entry stays closed after it has begun anew
VisitStillClosed(S, weight) ==
  /\ service_weight_window' = [f \in Frontiers |->
       IF f \in S THEN [service_weight_window[f] EXCEPT ![day] = @ - Dropped(f) + weight]
                  ELSE service_weight_window[f]]
  /\ service_weights' = [f \in Frontiers |->
       IF f \in S THEN service_weights[f] - Dropped(f) + weight ELSE service_weights[f]]
  /\ service_window_state' = [f \in Frontiers |->
       IF f \in S THEN Closed(f) ELSE service_window_state[f]]
  /\ privIdx' = [f \in Frontiers |-> IF f \in S THEN day ELSE privIdx[f]]

\* slip: the dropped entry is taken from the total only
VisitKeepsWeight(S, weight) ==
  /\ service_weight_window' = [f \in Frontiers |->
       IF f \in S THEN [service_weight_window[f] EXCEPT ![day] = @ - Dropped(f) + weight]
                  ELSE service_weight_window[f]]
  /\ service_weights' = [f \in Frontiers |->
       IF f \in S THEN service_weights[f] + weight ELSE service_weights[f]]
  /\ service_window_state' = [f \in Frontiers |->
       IF f \in S THEN Closed(f) \ {day} ELSE service_window_state[f]]
  /\ privIdx' = [f \in Frontiers |-> IF f \in S THEN day ELSE privIdx[f]]

\* Adds a weight to today's entry of the frontiers in S; an old entry makes way.
Visit(S, weight) ==
  /\ service_weight_window' = [f \in Frontiers |->
       IF f \in S THEN [service_weight_window[f] EXCEPT ![day] = @ - Dropped(f) + weight]
                  ELSE service_weight_window[f]]
  /\ service_weights' = [f \in Frontiers |->
       IF f \in S THEN service_weights[f] - Dropped(f) + weight ELSE service_weights[f]]
  /\ service_window_state' = [f \in Frontiers |->
       IF f \in S THEN Closed(f) \ {day} ELSE service_window_state[f]]
  /\ privIdx' = [f \in Frontiers |-> IF f \in S THEN day ELSE privIdx[f]]

-----------------------------------------------------------------------------
(* Purchases.                                                              *)

\* What all three have in common; only what persons buy counts.
Purchase(b, q, f) ==
  /\ f \in frontiers /\ f \in is_active
  /\ total_frontier_service_weight + q <= MaxWeight   \* bound
  /\ voters' = voters \cup {b}
  /\ \/ /\ b \in Persons
        /\ Visit({f}, q)
        /\ decrease_service_weight' = [decrease_service_weight EXCEPT ![f] = @ + Dropped(f)]
        /\ total_frontier_service_weight' = total_frontier_service_weight + q
        /\ buyers' = [buyers EXCEPT ![f] = @ \cup {b}]
        /\ recent' = [recent EXCEPT ![f][day] = @ + q]
     \/ b \notin Persons /\ UNCHANGED <<weights, buyers, recent>>
  /\ UNCHANGED <<clock, rows>>

\* Dapp tokens are paid for the tokens, and a part of the tokens is paid back to
\* a person who is not among the buyers yet; the token refuses to transfer nothing.
BuyService(b, q, f) ==
  /\ (transfer_ratio[f] * q) \div 10000 > 0
  /\ b \in Persons \ buyers[f] => (q * 5) \div 100 > 0
  /\ Purchase(b, q, f)

\* Without dapp tokens and payback.
BuyLedService(b, q, f) == Purchase(b, q, f)

\* The tokens go to a provider under the frontier's domain.
BuyLedSvcDom(b, q, f) == Purchase(b, q, f)

Sale(f) ==
  \E b \in Buyers, q \in Quantities :
    BuyService(b, q, f) \/ BuyLedService(b, q, f) \/ BuyLedSvcDom(b, q, f)

-----------------------------------------------------------------------------
(* The daily update, at the beginning of update_elected_producers.         *)

UpdateDue == electing /\ table_slots > SlotsPerDay

\* slip: frontiers that are not active are passed over
UpdateServicesOfActive ==
  LET S == frontiers \cap is_active
      gone == [f \in Frontiers |-> IF f \in S THEN decrease_service_weight[f] + Dropped(f) ELSE 0]
  IN  /\ UpdateDue
      /\ table_slots' = 0
      /\ Visit(S, 0)
      /\ total_frontier_service_weight' = total_frontier_service_weight - SumFunction(gone)
      /\ decrease_service_weight' = [f \in Frontiers |->
                                       IF f \in S THEN 0 ELSE decrease_service_weight[f]]
      /\ UNCHANGED <<electing, day, slot, buyers_slots, rows, buyers, voters, recent>>

\* slip: what has been taken from the total is taken from it again
UpdateServicesAgain ==
  LET gone == [f \in Frontiers |->
                 IF f \in frontiers THEN decrease_service_weight[f] + Dropped(f) ELSE 0]
  IN  /\ UpdateDue
      /\ table_slots' = 0
      /\ Visit(frontiers, 0)
      /\ total_frontier_service_weight' = total_frontier_service_weight - SumFunction(gone)
      /\ decrease_service_weight' = gone
      /\ UNCHANGED <<electing, day, slot, buyers_slots, rows, buyers, voters, recent>>

\* Every four weeks the buyers are forgotten, if there is a frontier at all.
UpdateServices ==
  LET gone == [f \in Frontiers |->
                 IF f \in frontiers THEN decrease_service_weight[f] + Dropped(f) ELSE 0]
      isclear == buyers_slots > BuyersPeriod /\ frontiers # {}
  IN  /\ UpdateDue
      /\ table_slots' = 0
      /\ Visit(frontiers, 0)
      /\ total_frontier_service_weight' = total_frontier_service_weight - SumFunction(gone)
      /\ decrease_service_weight' = [f \in Frontiers |->
                                       IF f \in frontiers THEN 0 ELSE decrease_service_weight[f]]
      /\ buyers' = IF isclear THEN [f \in Frontiers |-> {}] ELSE buyers
      /\ buyers_slots' = IF isclear THEN 0 ELSE buyers_slots
      /\ UNCHANGED <<electing, day, slot, rows, voters, recent>>

-----------------------------------------------------------------------------
(* The registry, the administrator and the clock.                          *)

\* The issuer of the dapp token holds at least the ratio.
RegFrontier(f, ratio) ==
  /\ frontiers' = frontiers \cup {f}
  /\ is_active' = is_active \cup {f}
  /\ transfer_ratio' = [transfer_ratio EXCEPT ![f] = ratio]
  /\ UNCHANGED <<clock, weights, buyers, voters, recent>>

ChangeRatio(f, ratio) ==
  /\ f \in frontiers
  /\ transfer_ratio' = [transfer_ratio EXCEPT ![f] = ratio]
  /\ UNCHANGED <<clock, weights, frontiers, is_active, buyers, voters, recent>>

\* unregprod, rmvproducer and punishment; punishoff.
SetActive(f, active) ==
  /\ f \in frontiers
  /\ is_active' = IF active THEN is_active \cup {f} ELSE is_active \ {f}
  /\ UNCHANGED <<clock, weights, frontiers, transfer_ratio, buyers, voters, recent>>

\* unregproduce erases the row and leaves the total.
Erase(f) ==
  /\ f \in frontiers
  /\ frontiers' = frontiers \ {f}
  /\ is_active' = is_active \ {f}
  /\ transfer_ratio' = [transfer_ratio EXCEPT ![f] = 0]
  /\ service_weights' = [service_weights EXCEPT ![f] = 0]
  /\ service_weight_window' = [service_weight_window EXCEPT ![f] = NoEntries]
  /\ service_window_state' = [service_window_state EXCEPT ![f] = {}]
  /\ privIdx' = [privIdx EXCEPT ![f] = NoDay]
  /\ decrease_service_weight' = [decrease_service_weight EXCEPT ![f] = 0]
  /\ buyers' = [buyers EXCEPT ![f] = {}]
  /\ recent' = [recent EXCEPT ![f] = NoEntries]
  /\ UNCHANGED <<clock, voters, total_frontier_service_weight>>

\* activate and deactivate; what makes onblock abort (LedElection!Halted), and its end.
SetElecting(on) ==
  /\ electing' = on
  /\ UNCHANGED <<day, slot, table_slots, buyers_slots, weights, rows, buyers, voters, recent>>

Capped(x, bound) == IF x > bound THEN bound ELSE x

\* While there are elections, one is held every minute: an update that is due does not
\* wait for another slot.  A new day has had no sales yet.
NextSlot ==
  /\ ~ UpdateDue
  /\ table_slots' = Capped(table_slots + 1, SlotsPerDay + 1)
  /\ buyers_slots' = Capped(buyers_slots + 1, BuyersPeriod + 1)
  /\ \/ slot < SlotsPerDay - 1 /\ slot' = slot + 1 /\ UNCHANGED <<day, recent>>
     \/ /\ slot = SlotsPerDay - 1
        /\ slot' = 0
        /\ day' = (day + 1) % WindowDays
        /\ recent' = [f \in Frontiers |-> [recent[f] EXCEPT ![day'] = 0]]
  /\ UNCHANGED <<electing, weights, rows, buyers, voters>>

Next ==
  \/ \E f \in Frontiers :
       \/ Sale(f)
       \/ \E ratio \in Ratios : RegFrontier(f, ratio) \/ ChangeRatio(f, ratio)
       \/ \E active \in BOOLEAN : SetActive(f, active)
       \/ Erase(f)
  \/ UpdateServices
  \/ \E on \in BOOLEAN : SetElecting(on)
  \/ NextSlot

Spec == Init /\ [][Next]_vars

\* Blocks keep coming, and with them elections, unless onblock does not get there.
Fairness == WF_vars(NextSlot) /\ WF_vars(UpdateServices)
FairSpec == Spec /\ Fairness

-----------------------------------------------------------------------------
(* Only a frontier with a row has weights, entries and buyers, and none of *)
(* them is ever negative, though entries are dropped from a sum and later  *)
(* from a total.                                                           *)
TypeOK ==
  /\ electing \in BOOLEAN
  /\ day \in Days /\ slot \in 0 .. SlotsPerDay - 1
  /\ table_slots \in 0 .. SlotsPerDay + 1 /\ buyers_slots \in 0 .. BuyersPeriod + 1
  /\ frontiers \subseteq Frontiers /\ is_active \subseteq frontiers
  /\ transfer_ratio \in [Frontiers -> Ratios \cup {0}]
  /\ service_weights \in [Frontiers -> Nat]
  /\ service_weight_window \in [Frontiers -> [Days -> Nat]]
  /\ service_window_state \in [Frontiers -> SUBSET Days]
  /\ privIdx \in [Frontiers -> Days \cup {NoDay}]
  /\ decrease_service_weight \in [Frontiers -> Nat]
  /\ buyers \in [Frontiers -> SUBSET Persons]
  /\ voters \subseteq Buyers
  /\ total_frontier_service_weight \in Nat
  /\ recent \in [Frontiers -> [Days -> Nat]]

(* The weight a frontier is elected with is the sum of its entries,        *)
(* however purchases, updates and days follow each other.                  *)
WeightIsWindow ==
  \A f \in Frontiers : service_weights[f] = SumEntries(service_weight_window[f])

(* The total that rewards are shared by covers every frontier's weight and *)
(* what has been dropped since the last update; it is more only by what    *)
(* erased frontiers leave behind.                                          *)
TotalCoversServices ==
  total_frontier_service_weight >=
    SumFunction(service_weights) + SumFunction(decrease_service_weight)

(* No sale of the last WindowDays days is lost: each day's entry holds at  *)
(* least what was sold on it, whichever days went by without a visit.      *)
RecentSalesCount ==
  \A f \in Frontiers, d \in Days : service_weight_window[f][d] >= recent[f][d]

(* Sales fade: a frontier that sells nothing any more loses its weight,    *)
(* also when it is not active, unless the chain is deactivated or onblock  *)
(* aborts again and again.                                                 *)
SalesFade ==
  \A f \in Frontiers :
    \/ []<>(service_weights[f] = 0)
    \/ []<><<Sale(f)>>_vars
    \/ []<>(~ electing)

=============================================================================
