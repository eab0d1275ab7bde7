-------------------------- MODULE LedServicesProofs --------------------------
(***************************************************************************)
(* Theorems about LedServices, for any number of frontiers, any length of  *)
(* the window and any bounds.                                              *)
(*                                                                         *)
(* The three safety invariants the run checks are not inductive by         *)
(* themselves: an entry is dropped when it is closed, and that it then     *)
(* holds no recent sale depends on which days are closed.  The entry       *)
(* visited last is never closed, and before the first visit of a day there *)
(* was no sale on it.                                                      *)
(***************************************************************************)
EXTENDS LedServices, LedResources, SumTheorems

\* The entry visited last is open.
LastIsOpen ==
  \A f \in Frontiers : privIdx[f] # NoDay => privIdx[f] \notin service_window_state[f]

\* Sales visit the entry of their day.
SalesVisit ==
  \A f \in Frontiers : privIdx[f] # day => recent[f][day] = 0

IInv ==
  /\ TypeOK
  /\ WeightIsWindow
  /\ TotalCoversServices
  /\ RecentSalesCount
  /\ LastIsOpen
  /\ SalesVisit

Total(w) == SumFunctionOnSet(w, Frontiers)

LEMMA DaysFinite == IsFiniteSet(Days)
  BY ServicesAssumption, FS_Interval DEF Days

LEMMA TotalOfFunction ==
  ASSUME NEW w, DOMAIN w = Frontiers
  PROVE  SumFunction(w) = Total(w)
  BY DEF SumFunction, Total

LEMMA InitIInv == Init => IInv
<1>. SUFFICES ASSUME Init PROVE IInv
  OBVIOUS
<1>. USE ServicesAssumption
<1>1. NoEntries \in [Days -> Nat] /\ \A d \in Days : NoEntries[d] = 0
  BY DEF NoEntries
<1>2. 0 \in Days /\ NoDay \notin Days
  BY DEF Days, NoDay
<1>3. TypeOK
  <2>1. /\ 0 \in 0 .. SlotsPerDay - 1
        /\ SlotsPerDay + 1 \in 0 .. SlotsPerDay + 1
        /\ BuyersPeriod + 1 \in 0 .. BuyersPeriod + 1
    OBVIOUS
  <2>. QED  BY <1>1, <1>2, <2>1 DEF Init, TypeOK
<1>4. WeightIsWindow
  BY <1>1, DaysFinite, SumZero DEF Init, WeightIsWindow, SumEntries
<1>5. TotalCoversServices
  <2>. DEFINE zero == [f \in Frontiers |-> 0]
  <2>1. Total(zero) = 0
    BY SumZero DEF Total
  <2>2. SumFunction(zero) = 0
    BY <2>1, TotalOfFunction
  <2>3. service_weights = zero /\ decrease_service_weight = zero
        /\ total_frontier_service_weight = 0
    BY DEF Init
  <2>. HIDE DEF zero
  <2>. QED  BY <2>2, <2>3 DEF TotalCoversServices
<1>6. RecentSalesCount /\ LastIsOpen /\ SalesVisit
  BY <1>1, <1>2 DEF Init, RecentSalesCount, LastIsOpen, SalesVisit
<1>. QED  BY <1>3, <1>4, <1>5, <1>6 DEF IInv

-----------------------------------------------------------------------------
(* What a visit does.                                                      *)

\* Nothing is closed from today round to today.
LEMMA NoDaysFromToday ==
  ASSUME day \in Days
  PROVE  DaysFrom(day) = {}
<1>1. \A e \in Days : (e - day) % WindowDays >= 0
  BY ServicesAssumption DEF Days
<1>2. (day - day) % WindowDays = 0
  BY ServicesAssumption DEF Days
<1>3. ASSUME NEW e \in Days PROVE ~ ((e - day) % WindowDays < (day - day) % WindowDays)
  <2>1. (e - day) % WindowDays \in Int
    BY ServicesAssumption DEF Days
  <2>. QED  BY <1>1, <1>2, <2>1
<1>. QED  BY <1>3, Zenon DEF DaysFrom

\* A dropped entry is a part of the weight, and holds no recent sale.
LEMMA DroppedIsOld ==
  ASSUME IInv, NEW f \in Frontiers
  PROVE  /\ Dropped(f) \in Nat
         /\ Dropped(f) <= service_weight_window[f][day]
         /\ Dropped(f) <= service_weights[f]
         /\ Dropped(f) # 0 => Dropped(f) = service_weight_window[f][day] /\ recent[f][day] = 0
<1>. USE DEF IInv, TypeOK
<1>1. service_weight_window[f] \in [Days -> Nat] /\ day \in Days
  OBVIOUS
<1>2. service_weight_window[f][day] <= service_weights[f]
  <2>1. service_weights[f] = SumFunctionOnSet(service_weight_window[f], Days)
    BY DEF WeightIsWindow, SumEntries
  <2>2. \A d \in Days : service_weight_window[f][d] \in Nat
    BY <1>1
  <2>. HIDE DEF IInv, TypeOK
  <2>3. service_weight_window[f][day] <= SumFunctionOnSet(service_weight_window[f], Days)
    BY <1>1, <2>2, DaysFinite, SumBoundsTerm
  <2>. QED  BY <2>1, <2>3
<1>3. day \in Closed(f) => privIdx[f] # day
  BY <1>1, NoDaysFromToday, ServicesAssumption DEF Closed, LastIsOpen, NoDay, Days
<1>4. service_weight_window[f][day] \in Nat /\ service_weights[f] \in Nat
  BY <1>1
<1>. QED
  BY <1>2, <1>3, <1>4 DEF Dropped, SalesVisit

LEMMA VisitAdds ==
  ASSUME IInv, NEW S \in SUBSET Frontiers, NEW weight \in Nat, Visit(S, weight)
  PROVE  /\ service_weights' \in [Frontiers -> Nat]
         /\ service_weight_window' \in [Frontiers -> [Days -> Nat]]
         /\ service_window_state' \in [Frontiers -> SUBSET Days]
         /\ privIdx' = [f \in Frontiers |-> IF f \in S THEN day ELSE privIdx[f]]
         /\ WeightIsWindow'
         /\ LastIsOpen'
         /\ \A f \in Frontiers, d \in Days :
              service_weight_window'[f][d] >=
                recent[f][d] + (IF f \in S /\ d = day THEN weight ELSE 0)
         /\ \A f \in Frontiers :
              service_weights'[f] =
                IF f \in S THEN service_weights[f] - Dropped(f) + weight ELSE service_weights[f]
<1>. USE DEF IInv, TypeOK
<1>1. day \in Days /\ NoDay \notin Days
  BY ServicesAssumption DEF Days, NoDay
<1>2. ASSUME NEW f \in Frontiers
      PROVE  /\ service_weights[f] \in Nat /\ service_weight_window[f] \in [Days -> Nat]
             /\ service_weight_window[f][day] \in Nat
             /\ recent[f] \in [Days -> Nat] /\ recent[f][day] \in Nat
             /\ \A d \in Days : service_weight_window[f][d] >= recent[f][d]
             /\ service_weights[f] = SumEntries(service_weight_window[f])
  BY <1>1 DEF RecentSalesCount, WeightIsWindow
<1>. DEFINE entries(f) ==
              [service_weight_window[f] EXCEPT ![day] = @ - Dropped(f) + weight]
<1>3. ASSUME NEW f \in Frontiers
      PROVE  /\ entries(f) \in [Days -> Nat]
             /\ entries(f)[day] = service_weight_window[f][day] - Dropped(f) + weight
             /\ \A d \in Days \ {day} : entries(f)[d] = service_weight_window[f][d]
  <2>1. service_weight_window[f][day] - Dropped(f) + weight \in Nat
    BY <1>2, DroppedIsOld
  <2>. QED  BY <1>1, <1>2, <2>1
<1>4. /\ service_weight_window' =
           [f \in Frontiers |-> IF f \in S THEN entries(f) ELSE service_weight_window[f]]
      /\ service_weights' = [f \in Frontiers |->
           IF f \in S THEN service_weights[f] - Dropped(f) + weight ELSE service_weights[f]]
      /\ service_window_state' = [f \in Frontiers |->
           IF f \in S THEN Closed(f) \ {day} ELSE service_window_state[f]]
      /\ privIdx' = [f \in Frontiers |-> IF f \in S THEN day ELSE privIdx[f]]
  BY DEF Visit
<1>5. service_weights' \in [Frontiers -> Nat]
  <2>1. \A f \in Frontiers : service_weights[f] - Dropped(f) + weight \in Nat
    BY <1>2, DroppedIsOld
  <2>. QED  BY <1>2, <1>4, <2>1
<1>6. service_weight_window' \in [Frontiers -> [Days -> Nat]]
  <2>. HIDE DEF entries
  <2>. QED  BY <1>2, <1>3, <1>4
<1>7. service_window_state' \in [Frontiers -> SUBSET Days]
  <2>1. \A f \in Frontiers : Closed(f) \in SUBSET Days
    BY DEF Closed, DaysFrom
  <2>. QED  BY <1>4, <2>1
<1>8. WeightIsWindow'
  <2>1. ASSUME NEW f \in S
        PROVE  SumEntries(entries(f)) = service_weights[f] - Dropped(f) + weight
    <3>. f \in Frontiers
      OBVIOUS
    <3>. DEFINE old == service_weight_window[f]
                new == entries(f)
    <3>1. /\ \A d \in Days : old[d] \in Int /\ new[d] \in Int
          /\ \A d \in Days \ {day} : new[d] = old[d]
      BY <1>2, <1>3
    <3>. HIDE DEF entries, old, new, IInv, TypeOK
    <3>2. SumFunctionOnSet(new, Days) = SumFunctionOnSet(old, Days) - old[day] + new[day]
      BY <1>1, <3>1, DaysFinite, SumUpdate
    <3>3. SumEntries(entries(f)) =
            SumEntries(service_weight_window[f]) - service_weight_window[f][day] + entries(f)[day]
      BY <3>2 DEF SumEntries, old, new
    <3>4. entries(f)[day] = service_weight_window[f][day] - Dropped(f) + weight
      BY <1>3
    <3>5. service_weights[f] \in Nat /\ service_weight_window[f][day] \in Nat
      BY <1>2
    <3>6. Dropped(f) \in Nat
      BY DroppedIsOld
    <3>7. service_weights[f] = SumEntries(service_weight_window[f])
      BY <1>2
    <3>. QED  BY <3>3, <3>4, <3>5, <3>6, <3>7
  <2>. HIDE DEF entries
  <2>. QED  BY <1>2, <1>4, <2>1 DEF WeightIsWindow
<1>9. LastIsOpen'
  BY <1>1, <1>4 DEF LastIsOpen
<1>10. ASSUME NEW f \in Frontiers, NEW d \in Days
       PROVE  service_weight_window'[f][d] >=
                recent[f][d] + (IF f \in S /\ d = day THEN weight ELSE 0)
  <2>1. CASE f \in S /\ d = day
    <3>1. service_weight_window'[f][d] = service_weight_window[f][day] - Dropped(f) + weight
      BY <1>3, <1>4, <2>1
    <3>2. Dropped(f) = 0 \/ (Dropped(f) = service_weight_window[f][day] /\ recent[f][day] = 0)
      BY DroppedIsOld
    <3>. QED  BY <1>1, <1>2, <2>1, <3>1, <3>2
  <2>2. CASE ~ (f \in S /\ d = day)
    <3>1. service_weight_window'[f][d] = service_weight_window[f][d]
      BY <1>3, <1>4, <2>2
    <3>2. recent[f][d] \in Nat
      BY <1>2
    <3>. QED  BY <1>2, <2>2, <3>1, <3>2
  <2>. QED  BY <2>1, <2>2
<1>11. \A f \in Frontiers :
         service_weights'[f] =
           IF f \in S THEN service_weights[f] - Dropped(f) + weight ELSE service_weights[f]
  BY <1>4
<1>. HIDE DEF entries, IInv, TypeOK
<1>. QED  BY <1>4, <1>5, <1>6, <1>7, <1>8, <1>9, <1>10, <1>11

-----------------------------------------------------------------------------
(* The steps.                                                              *)

LEMMA TotalUpdate ==
  ASSUME NEW w \in [Frontiers -> Nat], NEW w2 \in [Frontiers -> Nat], NEW f \in Frontiers,
         \A g \in Frontiers \ {f} : w2[g] = w[g]
  PROVE  SumFunction(w2) = SumFunction(w) - w[f] + w2[f]
<1>1. /\ \A g \in Frontiers : w[g] \in Int /\ w2[g] \in Int
      /\ DOMAIN w = Frontiers /\ DOMAIN w2 = Frontiers
  OBVIOUS
<1>2. Total(w2) = Total(w) - w[f] + w2[f]
  BY <1>1, ServicesAssumption, SumUpdate DEF Total
<1>. QED  BY <1>1, <1>2, TotalOfFunction

LEMMA TotalIsNat ==
  ASSUME NEW w \in [Frontiers -> Nat]
  PROVE  SumFunction(w) \in Nat
<1>1. \A g \in Frontiers : w[g] \in Nat
  OBVIOUS
<1>. QED  BY <1>1, ServicesAssumption, SumNatural, TotalOfFunction DEF Total

LEMMA PurchaseKeeps ==
  ASSUME IInv, NEW b \in Buyers, NEW q \in Quantities, NEW f \in Frontiers, Purchase(b, q, f)
  PROVE  IInv'
<1>1. q \in Nat
  BY ServicesAssumption
<1>2. CASE b \notin Persons
  <2>1. UNCHANGED <<clock, weights, rows, buyers, recent>> /\ voters' = voters \cup {b}
    BY <1>2 DEF Purchase
  <2>. QED
    BY <2>1 DEF IInv, TypeOK, WeightIsWindow, TotalCoversServices, RecentSalesCount, LastIsOpen,
                SalesVisit, clock, weights, rows
<1>3. CASE b \in Persons
  <2>1. /\ Visit({f}, q)
        /\ decrease_service_weight' = [decrease_service_weight EXCEPT ![f] = @ + Dropped(f)]
        /\ total_frontier_service_weight' = total_frontier_service_weight + q
        /\ buyers' = [buyers EXCEPT ![f] = @ \cup {b}]
        /\ recent' = [recent EXCEPT ![f][day] = @ + q]
        /\ voters' = voters \cup {b}
        /\ UNCHANGED <<clock, rows>>
    BY <1>3 DEF Purchase
  <2>2. /\ service_weights' \in [Frontiers -> Nat]
        /\ service_weight_window' \in [Frontiers -> [Days -> Nat]]
        /\ service_window_state' \in [Frontiers -> SUBSET Days]
        /\ privIdx' = [g \in Frontiers |-> IF g \in {f} THEN day ELSE privIdx[g]]
        /\ WeightIsWindow'
        /\ LastIsOpen'
        /\ \A g \in Frontiers, d \in Days :
             service_weight_window'[g][d] >=
               recent[g][d] + (IF g \in {f} /\ d = day THEN q ELSE 0)
        /\ \A g \in Frontiers :
             service_weights'[g] =
               IF g \in {f} THEN service_weights[g] - Dropped(g) + q ELSE service_weights[g]
    BY <1>1, <2>1, VisitAdds
  <2>3. Dropped(f) \in Nat
    BY DroppedIsOld
  <2>4. /\ day \in Days /\ recent \in [Frontiers -> [Days -> Nat]]
        /\ decrease_service_weight \in [Frontiers -> Nat]
        /\ service_weights \in [Frontiers -> Nat]
        /\ privIdx \in [Frontiers -> Days \cup {NoDay}]
        /\ total_frontier_service_weight \in Nat
        /\ buyers \in [Frontiers -> SUBSET Persons]
    BY DEF IInv, TypeOK
  <2>5. /\ decrease_service_weight' \in [Frontiers -> Nat]
        /\ decrease_service_weight'[f] = decrease_service_weight[f] + Dropped(f)
        /\ \A g \in Frontiers \ {f} : decrease_service_weight'[g] = decrease_service_weight[g]
    BY <2>1, <2>3, <2>4
  <2>6. /\ recent' \in [Frontiers -> [Days -> Nat]]
        /\ \A g \in Frontiers, d \in Days :
             recent'[g][d] = recent[g][d] + (IF g \in {f} /\ d = day THEN q ELSE 0)
    BY <1>1, <2>1, <2>4
  <2>7. TypeOK'
    BY <1>1, <1>3, <2>1, <2>2, <2>4, <2>5, <2>6 DEF IInv, TypeOK, clock, rows
  <2>8. TotalCoversServices'
    <3>1. SumFunction(service_weights') =
            SumFunction(service_weights) - service_weights[f] + service_weights'[f]
      <4>1. service_weights' \in [Frontiers -> Nat]
        BY <2>2
      <4>2. \A g \in Frontiers \ {f} : service_weights'[g] = service_weights[g]
        BY <2>2
      <4>. QED  BY <2>4, <4>1, <4>2, TotalUpdate
    <3>2. SumFunction(decrease_service_weight') =
            SumFunction(decrease_service_weight) - decrease_service_weight[f]
              + decrease_service_weight'[f]
      BY <2>4, <2>5, TotalUpdate
    <3>3. SumFunction(service_weights) \in Nat /\ SumFunction(decrease_service_weight) \in Nat
      BY <2>4, TotalIsNat
    <3>4. service_weights'[f] = service_weights[f] - Dropped(f) + q
      BY <2>2
    <3>5. service_weights[f] \in Nat /\ decrease_service_weight[f] \in Nat
      BY <2>4
    <3>6. total_frontier_service_weight >=
            SumFunction(service_weights) + SumFunction(decrease_service_weight)
      BY DEF IInv, TotalCoversServices
    <3>7. total_frontier_service_weight' >=
            SumFunction(service_weights') + SumFunction(decrease_service_weight')
      BY <1>1, <2>1, <2>3, <2>4, <2>5, <3>1, <3>2, <3>3, <3>4, <3>5, <3>6
    <3>. QED  BY <3>7 DEF TotalCoversServices
  <2>9. RecentSalesCount'
    BY <2>2, <2>6 DEF RecentSalesCount
  <2>10. SalesVisit'
    BY <2>1, <2>2, <2>4, <2>6 DEF IInv, SalesVisit, clock
  <2>. QED  BY <2>2, <2>7, <2>8, <2>9, <2>10 DEF IInv
<1>. QED  BY <1>2, <1>3

LEMMA UpdateServicesKeeps ==
  ASSUME IInv, UpdateServices
  PROVE  IInv'
<1>. DEFINE gone == [f \in Frontiers |->
              IF f \in frontiers THEN decrease_service_weight[f] + Dropped(f) ELSE 0]
<1>1. /\ table_slots' = 0
      /\ Visit(frontiers, 0)
      /\ total_frontier_service_weight' = total_frontier_service_weight - SumFunction(gone)
      /\ decrease_service_weight' = [f \in Frontiers |->
                                       IF f \in frontiers THEN 0 ELSE decrease_service_weight[f]]
      /\ buyers' \in {[f \in Frontiers |-> {}], buyers}
      /\ buyers_slots' \in {0, buyers_slots}
      /\ UNCHANGED <<electing, day, slot, rows, voters, recent>>
  BY DEF UpdateServices
<1>2. /\ frontiers \in SUBSET Frontiers /\ day \in Days
      /\ recent \in [Frontiers -> [Days -> Nat]]
      /\ decrease_service_weight \in [Frontiers -> Nat]
      /\ service_weights \in [Frontiers -> Nat]
      /\ privIdx \in [Frontiers -> Days \cup {NoDay}]
      /\ total_frontier_service_weight \in Nat
  BY DEF IInv, TypeOK
<1>3. /\ service_weights' \in [Frontiers -> Nat]
      /\ service_weight_window' \in [Frontiers -> [Days -> Nat]]
      /\ service_window_state' \in [Frontiers -> SUBSET Days]
      /\ privIdx' = [f \in Frontiers |-> IF f \in frontiers THEN day ELSE privIdx[f]]
      /\ WeightIsWindow'
      /\ LastIsOpen'
      /\ \A f \in Frontiers, d \in Days :
           service_weight_window'[f][d] >=
             recent[f][d] + (IF f \in frontiers /\ d = day THEN 0 ELSE 0)
      /\ \A f \in Frontiers :
           service_weights'[f] =
             IF f \in frontiers THEN service_weights[f] - Dropped(f) + 0 ELSE service_weights[f]
  BY <1>1, <1>2, VisitAdds
<1>4. \A f \in Frontiers : Dropped(f) \in Nat
  BY DroppedIsOld
<1>5. decrease_service_weight' \in [Frontiers -> Nat] /\ gone \in [Frontiers -> Nat]
  BY <1>1, <1>2, <1>4
<1>6. \A f \in Frontiers : service_weights'[f] + decrease_service_weight'[f] + gone[f] =
                             service_weights[f] + decrease_service_weight[f]
  BY <1>1, <1>2, <1>3, <1>4
<1>. HIDE DEF gone
<1>7. SumFunction(service_weights') + SumFunction(decrease_service_weight') + SumFunction(gone) =
        SumFunction(service_weights) + SumFunction(decrease_service_weight)
  <2>1. service_weights' \in [Frontiers -> Nat]
    BY <1>3
  <2>2. service_weights \in [Frontiers -> Nat] /\ decrease_service_weight \in [Frontiers -> Nat]
    BY <1>2
  <2>. DEFINE w == service_weights    d == decrease_service_weight
              w2 == service_weights'  d2 == decrease_service_weight'
              both == [f \in Frontiers |-> w[f] + d[f]]
              both2 == [f \in Frontiers |-> w2[f] + d2[f]]
  <2>3. /\ \A f \in Frontiers :
             /\ w[f] \in Int /\ d[f] \in Int /\ w2[f] \in Int /\ d2[f] \in Int
             /\ both[f] = w[f] + d[f] /\ both2[f] = w2[f] + d2[f]
             /\ both2[f] \in Int /\ gone[f] \in Int /\ both[f] = both2[f] + gone[f]
        /\ DOMAIN w = Frontiers /\ DOMAIN d = Frontiers /\ DOMAIN w2 = Frontiers
        /\ DOMAIN d2 = Frontiers /\ DOMAIN gone = Frontiers
    BY <1>5, <1>6, <2>1, <2>2
  <2>. HIDE DEF w, d, w2, d2, both, both2
  <2>4. Total(both) = Total(w) + Total(d)
    BY <2>3, ServicesAssumption, SumPlus DEF Total
  <2>5. Total(both2) = Total(w2) + Total(d2)
    BY <2>3, ServicesAssumption, SumPlus DEF Total
  <2>6. Total(both) = Total(both2) + Total(gone)
    BY <2>3, ServicesAssumption, SumPlus DEF Total
  <2>7. SumFunction(w2) + SumFunction(d2) + SumFunction(gone) = SumFunction(w) + SumFunction(d)
    BY <2>3, <2>4, <2>5, <2>6, TotalOfFunction
  <2>. QED  BY <2>7 DEF w, d, w2, d2
<1>8. /\ SumFunction(service_weights') \in Nat /\ SumFunction(decrease_service_weight') \in Nat
      /\ SumFunction(gone) \in Nat
  BY <1>3, <1>5, TotalIsNat
<1>9. /\ total_frontier_service_weight' \in Nat
      /\ total_frontier_service_weight' >=
           SumFunction(service_weights') + SumFunction(decrease_service_weight')
  <2>1. total_frontier_service_weight >=
          SumFunction(service_weights) + SumFunction(decrease_service_weight)
    BY DEF IInv, TotalCoversServices
  <2>. QED  BY <1>1, <1>2, <1>7, <1>8, <2>1
<1>10. TypeOK'
  <2>1. /\ privIdx' \in [Frontiers -> Days \cup {NoDay}]
        /\ buyers' \in [Frontiers -> SUBSET Persons]
        /\ table_slots' \in 0 .. SlotsPerDay + 1
        /\ buyers_slots' \in 0 .. BuyersPeriod + 1
    BY <1>1, <1>2, <1>3, ServicesAssumption DEF IInv, TypeOK
  <2>. QED  BY <1>1, <1>3, <1>5, <1>9, <2>1 DEF IInv, TypeOK, rows
<1>11. RecentSalesCount'
  <2>1. \A f \in Frontiers, d \in Days : recent[f][d] \in Nat
    BY <1>2
  <2>. QED  BY <1>1, <1>3, <2>1 DEF RecentSalesCount
<1>12. SalesVisit'
  BY <1>1, <1>2, <1>3 DEF IInv, SalesVisit
<1>. QED  BY <1>3, <1>9, <1>10, <1>11, <1>12 DEF IInv, TotalCoversServices

LEMMA EraseKeeps ==
  ASSUME IInv, NEW f \in Frontiers, Erase(f)
  PROVE  IInv'
<1>1. NoEntries \in [Days -> Nat] /\ \A d \in Days : NoEntries[d] = 0
  BY DEF NoEntries
<1>2. /\ day \in Days
      /\ decrease_service_weight \in [Frontiers -> Nat]
      /\ service_weights \in [Frontiers -> Nat]
      /\ total_frontier_service_weight \in Nat
  BY DEF IInv, TypeOK
<1>3. TypeOK'
  BY <1>1 DEF Erase, IInv, TypeOK, clock
<1>4. WeightIsWindow'
  <2>1. SumEntries(NoEntries) = 0
    BY <1>1, DaysFinite, SumZero DEF SumEntries
  <2>. QED  BY <2>1 DEF Erase, IInv, TypeOK, WeightIsWindow
<1>5. TotalCoversServices'
  <2>1. /\ service_weights' \in [Frontiers -> Nat]
        /\ decrease_service_weight' \in [Frontiers -> Nat]
        /\ service_weights'[f] = 0 /\ decrease_service_weight'[f] = 0
        /\ \A g \in Frontiers \ {f} : /\ service_weights'[g] = service_weights[g]
                                       /\ decrease_service_weight'[g] = decrease_service_weight[g]
        /\ total_frontier_service_weight' = total_frontier_service_weight
    BY <1>2 DEF Erase
  <2>2. /\ SumFunction(service_weights') = SumFunction(service_weights) - service_weights[f] + 0
        /\ SumFunction(decrease_service_weight') =
             SumFunction(decrease_service_weight) - decrease_service_weight[f] + 0
    BY <1>2, <2>1, TotalUpdate
  <2>3. SumFunction(service_weights) \in Nat /\ SumFunction(decrease_service_weight) \in Nat
    BY <1>2, TotalIsNat
  <2>4. service_weights[f] \in Nat /\ decrease_service_weight[f] \in Nat
    BY <1>2
  <2>5. total_frontier_service_weight >=
          SumFunction(service_weights) + SumFunction(decrease_service_weight)
    BY DEF IInv, TotalCoversServices
  <2>. QED  BY <1>2, <2>1, <2>2, <2>3, <2>4, <2>5 DEF TotalCoversServices
<1>6. RecentSalesCount'
  BY <1>1 DEF Erase, IInv, TypeOK, RecentSalesCount
<1>7. LastIsOpen'
  BY DEF Erase, IInv, TypeOK, LastIsOpen
<1>8. SalesVisit'
  BY <1>1 DEF Erase, IInv, TypeOK, SalesVisit, clock
<1>. QED  BY <1>3, <1>4, <1>5, <1>6, <1>7, <1>8 DEF IInv

LEMMA NextSlotKeeps ==
  ASSUME IInv, NextSlot
  PROVE  IInv'
<1>1. /\ table_slots' = Capped(table_slots + 1, SlotsPerDay + 1)
      /\ buyers_slots' = Capped(buyers_slots + 1, BuyersPeriod + 1)
      /\ UNCHANGED <<electing, weights, rows, buyers, voters>>
  BY DEF NextSlot
<1>2. table_slots' \in 0 .. SlotsPerDay + 1 /\ buyers_slots' \in 0 .. BuyersPeriod + 1
  BY <1>1, ServicesAssumption DEF IInv, TypeOK, Capped
<1>3. WeightIsWindow' /\ TotalCoversServices' /\ LastIsOpen'
  BY <1>1 DEF IInv, WeightIsWindow, TotalCoversServices, LastIsOpen, weights
<1>4. CASE slot < SlotsPerDay - 1 /\ slot' = slot + 1 /\ UNCHANGED <<day, recent>>
  <2>1. slot' \in 0 .. SlotsPerDay - 1
    BY <1>4, ServicesAssumption DEF IInv, TypeOK
  <2>2. TypeOK'
    BY <1>1, <1>2, <1>4, <2>1 DEF IInv, TypeOK, weights, rows
  <2>3. RecentSalesCount' /\ SalesVisit'
    BY <1>1, <1>4 DEF IInv, RecentSalesCount, SalesVisit, weights
  <2>. QED  BY <1>3, <2>2, <2>3 DEF IInv
<1>5. CASE /\ slot' = 0
           /\ day' = (day + 1) % WindowDays
           /\ recent' = [f \in Frontiers |-> [recent[f] EXCEPT ![day'] = 0]]
  <2>1. day' \in Days /\ slot' \in 0 .. SlotsPerDay - 1
    BY <1>5, ServicesAssumption DEF IInv, TypeOK, Days
  <2>2. recent \in [Frontiers -> [Days -> Nat]]
    BY DEF IInv, TypeOK
  <2>3. /\ recent' \in [Frontiers -> [Days -> Nat]]
        /\ \A f \in Frontiers : recent'[f][day'] = 0
        /\ \A f \in Frontiers, d \in Days : recent'[f][d] \in {0, recent[f][d]}
    BY <1>5, <2>1, <2>2
  <2>4. TypeOK'
    BY <1>1, <1>2, <2>1, <2>3 DEF IInv, TypeOK, weights, rows
  <2>5. RecentSalesCount'
    <3>1. /\ service_weight_window' = service_weight_window
          /\ \A f \in Frontiers, d \in Days : service_weight_window[f][d] \in Nat
      BY <1>1 DEF IInv, TypeOK, weights
    <3>. QED  BY <2>2, <2>3, <3>1 DEF IInv, RecentSalesCount
  <2>6. SalesVisit'
    BY <2>3 DEF SalesVisit
  <2>. QED  BY <1>3, <2>4, <2>5, <2>6 DEF IInv
<1>. QED  BY <1>4, <1>5 DEF NextSlot

\* The registry and the administrator leave the weights alone.
LEMMA OthersKeep ==
  ASSUME IInv,
         frontiers' \subseteq Frontiers, is_active' \subseteq frontiers',
         transfer_ratio' \in [Frontiers -> Ratios \cup {0}], electing' \in BOOLEAN,
         UNCHANGED <<day, slot, table_slots, buyers_slots, weights, buyers, voters, recent>>
  PROVE  IInv'
  BY DEF IInv, TypeOK, WeightIsWindow, TotalCoversServices, RecentSalesCount, LastIsOpen,
         SalesVisit, weights

LEMMA StepIInv == IInv /\ [Next]_vars => IInv'
<1>. SUFFICES ASSUME IInv, [Next]_vars PROVE IInv'
  OBVIOUS
<1>. USE DEF clock, rows
<1>1. ASSUME NEW f \in Frontiers, Sale(f) PROVE IInv'
  BY <1>1, PurchaseKeeps DEF Sale, BuyService, BuyLedService, BuyLedSvcDom
<1>2. ASSUME NEW f \in Frontiers, NEW ratio \in Ratios,
             RegFrontier(f, ratio) \/ ChangeRatio(f, ratio)
      PROVE  IInv'
  <2>1. /\ frontiers' \subseteq Frontiers /\ is_active' \subseteq frontiers'
        /\ transfer_ratio' \in [Frontiers -> Ratios \cup {0}] /\ electing' \in BOOLEAN
        /\ UNCHANGED <<day, slot, table_slots, buyers_slots, weights, buyers, voters, recent>>
    BY <1>2 DEF RegFrontier, ChangeRatio, IInv, TypeOK
  <2>. QED  BY <2>1, OthersKeep
<1>3. ASSUME NEW f \in Frontiers, NEW active \in BOOLEAN, SetActive(f, active) PROVE IInv'
  <2>1. /\ frontiers' \subseteq Frontiers /\ is_active' \subseteq frontiers'
        /\ transfer_ratio' \in [Frontiers -> Ratios \cup {0}] /\ electing' \in BOOLEAN
        /\ UNCHANGED <<day, slot, table_slots, buyers_slots, weights, buyers, voters, recent>>
    BY <1>3 DEF SetActive, IInv, TypeOK
  <2>. QED  BY <2>1, OthersKeep
<1>4. ASSUME NEW f \in Frontiers, Erase(f) PROVE IInv'
  BY <1>4, EraseKeeps
<1>5. CASE UpdateServices
  BY <1>5, UpdateServicesKeeps
<1>6. ASSUME NEW on \in BOOLEAN, SetElecting(on) PROVE IInv'
  BY <1>6, OthersKeep DEF SetElecting, IInv, TypeOK
<1>7. CASE NextSlot
  BY <1>7, NextSlotKeeps
<1>8. CASE UNCHANGED vars
  BY <1>8, OthersKeep DEF vars, IInv, TypeOK
<1>. QED
  BY <1>1, <1>2, <1>3, <1>4, <1>5, <1>6, <1>7, <1>8 DEF Next

LEMMA Invariance == Spec => []IInv
  BY InitIInv, StepIInv, PTL DEF Spec

-----------------------------------------------------------------------------
(* TypeOK: no weight, entry or total goes negative, though entries are     *)
(* dropped from the one and later from the other.                          *)
THEOREM NothingNegative == Spec => []TypeOK
  BY Invariance, PTL DEF IInv

(* WeightIsWindow: a frontier's weight is the sum of its entries.          *)
THEOREM WeightOfWindow == Spec => []WeightIsWindow
  BY Invariance, PTL DEF IInv

(* TotalCoversServices: the total that rewards are shared by covers the    *)
(* weights of all frontiers and what is still to be taken from it.         *)
THEOREM TotalCovers == Spec => []TotalCoversServices
  BY Invariance, PTL DEF IInv

(* RecentSalesCount: no sale of the last WindowDays days is dropped.       *)
THEOREM RecentSalesStay == Spec => []RecentSalesCount
  BY Invariance, PTL DEF IInv

-----------------------------------------------------------------------------
(***************************************************************************)
(* The resource limits, for any number of accounts, any gift and any       *)
(* amounts.  ResourcesTypeOK and LimitsAreOwed are inductive together: every *)
(* step is about one account, and a limit that is not set by hand is set   *)
(* anew whenever what it follows from changes.                             *)
(***************************************************************************)
ResourcesInv == ResourcesTypeOK /\ LimitsAreOwed

LEMMA ResourcesInitInv == ResourcesInit => ResourcesInv
BY DEF ResourcesInit, ResourcesInv, ResourcesTypeOK, LimitsAreOwed, Nothing, Resources, Unlimited

\* What a trade makes of the limits: the RAM limit follows, or stays.
LEMMA TradeKeeps ==
  ASSUME ResourcesInv, NEW a \in accounts, NEW ram \in Nat,
         held' = [held EXCEPT ![a]["ram"] = ram],
         limit' = [limit EXCEPT ![a] = TradedLimit(a, ram)],
         userres \subseteq userres', userres' \subseteq accounts, a \in userres',
         UNCHANGED <<accounts, managed>>
  PROVE  ResourcesInv'
<1> USE ResourcesAssumption DEF Resources, Unlimited
<1>1. TradedLimit(a, ram) \in [Resources -> Nat \cup {Unlimited}]
  BY DEF ResourcesInv, ResourcesTypeOK, TradedLimit
<1>2. ResourcesTypeOK'
  BY <1>1 DEF ResourcesInv, ResourcesTypeOK
<1>3. LimitsAreOwed'
  BY DEF ResourcesInv, ResourcesTypeOK, LimitsAreOwed, TradedLimit
<1> QED
  BY <1>2, <1>3 DEF ResourcesInv

\* The same for a change of the stake.
LEMMA StakeKeeps ==
  ASSUME ResourcesInv, NEW a \in Accounts, NEW net \in Int, NEW cpu \in Int, ChangeBw(a, net, cpu)
  PROVE  ResourcesInv'
<1> USE ResourcesAssumption DEF Resources, Unlimited
<1> DEFINE h == [held[a] EXCEPT !["net"] = @ + net, !["cpu"] = @ + cpu]
<1>1. /\ a \in accounts /\ h["net"] >= 0 /\ h["cpu"] >= 0
      /\ held' = [held EXCEPT ![a] = h]
      /\ userres' = IF h = Nothing THEN userres \ {a} ELSE userres \cup {a}
      /\ limit' = [limit EXCEPT ![a] = StakedLimit(a, h)]
      /\ UNCHANGED <<accounts, managed>>
  BY DEF ChangeBw
<1>2. h \in [Resources -> Nat] /\ h["ram"] = held[a]["ram"]
  BY <1>1 DEF ResourcesInv, ResourcesTypeOK
<1> HIDE DEF h
<1>3. StakedLimit(a, h) \in [Resources -> Nat \cup {Unlimited}]
  BY <1>2 DEF ResourcesInv, ResourcesTypeOK, StakedLimit, AtLeast
<1>4. ResourcesTypeOK'
  BY <1>1, <1>2, <1>3 DEF ResourcesInv, ResourcesTypeOK
<1>5. ASSUME NEW b \in Accounts, "ram" \notin managed'[b], held'[b]["ram"] > 0
      PROVE  limit'[b]["ram"] = held'[b]["ram"] + Gift
  BY <1>1, <1>2, <1>5 DEF ResourcesInv, ResourcesTypeOK, LimitsAreOwed, StakedLimit, AtLeast
<1>6. ASSUME NEW b \in Accounts, held'[b]["net"] + held'[b]["cpu"] > 0,
             NEW r \in {"net", "cpu"} \ managed'[b]
      PROVE  limit'[b][r] = held'[b][r]
  <2>1. CASE b = a
    BY <1>1, <1>2, <1>6, <2>1 DEF ResourcesInv, ResourcesTypeOK, StakedLimit
  <2>2. CASE b # a
    BY <1>1, <1>6, <2>2 DEF ResourcesInv, ResourcesTypeOK, LimitsAreOwed
  <2> QED
    BY <2>1, <2>2
<1> QED
  BY <1>4, <1>5, <1>6 DEF ResourcesInv, LimitsAreOwed

LEMMA NextInv == ResourcesInv /\ [ResourcesNext]_resources_vars => ResourcesInv'
<1> SUFFICES ASSUME ResourcesInv, [ResourcesNext]_resources_vars PROVE ResourcesInv'
  OBVIOUS
<1> USE ResourcesAssumption DEF Resources, Unlimited
<1>1. ASSUME NEW a \in Accounts, NewAccount(a) PROVE ResourcesInv'
  BY <1>1 DEF NewAccount, Nothing, ResourcesInv, ResourcesTypeOK, LimitsAreOwed
<1>2. ASSUME NEW a \in Accounts, NEW bytes \in Amounts, BuyRam(a, bytes) PROVE ResourcesInv'
  <2>1. held[a]["ram"] + bytes \in Nat
    BY DEF ResourcesInv, ResourcesTypeOK
  <2> QED
    BY <1>2, <2>1, TradeKeeps DEF BuyRam, ResourcesInv, ResourcesTypeOK
<1>3. ASSUME NEW a \in Accounts, NEW bytes \in Amounts, SellRam(a, bytes) PROVE ResourcesInv'
  <2>1. held[a]["ram"] - bytes \in Nat
    BY <1>3 DEF SellRam, ResourcesInv, ResourcesTypeOK
  <2> QED
    BY <1>3, <2>1, TradeKeeps DEF SellRam, ResourcesInv, ResourcesTypeOK
<1>4. ASSUME NEW a \in Accounts, Stake(a) PROVE ResourcesInv'
  <2>1. PICK net \in Amounts \cup {0}, cpu \in Amounts \cup {0} :
               ChangeBw(a, net, cpu) \/ ChangeBw(a, -net, -cpu)
    BY <1>4 DEF Stake
  <2>2. net \in Int /\ cpu \in Int /\ -net \in Int /\ -cpu \in Int
    OBVIOUS
  <2> QED
    BY <2>1, <2>2, StakeKeeps
<1>5. ASSUME NEW a \in Accounts,
             NEW limits \in [Resources -> HandLimits \cup {0, Unlimited}], SetALimits(a, limits)
      PROVE  ResourcesInv'
  <2>1. limits \in [Resources -> Nat \cup {Unlimited}]
    <3>1. HandLimits \cup {0, -1} \subseteq Nat \cup {-1}
      OBVIOUS
    <3>2. \A r \in Resources : limits[r] \in Nat \cup {-1}
      BY <3>1
    <3> QED
      BY <3>2
  <2> QED
    BY <1>5, <2>1 DEF SetALimits, Nothing, ResourcesInv, ResourcesTypeOK, LimitsAreOwed
<1>6. ASSUME NEW a \in Accounts, NEW r \in Resources,
             NEW value \in HandLimits \cup {0, Unlimited}, SetAcct(a, r, value)
      PROVE  ResourcesInv'
  BY <1>6 DEF SetAcct, ResourcesInv, ResourcesTypeOK, LimitsAreOwed
<1>7. ASSUME NEW a \in Accounts, NEW r \in Resources, UnsetAcct(a, r) PROVE ResourcesInv'
  BY <1>7 DEF UnsetAcct, ResourcesInv, ResourcesTypeOK, LimitsAreOwed
<1>8. ASSUME UNCHANGED resources_vars PROVE ResourcesInv'
  BY <1>8 DEF resources_vars, ResourcesInv, ResourcesTypeOK, LimitsAreOwed
<1> QED
  BY <1>1, <1>2, <1>3, <1>4, <1>5, <1>6, <1>7, <1>8 DEF ResourcesNext

LEMMA SpecInv == ResourcesSpec => []ResourcesInv
BY ResourcesInitInv, NextInv, PTL DEF ResourcesSpec

(* Nobody holds less than nothing, and nothing is held without a row.      *)
THEOREM RowsHold == ResourcesSpec => []ResourcesTypeOK
<1>1. ResourcesInv => ResourcesTypeOK
  BY DEF ResourcesInv
<1> QED
  BY SpecInv, <1>1, PTL

(* Limits that are not set by hand are what is owed: bytes bought and the  *)
(* gift, tokens staked, whatever the order of calls.                       *)
THEOREM LimitsOwed == ResourcesSpec => []LimitsAreOwed
<1>1. ResourcesInv => LimitsAreOwed
  BY DEF ResourcesInv
<1> QED
  BY SpecInv, <1>1, PTL

-----------------------------------------------------------------------------
HandSetStep ==
  \A a \in Accounts : \A r \in managed[a] \cap managed'[a] :
    limit'[a][r] # limit[a][r] => UNCHANGED <<userres, held>>

\* Trading and staking keep off what is set by hand; the other actions that
\* change a limit change nothing that is held.
LEMMA StepHolds == ResourcesInv /\ [ResourcesNext]_resources_vars => HandSetStep
<1> SUFFICES ASSUME ResourcesInv, [ResourcesNext]_resources_vars, NEW a \in Accounts,
                    NEW r \in managed[a] \cap managed'[a],
                    ~ UNCHANGED <<userres, held>>
             PROVE  limit'[a][r] = limit[a][r]
  BY DEF HandSetStep
<1> USE ResourcesAssumption DEF Resources
<1>0. r \in Resources
  BY DEF ResourcesInv, ResourcesTypeOK
<1>1. ASSUME NEW b \in Accounts, NewAccount(b) PROVE limit'[a][r] = limit[a][r]
  <2>1. b # a
    BY <1>1 DEF NewAccount, ResourcesInv, ResourcesTypeOK
  <2> QED
    BY <1>1, <2>1 DEF NewAccount, ResourcesInv, ResourcesTypeOK
<1>2. ASSUME NEW b \in Accounts, NEW bytes \in Amounts, BuyRam(b, bytes) \/ SellRam(b, bytes)
      PROVE  limit'[a][r] = limit[a][r]
  <2>1. PICK ram : limit' = [limit EXCEPT ![b] = TradedLimit(b, ram)]
    BY <1>2 DEF BuyRam, SellRam
  <2> QED
    BY <1>0, <2>1 DEF TradedLimit, ResourcesInv, ResourcesTypeOK
<1>3. ASSUME NEW b \in Accounts, Stake(b) PROVE limit'[a][r] = limit[a][r]
  <2>1. PICK h : limit' = [limit EXCEPT ![b] = StakedLimit(b, h)]
    BY <1>3 DEF Stake, ChangeBw
  <2> QED
    BY <1>0, <2>1 DEF StakedLimit, ResourcesInv, ResourcesTypeOK
<1>4. ASSUME NEW b \in Accounts, NEW limits, SetALimits(b, limits) PROVE FALSE
  BY <1>4 DEF SetALimits
<1>5. ASSUME NEW b \in Accounts, NEW s, NEW value, SetAcct(b, s, value) PROVE FALSE
  BY <1>5 DEF SetAcct
<1>6. ASSUME NEW b \in Accounts, NEW s, UnsetAcct(b, s) PROVE FALSE
  BY <1>6 DEF UnsetAcct
<1>7. ASSUME UNCHANGED resources_vars PROVE FALSE
  BY <1>7 DEF resources_vars
<1> QED
  BY <1>1, <1>2, <1>3, <1>4, <1>5, <1>6, <1>7 DEF ResourcesNext

(* A limit set by hand changes in no step in which anything is traded or   *)
(* staked.                                                                 *)
THEOREM HandSetHold == ResourcesSpec => HandSetLimitsHold
<1>1. ResourcesInv /\ [ResourcesNext]_resources_vars => [HandSetStep]_resources_vars
  BY StepHolds
<1> QED
  BY SpecInv, <1>1, PTL DEF ResourcesSpec, HandSetLimitsHold, HandSetStep

=============================================================================
