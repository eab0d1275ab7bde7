-------------------------- MODULE LedElectionProofs --------------------------
(***************************************************************************)
(* Theorems about LedElection, for any candidates, any number of places    *)
(* and any periods and bounds.                                             *)
(*                                                                         *)
(* The registry's four facts are inductive together: a handler looks for   *)
(* the other row by the type of the producer, and finds it because each    *)
(* producer has exactly that one.  The elected are fit because of them: a  *)
(* punished producer has no active row, and each is of one kind only.      *)
(***************************************************************************)
EXTENDS LedElection, FiniteSetTheorems, TLAPS

IInv == TypeOK /\ RegistryStands

LEMMA InitIInv == Init => IInv
<1>. SUFFICES ASSUME Init PROVE IInv
  OBVIOUS
<1>1. TypeOK
  <2>1. LastSlot \in 0 .. LastSlot /\ 0 \in - MaxWeight .. MaxWeight /\ 0 \in 0 .. MaxCount
    BY ElectionAssumption
  <2>. QED  BY <2>1 DEF Init, TypeOK
<1>2. RegistryStands
  BY DEF Init, Registry!Init, RegistryStands, Registry!TypeOK, Registry!OneRowEach,
         Registry!ActiveIsElectable, Registry!PunishedIsInactive
<1>. QED  BY <1>1, <1>2 DEF IInv

-----------------------------------------------------------------------------
(* The registry.                                                           *)

LEMMA RegisterKeeps ==
  ASSUME IInv, NEW c \in Candidates, Register(c)
  PROVE  RegistryStands'
<1>. USE DEF IInv, RegistryStands, Registry!TypeOK, Registry!OneRowEach,
             Registry!ActiveIsElectable, Registry!PunishedIsInactive
<1>1. CASE Registry!RegFrontier(c)
  BY <1>1 DEF Registry!RegFrontier, Registry!Activate
<1>2. CASE Registry!RegInterior(c)
  BY <1>2 DEF Registry!RegInterior, Registry!Activate
<1>3. CASE Registry!UnregProd(c)
  BY <1>3 DEF Registry!UnregProd, Registry!DeactivateRow
<1>4. CASE Registry!Punish(c)
  BY <1>4 DEF Registry!Punish, Registry!DeactivateRow
<1>5. CASE Registry!PunishOff(c)
  BY <1>5 DEF Registry!PunishOff
<1>6. CASE Registry!RmvProducer(c)
  BY <1>6 DEF Registry!RmvProducer
<1>. QED
  BY <1>1, <1>2, <1>3, <1>4, <1>5, <1>6 DEF Register

LEMMA EraseKeeps ==
  ASSUME IInv, NEW c \in Candidates, Erase(c)
  PROVE  RegistryStands'
BY DEF IInv, RegistryStands, Registry!TypeOK, Registry!OneRowEach, Registry!ActiveIsElectable,
       Registry!PunishedIsInactive, Erase, Registry!UnregProduce

\* The watch punishes producers that have a row.
LEMMA WatchKeeps ==
  ASSUME IInv, NEW produced, NEW total, NEW elapsed, Watch(produced, total, elapsed),
         UNCHANGED <<producers, is_frontier, has_key, frontiers, interiors>>
  PROVE  RegistryStands'
<1>1. Slackers(produced, total, elapsed) \subseteq producers
  BY DEF Watch, Slackers
<1>2. PICK S \in SUBSET producers : PunishAll(S)
  BY <1>1 DEF Watch
<1>. QED
  BY <1>2 DEF PunishAll, IInv, RegistryStands, Registry!TypeOK, Registry!OneRowEach,
              Registry!ActiveIsElectable, Registry!PunishedIsInactive

LEMMA RegistryUnchanged ==
  ASSUME IInv, UNCHANGED registry
  PROVE  RegistryStands'
BY DEF IInv, RegistryStands, Registry!TypeOK, Registry!OneRowEach, Registry!ActiveIsElectable,
       Registry!PunishedIsInactive, registry

LEMMA OnBlockStands ==
  ASSUME IInv, NEW p, NEW slots \in 1 .. MaxSkip, OnBlock(p, slots)
  PROVE  RegistryStands'
<1>1. UNCHANGED <<producers, is_frontier, has_key, frontiers, interiors>>
  BY DEF OnBlock
<1>2. CASE \E produced, total, elapsed : Watch(produced, total, elapsed)
  BY <1>1, <1>2, WatchKeeps
<1>3. CASE UNCHANGED <<is_active, is_punished, row_active>>
  BY <1>1, <1>3, RegistryUnchanged DEF registry
<1>. QED  BY <1>2, <1>3 DEF OnBlock

-----------------------------------------------------------------------------
(* The election.                                                           *)

\* A heavier active row comes first in the order of the table.
LEMMA HeavierIsBefore ==
  ASSUME weight \in [Candidates -> Int], NEW rows,
         NEW c \in rows \cap Candidates, NEW d \in rows \cap Candidates, weight[d] > weight[c]
  PROVE  Before(rows, d, c)
<1>1. weight[c] \in Int /\ weight[d] \in Int
  OBVIOUS
<1>. QED  BY <1>1 DEF Before, Key

LEMMA BeforeIsTransitive ==
  ASSUME weight \in [Candidates -> Int], NEW rows,
         NEW c \in Candidates, NEW d \in Candidates, NEW e \in Candidates,
         Before(rows, e, d), Before(rows, d, c)
  PROVE  Before(rows, e, c)
<1>1. /\ Key(rows, c) \in Int /\ Key(rows, d) \in Int /\ Key(rows, e) \in Int
      /\ c \in Nat /\ d \in Nat /\ e \in Nat
  BY ElectionAssumption DEF Key
<1>. QED  BY <1>1 DEF Before

\* Whoever is before one that the loop reaches is reached and fit.
LEMMA ReachedBefore ==
  ASSUME weight \in [Candidates -> Int], NEW rows, NEW table \in SUBSET Candidates,
         NEW c \in Reached(rows, table), NEW d \in table, d # c, Before(rows, d, c)
  PROVE  d \in Reached(rows, table) /\ Fit(rows, d)
<1>1. c \in table /\ \A e \in table : e = c \/ Before(rows, e, c) => Fit(rows, e)
  BY DEF Reached
<1>2. ASSUME NEW e \in table, e = d \/ Before(rows, e, d) PROVE Fit(rows, e)
  <2>1. CASE e = d
    BY <1>1, <2>1
  <2>2. CASE Before(rows, e, d)
    <3>1. Before(rows, e, c)
      BY <1>1, <2>2, BeforeIsTransitive
    <3>. QED  BY <1>1, <3>1
  <2>. QED  BY <1>2, <2>1, <2>2
<1>3. d \in Reached(rows, table)
  BY <1>2 DEF Reached
<1>. QED  BY <1>1, <1>3

\* Whoever is before an elected one is elected with it.
LEMMA TopIsFirst ==
  ASSUME weight \in [Candidates -> Int], NEW rows, NEW S \in SUBSET Candidates, NEW n \in Int,
         NEW c \in Top(rows, S, n), NEW d \in S, Before(rows, d, c)
  PROVE  d \in Top(rows, S, n)
<1>. DEFINE before(x) == {e \in S : Before(rows, e, x)}
<1>1. c \in S /\ Cardinality(before(c)) < n
  BY DEF Top
<1>2. IsFiniteSet(S)
  BY ElectionAssumption, FS_Subset
<1>3. before(d) \subseteq before(c) /\ before(c) \subseteq S
  <2>1. ASSUME NEW e \in S, Before(rows, e, d) PROVE Before(rows, e, c)
    BY <1>1, <2>1, BeforeIsTransitive
  <2>. QED  BY <2>1
<1>4. IsFiniteSet(before(c)) /\ IsFiniteSet(before(d))
  <2>. HIDE DEF before
  <2>. QED  BY <1>2, <1>3, FS_Subset
<1>5. Cardinality(before(d)) <= Cardinality(before(c))
  <2>. HIDE DEF before
  <2>. QED  BY <1>3, <1>4, FS_Subset
<1>6. Cardinality(before(c)) \in Nat /\ Cardinality(before(d)) \in Nat
  <2>. HIDE DEF before
  <2>. QED  BY <1>4, FS_CardinalityType
<1>7. Cardinality(before(d)) < n
  <2>. HIDE DEF before
  <2>. QED  BY <1>1, <1>5, <1>6
<1>. QED  BY <1>7 DEF Top

\* The elected of one table are fit, and heavier active rows of it are elected too.
LEMMA TopIsFittest ==
  ASSUME weight \in [Candidates -> Int], NEW rows, NEW table \in SUBSET Candidates, NEW n \in Int,
         NEW c \in Top(rows, Reached(rows, table), n)
  PROVE  /\ c \in table /\ c \in rows
         /\ \A d \in table \cap rows :
              weight[d] > weight[c] => d \in Top(rows, Reached(rows, table), n)
<1>1. c \in Reached(rows, table)
  BY DEF Top
<1>2. c \in table /\ Fit(rows, c)
  BY <1>1 DEF Reached
<1>3. c \in rows
  BY <1>2 DEF Fit
<1>4. ASSUME NEW d \in table \cap rows, weight[d] > weight[c]
      PROVE  d \in Top(rows, Reached(rows, table), n)
  <2>1. Before(rows, d, c) /\ d # c
    <3>1. weight[c] \in Int /\ c \in rows \cap Candidates /\ d \in rows \cap Candidates
      BY <1>2, <1>3
    <3>2. d # c
      BY <1>4, <3>1
    <3>. QED  BY <1>4, <3>1, <3>2, HeavierIsBefore
  <2>2. d \in Reached(rows, table)
    BY <1>1, <2>1, ReachedBefore
  <2>3. Reached(rows, table) \in SUBSET Candidates
    BY DEF Reached
  <2>. QED  BY <2>1, <2>2, <2>3, TopIsFirst
<1>. QED  BY <1>2, <1>3, <1>4

LEMMA ElectOfCandidates ==
  ASSUME frontiers \subseteq Candidates, interiors \subseteq Candidates, NEW rows
  PROVE  Elect(rows) \in SUBSET Candidates
BY DEF Elect, Top, Reached

\* The elected are of the rows, and no heavier one of the same kind is passed over.
LEMMA ElectFittest ==
  ASSUME NEW rows, weight \in [Candidates -> Int],
         frontiers \in SUBSET Candidates, interiors \in SUBSET Candidates,
         frontiers \cap interiors = {}, rows \subseteq frontiers \cup interiors
  PROVE  /\ Elect(rows) \subseteq rows
         /\ \A c \in Elect(rows), d \in rows \ Elect(rows) :
              (c \in frontiers <=> d \in frontiers) => weight[d] <= weight[c]
<1>. DEFINE seats == (maximum_producers * 2) \div 3
            fs == Top(rows, Reached(rows, frontiers), seats)
            rest == maximum_producers - Cardinality(fs)
            is == Top(rows, Reached(rows, interiors), rest)
<1>1. Elect(rows) = fs \cup is
  BY DEF Elect
<1>2. seats \in Int /\ rest \in Int
  <2>1. fs \subseteq Candidates
    BY DEF Top, Reached
  <2>2. IsFiniteSet(fs)
    <3>. HIDE DEF fs
    <3>. QED  BY <2>1, ElectionAssumption, FS_Subset
  <2>3. Cardinality(fs) \in Nat
    <3>. HIDE DEF fs
    <3>. QED  BY <2>2, FS_CardinalityType
  <2>. QED  BY <2>3, ElectionAssumption
<1>3. \A c \in fs : /\ c \in frontiers /\ c \in rows
                    /\ \A d \in frontiers \cap rows : weight[d] > weight[c] => d \in fs
  <2>. HIDE DEF seats
  <2>. QED  BY <1>2, TopIsFittest
<1>4. \A c \in is : /\ c \in interiors /\ c \in rows
                    /\ \A d \in interiors \cap rows : weight[d] > weight[c] => d \in is
  <2>. HIDE DEF rest
  <2>. QED  BY <1>2, TopIsFittest
<1>. HIDE DEF fs, is
<1>5. ASSUME NEW c \in Elect(rows), NEW d \in rows \ Elect(rows),
             c \in frontiers <=> d \in frontiers
      PROVE  weight[d] <= weight[c]
  <2>1. ~ weight[d] > weight[c]
    BY <1>1, <1>3, <1>4, <1>5
  <2>2. weight[c] \in Int /\ weight[d] \in Int
    BY <1>1, <1>3, <1>4
  <2>. QED  BY <2>1, <2>2
<1>. QED  BY <1>1, <1>3, <1>4, <1>5

-----------------------------------------------------------------------------
(* The steps.                                                              *)

LEMMA CappedType ==
  ASSUME NEW x \in Nat, NEW bound \in Nat
  PROVE  Capped(x, bound) \in 0 .. bound
BY DEF Capped

LEMMA LaterType ==
  ASSUME NEW clock \in 0 .. LastSlot, NEW slots \in 1 .. MaxSkip
  PROVE  Later(clock, slots) \in 0 .. LastSlot
BY ElectionAssumption DEF Later, Capped

LEMMA UpdateElectedType ==
  ASSUME IInv, NEW rows, UpdateElected(rows)
  PROVE  proposed_producers' \subseteq Candidates /\ chain_proposed' \subseteq Candidates
<1>1. Elect(rows) \in SUBSET Candidates
  BY ElectOfCandidates DEF IInv, RegistryStands, Registry!TypeOK, Registry!OneRowEach
<1>. QED  BY <1>1 DEF IInv, TypeOK, UpdateElected

LEMMA OnBlockType ==
  ASSUME IInv, NEW p, NEW slots \in 1 .. MaxSkip, OnBlock(p, slots)
  PROVE  TypeOK'
<1>. DEFINE produced == Produced(p)
            total == Total(p)
            elapsed == Later(watch_slots, slots)
            since_update == Later(update_slots, slots)
<1>1. /\ total \in Nat
      /\ elapsed \in 0 .. LastSlot
      /\ since_update \in 0 .. LastSlot
      /\ 0 \in 0 .. LastSlot
  BY LaterType, ElectionAssumption DEF IInv, TypeOK, Total, One
<1>2. produced \in [Candidates -> 0 .. MaxCount]
  <2>1. ASSUME NEW c \in Candidates
        PROVE  Capped(interval_produce_blocks[c] + (IF c = p THEN One(p) ELSE 0), MaxCount)
                 \in 0 .. MaxCount
    <3>1. interval_produce_blocks[c] + (IF c = p THEN One(p) ELSE 0) \in Nat
      BY ElectionAssumption DEF IInv, TypeOK, One
    <3>. QED  BY <3>1, CappedType, ElectionAssumption
  <2>. QED  BY <2>1 DEF Produced
<1>. HIDE DEF produced, total, elapsed, since_update
<1>3. /\ \/ Watch(produced, total, elapsed)
         \/ /\ interval_produce_blocks' = produced /\ total_interval_produce_blocks' = total
            /\ watch_slots' = elapsed
      /\ active_producers' = IF new_version THEN proposed_producers ELSE active_producers
      /\ new_version' = FALSE
      /\ \/ UpdateElected(row_active') /\ update_slots' = 0
         \/ update_slots' = since_update /\ UNCHANGED <<proposed_producers, chain_proposed>>
      /\ UNCHANGED <<weight, chain_schedule>>
  BY DEF OnBlock, produced, total, elapsed, since_update
<1>5. /\ interval_produce_blocks' \in [Candidates -> 0 .. MaxCount]
      /\ total_interval_produce_blocks' \in Nat
      /\ watch_slots' \in 0 .. LastSlot
  <2>1. 0 \in 0 .. MaxCount
    BY ElectionAssumption
  <2>. QED  BY <1>1, <1>2, <1>3, <2>1 DEF Watch, ResetCounts
<1>6. /\ proposed_producers' \subseteq Candidates /\ chain_proposed' \subseteq Candidates
      /\ update_slots' \in 0 .. LastSlot
  BY <1>1, <1>3, UpdateElectedType DEF IInv, TypeOK
<1>. QED  BY <1>3, <1>5, <1>6 DEF IInv, TypeOK

LEMMA StepIInv == IInv /\ [Next]_vars => IInv'
<1>. SUFFICES ASSUME IInv, [Next]_vars PROVE IInv'
  OBVIOUS
<1>1. ASSUME NEW p, NEW slots \in 1 .. MaxSkip, OnBlock(p, slots) PROVE IInv'
  BY <1>1, OnBlockStands, OnBlockType DEF IInv
<1>2. ASSUME NEW p, NEW slots \in 1 .. MaxSkip, OnBlockAborts(p, slots) PROVE IInv'
  <2>1. /\ watch_slots' \in 0 .. LastSlot /\ update_slots' \in 0 .. LastSlot
        /\ UNCHANGED <<registry, weight, counts, schedules, chain>>
    BY <1>2, LaterType DEF OnBlockAborts, IInv, TypeOK
  <2>. QED
    BY <2>1, RegistryUnchanged DEF IInv, TypeOK, counts, schedules, chain
<1>3. CASE ChainActivates
  <2>1. TypeOK'
    BY <1>3 DEF ChainActivates, IInv, TypeOK, counts, clocks, schedules
  <2>. QED  BY <1>3, <2>1, RegistryUnchanged DEF ChainActivates, IInv
<1>4. ASSUME NEW c \in Candidates, Register(c) PROVE IInv'
  <2>1. UNCHANGED <<weight, counts, clocks, schedules, chain>>
    BY <1>4 DEF Register
  <2>2. TypeOK'
    BY <2>1 DEF IInv, TypeOK, counts, clocks, schedules, chain
  <2>. QED  BY <1>4, <2>2, RegisterKeeps DEF IInv
<1>5. ASSUME NEW c \in Candidates, Erase(c) PROVE IInv'
  <2>1. 0 \in - MaxWeight .. MaxWeight /\ 0 \in 0 .. MaxCount
    BY ElectionAssumption
  <2>2. TypeOK'
    BY <1>5, <2>1 DEF Erase, IInv, TypeOK, clocks, schedules, chain
  <2>. QED  BY <1>5, <2>2, EraseKeeps DEF IInv
<1>6. ASSUME NEW c \in Candidates, NEW w \in - MaxWeight .. MaxWeight, Reweigh(c, w) PROVE IInv'
  <2>1. TypeOK'
    BY <1>6 DEF Reweigh, IInv, TypeOK, counts, clocks, schedules, chain
  <2>. QED  BY <1>6, <2>1, RegistryUnchanged DEF Reweigh, IInv
<1>7. CASE UNCHANGED vars
  <2>1. TypeOK'
    BY <1>7 DEF vars, IInv, TypeOK, counts, clocks, schedules, chain
  <2>. QED  BY <1>7, <2>1, RegistryUnchanged DEF vars, IInv
<1>8. Block => IInv'
  BY <1>1, <1>2 DEF Block
<1>9. Users => IInv'
  BY <1>4, <1>5, <1>6 DEF Users
<1>. QED
  BY <1>3, <1>7, <1>8, <1>9 DEF Next

LEMMA Invariance == Spec => []IInv
  BY InitIInv, StepIInv, PTL DEF Spec

-----------------------------------------------------------------------------
(* TypeOK: counts, clocks and schedules stay of their types.               *)
THEOREM TypesStand == Spec => []TypeOK
  BY Invariance, PTL DEF IInv

(* RegistryStands: whatever users, the administrator and the watch do, the *)
(* registry's tables agree.                                                *)
THEOREM TablesAgree == Spec => []RegistryStands
  BY Invariance, PTL DEF IInv

(* ElectedAreFittest: an election proposes no punished producer and passes *)
(* over none for a lighter one of its kind.                                *)
THEOREM ElectionFair == Spec => ElectedAreFittest
<1>. DEFINE Fittest ==
       proposed_producers' # proposed_producers =>
         /\ proposed_producers' \cap is_punished' = {}
         /\ \A c \in proposed_producers', d \in row_active' \ proposed_producers' :
              (c \in frontiers <=> d \in frontiers) => weight[d] <= weight[c]
<1>1. IInv /\ [Next]_vars => [Fittest]_vars
  <2>. SUFFICES ASSUME IInv, [Next]_vars, proposed_producers' # proposed_producers
                PROVE  /\ proposed_producers' \cap is_punished' = {}
                       /\ \A c \in proposed_producers', d \in row_active' \ proposed_producers' :
                            (c \in frontiers <=> d \in frontiers) => weight[d] <= weight[c]
    OBVIOUS
  <2>1. PICK p, slots : slots \in 1 .. MaxSkip /\ OnBlock(p, slots)
    <3>1. Block => \E p, slots : slots \in 1 .. MaxSkip /\ OnBlock(p, slots)
      BY DEF Block, OnBlockAborts, schedules
    <3>2. ~ ChainActivates
      BY DEF ChainActivates, schedules
    <3>3. ~ Users
      BY DEF Users, Register, Erase, Reweigh, schedules
    <3>. QED  BY <3>1, <3>2, <3>3 DEF Next, vars, schedules
  <2>2. RegistryStands' /\ UNCHANGED <<producers, frontiers, interiors>>
    BY <2>1, OnBlockStands DEF OnBlock
  <2>3. /\ frontiers \in SUBSET Candidates /\ interiors \in SUBSET Candidates
        /\ frontiers \cap interiors = {}
        /\ row_active' \subseteq frontiers \cup interiors
        /\ row_active' \cap is_punished' = {}
    BY <2>2 DEF RegistryStands, Registry!TypeOK, Registry!OneRowEach, Registry!PunishedIsInactive
  <2>4. proposed_producers' = Elect(row_active')
    BY <2>1 DEF OnBlock, UpdateElected
  <2>5. weight \in [Candidates -> Int]
    BY ElectionAssumption DEF IInv, TypeOK
  <2>6. PICK rows : rows = row_active'
    OBVIOUS
  <2>. QED  BY <2>3, <2>4, <2>5, <2>6, ElectFittest
<1>. QED
  BY <1>1, Invariance, PTL DEF Spec, ElectedAreFittest

=============================================================================
