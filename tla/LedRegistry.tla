---------------------------- MODULE LedRegistry ----------------------------
(***************************************************************************)
(* The producer registry of led.system: the producers table, and beside it *)
(* one row per producer in the frontiers table (companies that sell        *)
(* services) or in the interiors table (accounts that are voted for).      *)
(*                                                                         *)
(* Which of the two a producer is, whether each of its rows is active,     *)
(* whether it is punished and whether it has a signing key is all that is  *)
(* kept here; urls, locations, logos and transfer ratios are not.  The     *)
(* actions are taken by LedElection, with onblock, and by LedVoting.       *)
(***************************************************************************)
EXTENDS FiniteSets

CONSTANTS Candidates,  \* the accounts that register
          Companies    \* those that may be frontiers: a company name, and
                       \* the issuer of a dapp token it holds enough of

VARIABLES
  producers,    \* accounts with a producers row
  is_frontier,  \* producer_type = 1
  is_active,    \* producers: is_active
  is_punished,  \* producers: is_punished
  has_key,      \* producers: producer_key is not the default key
  frontiers,    \* accounts with a frontiers row
  interiors,    \* accounts with an interiors row
  row_active    \* is_active of the frontiers or interiors row

registry == <<producers, is_frontier, is_active, is_punished, has_key,
              frontiers, interiors, row_active>>

-----------------------------------------------------------------------------
Init ==
  /\ producers = {} /\ is_frontier = {} /\ is_active = {} /\ is_punished = {}
  /\ has_key = {} /\ frontiers = {} /\ interiors = {} /\ row_active = {}

\* A registration with a key; a second one renews the rows.
Activate(c) ==
  /\ is_active' = is_active \cup {c}
  /\ has_key' = has_key \cup {c}
  /\ row_active' = row_active \cup {c}
  /\ producers' = producers \cup {c}
  /\ UNCHANGED is_punished

RegFrontier(c) ==
  /\ c \in Companies
  /\ \/ /\ c \in producers
        /\ c \notin is_punished
        /\ c \notin interiors
        /\ c \in frontiers
        /\ UNCHANGED <<frontiers, is_frontier>>
     \/ /\ c \notin producers
        /\ frontiers' = frontiers \cup {c}
        /\ is_frontier' = is_frontier \cup {c}
  /\ Activate(c)
  /\ UNCHANGED interiors

RegInterior(c) ==
  /\ \/ /\ c \in producers
        /\ c \notin is_punished
        /\ c \notin frontiers
        /\ c \in interiors
        /\ UNCHANGED interiors
     \/ /\ c \notin producers
        /\ interiors' = interiors \cup {c}
  /\ Activate(c)
  /\ UNCHANGED <<frontiers, is_frontier>>

\* The row that belongs to the producer's type; modifying a row that is not
\* there aborts.
DeactivateRow(c) ==
  /\ c \in IF c \in is_frontier THEN frontiers ELSE interiors
  /\ row_active' = row_active \ {c}

UnregProd(c) ==
  /\ c \in producers
  /\ is_active' = is_active \ {c}
  /\ has_key' = has_key \ {c}
  /\ DeactivateRow(c)
  /\ UNCHANGED <<producers, is_frontier, is_punished, frontiers, interiors>>

UnregProduce(c) ==
  /\ c \in producers
  /\ IF c \in is_frontier
       THEN c \in frontiers /\ frontiers' = frontiers \ {c} /\ UNCHANGED interiors
       ELSE c \in interiors /\ interiors' = interiors \ {c} /\ UNCHANGED frontiers
  /\ producers' = producers \ {c}
  /\ is_frontier' = is_frontier \ {c}
  /\ is_active' = is_active \ {c}
  /\ is_punished' = is_punished \ {c}
  /\ has_key' = has_key \ {c}
  /\ row_active' = row_active \ {c}

\* punishprod, and punish(), which watch_block_producer calls.
Punish(c) ==
  /\ c \in producers
  /\ c \notin is_punished
  /\ is_active' = is_active \ {c}
  /\ is_punished' = is_punished \cup {c}
  /\ DeactivateRow(c)
  /\ UNCHANGED <<producers, is_frontier, has_key, frontiers, interiors>>

PunishOff(c) ==
  /\ c \in producers
  /\ c \in is_punished
  /\ is_punished' = is_punished \ {c}
  /\ is_active' = is_active \cup {c}
  /\ c \in IF c \in is_frontier THEN frontiers ELSE interiors
  /\ row_active' = row_active \cup {c}
  /\ UNCHANGED <<producers, is_frontier, has_key, frontiers, interiors>>

\* The administrator's removal leaves the other row as it is.
RmvProducer(c) ==
  /\ c \in producers
  /\ is_active' = is_active \ {c}
  /\ has_key' = has_key \ {c}
  /\ UNCHANGED <<producers, is_frontier, is_punished, frontiers, interiors, row_active>>

-----------------------------------------------------------------------------
(* The flags are about accounts that have a row.                           *)
TypeOK ==
  /\ producers \subseteq Candidates
  /\ is_frontier \cup is_active \cup is_punished \cup has_key \cup row_active \subseteq producers

(* Each producer has exactly one row beside its own, in the table its type *)
(* names, over any sequence of registering, erasing and registering anew   *)
(* as the other kind: the handlers look the row up by type and modify it   *)
(* without asking whether it exists.                                       *)
OneRowEach ==
  /\ frontiers \cup interiors = producers
  /\ frontiers \cap interiors = {}
  /\ is_frontier = frontiers

(* An active producer can be elected: its other row is active too.         *)
ActiveIsElectable == is_active \subseteq row_active

(* A punished producer is active in neither table until punishoff.         *)
PunishedIsInactive == is_punished \cap (is_active \cup row_active) = {}

=============================================================================
