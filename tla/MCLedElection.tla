--------------------------- MODULE MCLedElection ---------------------------
(* Two accounts that may be frontiers or interiors, and two places: as      *)
(* frontiers they compete for the one a frontier can have, as interiors    *)
(* they may have both.  A watch is due after three slots, so that its       *)
(* threshold is one block of each.                                          *)
EXTENDS LedElection

=============================================================================
