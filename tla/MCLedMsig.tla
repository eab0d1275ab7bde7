------------------------------ MODULE MCLedMsig ------------------------------
(* One name that is proposed again and again, two levels of different       *)
(* accounts, each requested up to twice, a transaction that both must       *)
(* approve and one that either may.                                         *)
EXTENDS LedMsig

CONSTANTS l1, l2, a1, a2, both, either

MCActor == [l \in {l1, l2} |-> IF l = l1 THEN a1 ELSE a2]
MCSufficient == [t \in {both, either} |-> IF t = both THEN {{l1, l2}} ELSE {{l1}, {l2}}]

=============================================================================
