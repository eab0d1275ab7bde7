----------------------------- MODULE MCLedVoting -----------------------------
(* Three voters and one interior, so that a proxy can give its votes to     *)
(* another proxy once it has unregistered.                                  *)
EXTENDS LedVoting, TLC

MCFactor == [w \in 0 .. LastWeek |-> 2 ^ (w + 1)]
Symmetry == Permutations(Accounts)

=============================================================================
