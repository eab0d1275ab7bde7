----------------------------- MODULE MCLedToken -----------------------------
(* Three accounts and amounts up to 3: an owner, its spender and a third   *)
(* party, with allowances below, at and above what a transfer leaves.      *)
EXTENDS LedToken, TLC

Symmetry == Permutations(Accounts)

=============================================================================
