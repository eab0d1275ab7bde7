---------------------------- MODULE MCLedRewards ----------------------------
(* Two producers of either kind, and issues that are large enough at every  *)
(* stage for all buckets, and for pays of which a part can be saved or not. *)
EXTENDS LedRewards, TLC

Symmetry == Permutations(Producers)

=============================================================================
