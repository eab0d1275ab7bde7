--------------------------- MODULE MCLedResources ---------------------------
(* One account, created by the contract or before it: no step is about two.  *)
EXTENDS LedResources

=============================================================================
