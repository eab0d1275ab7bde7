---------------------------- MODULE MCLedServices ----------------------------
(* One frontier that comes and goes, a person and another buyer, a window   *)
(* of three days of three slots each.                                       *)
EXTENDS LedServices

=============================================================================
