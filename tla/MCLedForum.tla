----------------------------- MODULE MCLedForum -----------------------------
(* One name, three voters and time enough for the name to be proposed anew  *)
(* after its proposal has expired and been cleaned away.                    *)
EXTENDS LedForum

=============================================================================
