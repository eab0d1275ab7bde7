---------------------------- MODULE MCLedStaking ----------------------------
(* Two accounts, with two tokens each: enough to delegate to oneself and to *)
(* the other, in part and in whole, while a refund is pending.             *)
EXTENDS LedStaking, TLC

CONSTANTS alice, bob

MCGenesis == alice :> 2 @@ bob :> 2

=============================================================================
