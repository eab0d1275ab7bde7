--------------------------- MODULE MCLedRamMarket ---------------------------
(* Two traders in a market small enough that every trade moves the price    *)
(* and every conversion rounds; the supply grows by setram and by blocks.   *)
EXTENDS LedRamMarket, TLC

MCGenesis == [a \in Accounts |-> 4]

=============================================================================
