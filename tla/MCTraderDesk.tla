---------------------------- MODULE MCTraderDesk ----------------------------
(* One trader and one pair.  Amounts of which one call throws halfway, a    *)
(* nonce that clashes with the clock and one no u64 holds, and numbers that *)
(* no double holds.                                                         *)
EXTENDS TraderDesk

CONSTANTS Trader, Sell, Buy, NotInteger

MCPairs == {<<Sell, Buy>>}
MCAmounts == {<<7, 7>>, <<5, 6>>, <<5, NotInteger>>}
=============================================================================
