------------------------------ MODULE MCQuote ------------------------------
(* Small instances of Quote.                                               *)
EXTENDS Quote

\* Amounts around zero, small enough for the floors to bite, and around
\* 10_000, where one basis point becomes less than one unit.
MCFills == {-1, 0, 1, 2, 3, 4, 7, 9999, 10000, 10001, 10002, 20000}

MCTerms ==
  [sell_amount : {0, 1}, min_buy_amount : {0, 1, 2, 3, 10001},
   max_slippage_bps : {0, 1, 3333, 5000, 10000, 10001},
   solver_fee_bps : {0, 1, 2, 3333, 5000, 10000, 10001},
   deadline : {1}]

\* With five to the unit: prices that are scaled exactly and whose quotient is not
\* whole, a pair that is scaled to equal prices (6 and 7, both 1), a pair scaled
\* apart (7 and 8), a sell price that is scaled to 0, a buy price that is and
\* makes the division throw, and one price missing.
MCPrices ==
  {[sell |-> 3900, buy |-> 1000], [sell |-> 6, buy |-> 7], [sell |-> 8, buy |-> 7],
   [sell |-> 80000, buy |-> 7], [sell |-> 2, buy |-> 7], [sell |-> 35, buy |-> 2],
   [sell |-> 3900]}
=============================================================================
