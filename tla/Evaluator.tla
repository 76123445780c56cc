----------------------------- MODULE Evaluator -----------------------------
(***************************************************************************)
(* The solver bot's profitability evaluator,                               *)
(* packages/solver-bot/src/evaluator.ts.                                   *)
(*                                                                         *)
(* Its amounts are bigint, so no operation overflows.  The intent records  *)
(* have the router's field names.                                          *)
(***************************************************************************)
EXTENDS Integers

CONSTANTS
  BPS_DENOMINATOR,
  PriceUnit          \* the finer unit in which configured prices are written:
                     \* `PriceUnit' of them are one unit of PRICE_SCALE

-----------------------------------------------------------------------------
(* checkFillAgainstIntent, the bot's copy of the router's guard rails.     *)

bpsOf(amount, bps) == (amount * bps) \div BPS_DENOMINATOR

FillShortfallBps(i, fill) ==
  ((i.min_buy_amount - (fill - bpsOf(fill, i.solver_fee_bps))) * BPS_DENOMINATOR)
    \div i.min_buy_amount

checkBeforeDeadline(i, fill, clock) ==   \* mutant: the deadline itself is late
  /\ i.sell_amount > 0 /\ i.min_buy_amount > 0
  /\ i.max_slippage_bps <= BPS_DENOMINATOR /\ i.solver_fee_bps <= BPS_DENOMINATOR
  /\ clock < i.deadline
  /\ fill >= i.min_buy_amount
  /\ \/ fill - bpsOf(fill, i.solver_fee_bps) >= i.min_buy_amount
     \/ FillShortfallBps(i, fill) <= i.max_slippage_bps

\* The verdict `ok'.  The clock is the host's Date.now() in seconds, not the
\* ledger's.
checkFillAgainstIntent(i, fill, clock) ==
  /\ i.sell_amount > 0 /\ i.min_buy_amount > 0
  /\ i.max_slippage_bps <= BPS_DENOMINATOR /\ i.solver_fee_bps <= BPS_DENOMINATOR
  /\ fill >= 0
  /\ clock <= i.deadline
  /\ fill >= i.min_buy_amount
  /\ \/ fill - bpsOf(fill, i.solver_fee_bps) >= i.min_buy_amount
     \/ FillShortfallBps(i, fill) <= i.max_slippage_bps

-----------------------------------------------------------------------------
(* The profit of a fill, in units of the buy token.  `prices' has the        *)
(* configured prices of those of the intent's two tokens that have one.    *)

\* Math.round(price * PRICE_SCALE): the nearest whole number, halves up.
Scaled(price) == (2 * price + PriceUnit) \div (2 * PriceUnit)

marketValueRoundedUp(sell_amount, sell, buy) ==   \* mutant
  (sell_amount * Scaled(sell) + Scaled(buy) - 1) \div Scaled(buy)

marketValueInQuote(sell_amount, sell, buy) ==
  (sell_amount * Scaled(sell)) \div Scaled(buy)

\* It throws on a price that is not positive, and the division does on a buy
\* price that is scaled to 0.
HasValue(sell, buy) == sell > 0 /\ buy > 0 /\ Scaled(buy) # 0

netProfit(i, fill, marketValueOfSell, txCost) ==
  marketValueOfSell + bpsOf(fill, i.solver_fee_bps) - fill - txCost

missingPrice(prices) == ~ {"sell", "buy"} \subseteq DOMAIN prices

\* The verdict `profitable'.
profitable(i, fill, prices, txCost, minProfit, clock) ==
  /\ ~missingPrice(prices) /\ HasValue(prices.sell, prices.buy)
  /\ checkFillAgainstIntent(i, fill, clock)
  /\ netProfit(i, fill, marketValueInQuote(i.sell_amount, prices.sell, prices.buy), txCost)
       >= minProfit
=============================================================================
