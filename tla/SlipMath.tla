----------------------------- MODULE SlipMath -----------------------------
(***************************************************************************)
(* The settlement arithmetic of the router, contracts/router/src/lib.rs.   *)
(*                                                                         *)
(* An intent `i' is a record with the fields of TraderIntent that price a  *)
(* fill (sell_amount, min_buy_amount, max_slippage_bps, solver_fee_bps,    *)
(* deadline); `amount' is actual_buy_amount.  Each rejection of            *)
(* execute_intent is a predicate named after the error it returns.  Later  *)
(* predicates are evaluated only where the earlier ones are false, as the  *)
(* early returns of the code guarantee: InsufficientOutput false gives     *)
(* 0 < min_buy_amount <= amount, so checked_div truncating towards zero    *)
(* and \div agree.                                                         *)
(***************************************************************************)
EXTENDS I128

CONSTANT
  BPS_DENOMINATOR    \* 10_000 in the contracts

ASSUME BpsAssumption == BPS_DENOMINATOR \in Nat \ {0}

-----------------------------------------------------------------------------
(* The split of a fill.                                                    *)

\* amount * bps / 10_000 when the product fits an i128.
mul_bps(amount, bps) == (amount * bps) \div BPS_DENOMINATOR

solver_fee(i, amount)      == mul_bps(amount, i.solver_fee_bps)
trader_proceeds(i, amount) == amount - solver_fee(i, amount)
fee_as_shortfall(i, amount) ==        \* mutant: the whole fee counts
  amount - trader_proceeds(i, amount)
shortfall(i, amount)       == i.min_buy_amount - trader_proceeds(i, amount)
shortfall_of_fill_bps(i, amount) ==   \* mutant: relative to the fill
  (shortfall(i, amount) * BPS_DENOMINATOR) \div amount
shortfall_bps(i, amount)   ==
  (shortfall(i, amount) * BPS_DENOMINATOR) \div i.min_buy_amount

-----------------------------------------------------------------------------
(* The rejections, in the order execute_intent tests them.                 *)

InvalidAmount(i) == i.sell_amount <= 0 \/ i.min_buy_amount <= 0

InvalidSlippageBps(i) ==
  \/ i.max_slippage_bps > BPS_DENOMINATOR
  \/ i.solver_fee_bps > BPS_DENOMINATOR

IntentExpired(i, now) == now > i.deadline

InsufficientOutput(i, amount) == amount < i.min_buy_amount

MathOverflow(i, amount) ==
  \/ amount * i.solver_fee_bps \notin I128
  \/ /\ trader_proceeds(i, amount) < i.min_buy_amount
     /\ shortfall(i, amount) * BPS_DENOMINATOR \notin I128

SlippageReached(i, amount) ==         \* mutant: the tolerance itself is refused
  /\ trader_proceeds(i, amount) < i.min_buy_amount
  /\ shortfall_bps(i, amount) >= i.max_slippage_bps

SlippageExceeded(i, amount) ==
  /\ trader_proceeds(i, amount) < i.min_buy_amount
  /\ shortfall_bps(i, amount) > i.max_slippage_bps

AcceptsLateTerms(i, amount, now) ==   \* mutant: no deadline
  /\ ~InvalidAmount(i) /\ ~InvalidSlippageBps(i)
  /\ ~InsufficientOutput(i, amount)
  /\ ~MathOverflow(i, amount) /\ ~SlippageExceeded(i, amount)

\* execute_intent accepts the terms of the fill; what it also asks of the
\* callers and of the stored state is in the module Router.
AcceptsTerms(i, amount, now) ==
  /\ ~InvalidAmount(i)
  /\ ~InvalidSlippageBps(i)
  /\ ~IntentExpired(i, now)
  /\ ~InsufficientOutput(i, amount)
  /\ ~MathOverflow(i, amount)
  /\ ~SlippageExceeded(i, amount)
=============================================================================
