------------------------------- MODULE Quote -------------------------------
(***************************************************************************)
(* One intent being quoted: a solver raises the amount it would deliver    *)
(* while time passes, and at every moment both judges are asked, the       *)
(* router's terms check (SlipMath) and the bot's copy of it (Evaluator).   *)
(* The two clocks differ: the router reads the ledger's, the bot its own.  *)
(***************************************************************************)
EXTENDS SlipMath

CONSTANTS
  Terms,      \* the intents quoted, records with TraderIntent's pricing fields
  Fills,      \* the amounts a solver may offer
  Prices,     \* TOKEN_PRICES of the intent's tokens, where configured
  PriceUnit,  \* how many units of Prices make one of PRICE_SCALE
  TxCost,     \* TX_COST
  MinProfit,  \* MIN_PROFIT
  MaxTime     \* bound on both clocks

ASSUME QuoteAssumption ==
  /\ Terms \subseteq
       [sell_amount : Int, min_buy_amount : Int, max_slippage_bps : Nat,
        solver_fee_bps : Nat, deadline : Nat]
  /\ Fills \subseteq Int
  /\ Prices \subseteq [{"sell", "buy"} -> Nat] \cup [{"sell"} -> Nat] \cup [{"buy"} -> Nat]
  /\ PriceUnit \in Nat \ {0}
  /\ TxCost \in Int /\ MinProfit \in Int
  /\ MaxTime \in Nat

Bot == INSTANCE Evaluator

VARIABLES
  intent,
  fill,          \* the amount the solver would deliver
  prices,        \* what the bot is configured with
  ledgerClock,   \* env.ledger().timestamp()
  botClock       \* nowSeconds() on the bot's host

vars == <<intent, fill, prices, ledgerClock, botClock>>

Init ==
  /\ intent \in Terms
  /\ fill \in Fills
  /\ \A f \in Fills : fill <= f
  /\ prices \in Prices
  /\ ledgerClock = 0
  /\ botClock = 0

OfferMore ==
  /\ \E f \in Fills : f > fill /\ fill' = f
  /\ UNCHANGED <<intent, prices, ledgerClock, botClock>>

LedgerCloses ==
  /\ ledgerClock < MaxTime
  /\ ledgerClock' = ledgerClock + 1
  /\ UNCHANGED <<intent, fill, prices, botClock>>

BotClockTicks ==
  /\ botClock < MaxTime
  /\ botClock' = botClock + 1
  /\ UNCHANGED <<intent, fill, prices, ledgerClock>>

Next == OfferMore \/ LedgerCloses \/ BotClockTicks

Spec == Init /\ [][Next]_vars

-----------------------------------------------------------------------------
RouterAccepts == AcceptsTerms(intent, fill, ledgerClock)
BotAccepts    == Bot!checkFillAgainstIntent(intent, fill, botClock)
BotFills      == Bot!profitable(intent, fill, prices, TxCost, MinProfit, botClock)

\* A fill execute_intent accepts leaves the trader short of min_buy_amount by
\* less than one basis point more than the tolerance: flooring shortfall_bps
\* (lib.rs:206-213) gives away a fraction of a basis point, never a whole one.
ShortfallWithinOneBp ==
  RouterAccepts =>
    shortfall(intent, fill) * BPS_DENOMINATOR
      < (intent.max_slippage_bps + 1) * intent.min_buy_amount

\* An intent whose fee is no larger than its tolerance fills at exactly
\* min_buy_amount, the amount the bot always offers (index.ts:47): the two
\* floors, of the fee and of shortfall_bps, never add up to a rejection.
FeeWithinToleranceFills ==
  (/\ ~InvalidAmount(intent) /\ ~InvalidSlippageBps(intent)
   /\ ~IntentExpired(intent, ledgerClock)
   /\ intent.solver_fee_bps <= intent.max_slippage_bps
   /\ fill = intent.min_buy_amount
   /\ ~MathOverflow(intent, fill))
    => RouterAccepts

\* The bot's guard rails agree with the router's, both ways, for every fill
\* whose arithmetic fits an i128 and for which the two clocks agree on whether
\* the deadline has passed (evaluator.ts:66-114 against lib.rs:167-214).
MirrorsRouter ==
  (/\ ~MathOverflow(intent, fill)
   /\ IntentExpired(intent, ledgerClock) <=> IntentExpired(intent, botClock))
    => (BotAccepts <=> RouterAccepts)

\* What the solver has to get back for what it sells: the trader's proceeds, the
\* cost of the fill and the profit asked for.
Owed == trader_proceeds(intent, fill) + TxCost + MinProfit

\* A fill the bot finds profitable is one up to the rounding of the prices: at
\* prices no further from the configured ones than half a unit of PRICE_SCALE,
\* what it receives is worth what it owes.  The floors of the fee and of the
\* market value (evaluator.ts:141-142, 172) take nothing more.
ProfitWithinPriceRounding ==
  BotFills =>
    intent.sell_amount * (2 * prices.sell + PriceUnit)
      >= Owed * (2 * prices.buy - PriceUnit)

\* While an intent is live and the arithmetic fits, offering more never turns
\* an accepted fill into a rejected one (lib.rs:195-214).
DeliveringMoreNeverHurts ==
  [][(/\ RouterAccepts
      /\ fill' > fill
      /\ ~MathOverflow(intent, fill'))
       => RouterAccepts']_vars

-----------------------------------------------------------------------------
(* What the documents say of the same arithmetic.                          *)

\* docs/02-protocol-mechanics.md:149: "A solver that delivers more than the
\* minimum never trips the tolerance check."
OverDeliveryNeverTripsTolerance ==
  (/\ ~InvalidAmount(intent) /\ ~InvalidSlippageBps(intent)
   /\ ~MathOverflow(intent, fill)
   /\ fill > intent.min_buy_amount)
    => ~SlippageExceeded(intent, fill)

\* evaluator.ts:63-64: the check mirrors the router's guard rails "so the bot
\* never submits a fill that is guaranteed to revert".  The bot offers exactly
\* min_buy_amount (index.ts:47); clocks are taken equal.
BotNeverOffersARevert ==
  (BotAccepts /\ fill = intent.min_buy_amount /\ botClock = ledgerClock)
    => RouterAccepts

=============================================================================
