---------------------------- MODULE QuoteProofs ----------------------------
(***************************************************************************)
(* The properties of Quote for every set of terms, every set of offers,    *)
(* every denominator and every width.                                      *)
(***************************************************************************)
EXTENDS Quote, SlipMathProofs

\* Where the intents, the offers, the prices and both clocks come from: by the
\* shape of Quote, and what everything below rests on.
TypeOK ==
  /\ intent \in Terms
  /\ fill \in Fills
  /\ prices \in Prices
  /\ ledgerClock \in 0 .. MaxTime
  /\ botClock \in 0 .. MaxTime

\* The quoted values stay in their sets; only the clocks and the offer move.
LEMMA QuoteTyped == Spec => []TypeOK
<1>1. Init => TypeOK
  BY QuoteAssumption DEF Init, TypeOK
<1>2. TypeOK /\ [Next]_vars => TypeOK'
  <2> SUFFICES ASSUME TypeOK, [Next]_vars PROVE TypeOK'
    OBVIOUS
  <2>1. CASE OfferMore
    BY <2>1 DEF OfferMore, TypeOK
  <2>2. CASE LedgerCloses
    BY <2>2, QuoteAssumption DEF LedgerCloses, TypeOK
  <2>3. CASE BotClockTicks
    BY <2>3, QuoteAssumption DEF BotClockTicks, TypeOK
  <2>4. CASE UNCHANGED vars
    BY <2>4 DEF vars, TypeOK
  <2>5. QED
    BY <2>1, <2>2, <2>3, <2>4 DEF Next
<1>3. QED
  BY <1>1, <1>2, PTL DEF Spec

LEMMA TypedIntent ==
  ASSUME TypeOK
  PROVE  IsPriced(intent) /\ fill \in Int /\ ledgerClock \in Nat /\ botClock \in Nat
BY QuoteAssumption DEF TypeOK, IsPriced

\* An accepted fill leaves the trader short by less than one basis point more
\* than the tolerance (lib.rs:202-214).
THEOREM QuoteShortfall == Spec => []ShortfallWithinOneBp
<1>1. TypeOK => ShortfallWithinOneBp
  BY TypedIntent, ToleranceHolds DEF ShortfallWithinOneBp, RouterAccepts
<1>2. QED
  BY <1>1, QuoteTyped, PTL

\* A fee within the tolerance always fills at exactly min_buy_amount.
THEOREM QuoteFeeFills == Spec => []FeeWithinToleranceFills
<1>1. TypeOK => FeeWithinToleranceFills
  BY TypedIntent, FeeWithinTolerance
     DEF FeeWithinToleranceFills, RouterAccepts, AcceptsTerms, IsPriced,
         InsufficientOutput
<1>2. QED
  BY <1>1, QuoteTyped, PTL

\* Where nothing overflows and the clocks agree on the deadline, the bot's check
\* and the router's are the same predicate (evaluator.ts:66-114, lib.rs:167-214).
THEOREM QuoteMirror == Spec => []MirrorsRouter
<1>1. TypeOK => MirrorsRouter
  <2> SUFFICES ASSUME TypeOK, ~MathOverflow(intent, fill),
                      IntentExpired(intent, ledgerClock) <=> IntentExpired(intent, botClock)
               PROVE  BotAccepts <=> RouterAccepts
    BY DEF MirrorsRouter
  <2>1. IsPriced(intent) /\ fill \in Int /\ ledgerClock \in Nat /\ botClock \in Nat
    BY TypedIntent
  <2>2. CASE InvalidAmount(intent) \/ InvalidSlippageBps(intent)
             \/ InsufficientOutput(intent, fill)
    BY <2>1, <2>2, BpsAssumption
       DEF BotAccepts, RouterAccepts, AcceptsTerms, Bot!checkFillAgainstIntent,
           InvalidAmount, InvalidSlippageBps, InsufficientOutput, IsPriced
  <2>3. CASE ~InvalidAmount(intent) /\ ~InvalidSlippageBps(intent)
             /\ ~InsufficientOutput(intent, fill)
    <3>1. trader_proceeds(intent, fill) \in Int /\ fill \in Nat
      BY <2>1, <2>3, FeeBounds DEF InvalidAmount, InsufficientOutput, IsPriced
    <3>2. /\ fill - Bot!bpsOf(fill, intent.solver_fee_bps) = trader_proceeds(intent, fill)
          /\ Bot!FillShortfallBps(intent, fill) = shortfall_bps(intent, fill)
      BY DEF trader_proceeds, solver_fee, mul_bps, shortfall_bps, shortfall,
             Bot!bpsOf, Bot!FillShortfallBps
    <3>3. shortfall_bps(intent, fill) \in Int
      <4>1. /\ shortfall(intent, fill) * BPS_DENOMINATOR \in Int
            /\ intent.min_buy_amount \in Nat \ {0}
        BY <2>1, <2>3, <3>1, BpsAssumption DEF shortfall, IsPriced, InvalidAmount
      <4>2. QED
        BY <4>1, DivisionBounds DEF shortfall_bps
    <3>4. BotAccepts <=> /\ ~IntentExpired(intent, botClock)
                         /\ \/ trader_proceeds(intent, fill) >= intent.min_buy_amount
                            \/ shortfall_bps(intent, fill) <= intent.max_slippage_bps
      BY <2>1, <2>3, <3>1, <3>2, BpsAssumption
         DEF BotAccepts, Bot!checkFillAgainstIntent, InvalidAmount, InvalidSlippageBps,
             InsufficientOutput, IntentExpired, IsPriced
    <3>5. SlippageExceeded(intent, fill)
            <=> ~(\/ trader_proceeds(intent, fill) >= intent.min_buy_amount
                  \/ shortfall_bps(intent, fill) <= intent.max_slippage_bps)
      BY <2>1, <3>1, <3>3 DEF SlippageExceeded, IsPriced
    <3>6. QED
      BY <2>3, <3>4, <3>5 DEF RouterAccepts, AcceptsTerms
  <2>4. QED
    BY <2>2, <2>3
<1>2. QED
  BY <1>1, QuoteTyped, PTL

\* Scaling a price moves it by no more than half a unit of PRICE_SCALE
\* (evaluator.ts:170-171).
LEMMA ScaledBounds ==
  ASSUME NEW p \in Nat
  PROVE  /\ Bot!Scaled(p) \in Nat
         /\ 2 * PriceUnit * Bot!Scaled(p) <= 2 * p + PriceUnit
         /\ 2 * p - PriceUnit <= 2 * PriceUnit * Bot!Scaled(p)
<1> DEFINE d == 2 * PriceUnit
           a == 2 * p + PriceUnit
           q == a \div d
<1>1. a \in Nat /\ d \in Nat \ {0} /\ Bot!Scaled(p) = q
  BY QuoteAssumption DEF Bot!Scaled
<1>3. d = 2 * PriceUnit /\ a = 2 * p + PriceUnit /\ PriceUnit \in Nat \ {0}
  BY QuoteAssumption
<1> HIDE DEF d, a
<1>2. q \in Int /\ d * q <= a /\ a < d * (q + 1)
  BY <1>1, DivisionBounds
<1> HIDE DEF q
<1>4. q \in Nat
  BY <1>1, <1>2
<1>5. d * (q + 1) = d * q + d /\ d * q \in Int
  BY <1>1, <1>2
<1>6. d * q <= 2 * p + PriceUnit /\ 2 * p - PriceUnit <= d * q
  BY <1>2, <1>3, <1>5
<1>7. QED
  BY <1>1, <1>3, <1>4, <1>6

\* Products of what is at least as large.
LEMMA ProductMonotone ==
  ASSUME NEW a \in Int, NEW b \in Int, a <= b, NEW n \in Nat
  PROVE  a * n <= b * n
OBVIOUS

\* What the bot finds profitable is, at prices within half a unit of the
\* configured ones, worth what the solver owes (evaluator.ts:141-142, 166-173).
THEOREM QuoteProfit == Spec => []ProfitWithinPriceRounding
<1>1. TypeOK => ProfitWithinPriceRounding
  <2> SUFFICES ASSUME TypeOK, BotFills
               PROVE  intent.sell_amount * (2 * prices.sell + PriceUnit)
                        >= Owed * (2 * prices.buy - PriceUnit)
    BY DEF ProfitWithinPriceRounding
  <2> DEFINE unit   == 2 * PriceUnit
             sold   == intent.sell_amount
             sell   == Bot!Scaled(prices.sell)
             buy    == Bot!Scaled(prices.buy)
             market == Bot!marketValueInQuote(sold, prices.sell, prices.buy)
  <2>1. IsPriced(intent) /\ fill \in Int
    BY TypedIntent
  <2>2. prices.sell \in Nat /\ prices.buy \in Nat /\ buy # 0
    BY QuoteAssumption
       DEF TypeOK, BotFills, Bot!profitable, Bot!missingPrice, Bot!HasValue
  <2>3. /\ sell \in Nat /\ unit * sell <= 2 * prices.sell + PriceUnit
        /\ buy \in Nat \ {0} /\ 2 * prices.buy - PriceUnit <= unit * buy
    BY <2>2, ScaledBounds
  <2>4. sold \in Nat /\ fill \in Nat /\ trader_proceeds(intent, fill) \in Int
    <3>1. sold \in Nat /\ fill \in Nat /\ ~InvalidSlippageBps(intent)
      BY <2>1, BpsAssumption
         DEF BotFills, Bot!profitable, Bot!checkFillAgainstIntent, IsPriced, InvalidSlippageBps
    <3>2. QED
      BY <2>1, <3>1, FeeBounds DEF IsPriced
  <2>5. market \in Int /\ buy * market <= sold * sell
    <3>1. sold * sell \in Int
      BY <2>3, <2>4
    <3>2. QED
      BY <2>3, <3>1, DivisionBounds DEF Bot!marketValueInQuote
  <2>6. Owed \in Int /\ market >= Owed
    <3>1. Bot!netProfit(intent, fill, market, TxCost) >= MinProfit
      BY DEF BotFills, Bot!profitable
    <3>2. Bot!bpsOf(fill, intent.solver_fee_bps) = solver_fee(intent, fill)
      BY DEF Bot!bpsOf, solver_fee, mul_bps
    <3>3. solver_fee(intent, fill) \in Int
      BY <2>1, <2>4, BpsAssumption, DivisionBounds DEF solver_fee, mul_bps, IsPriced
    <3>4. QED
      BY <2>4, <2>5, <3>1, <3>2, <3>3, QuoteAssumption DEF Bot!netProfit, trader_proceeds, Owed
  <2>7. unit \in Nat /\ 2 * prices.buy - PriceUnit \in Nat /\ PriceUnit \in Nat \ {0}
    <3>1. ~(2 * prices.buy < PriceUnit)
      <4>1. SUFFICES ASSUME 2 * prices.buy < PriceUnit PROVE FALSE
        OBVIOUS
      <4>2. unit * buy <= 2 * prices.buy + PriceUnit /\ unit = 2 * PriceUnit
        BY <2>2, ScaledBounds
      <4> HIDE DEF unit, buy
      <4>3. 1 * unit <= buy * unit
        BY <2>3, <4>2, QuoteAssumption, ProductMonotone
      <4>4. unit * buy = buy * unit /\ buy * unit \in Int
        BY <2>3, <4>2, QuoteAssumption
      <4>5. QED
        BY <2>2, <4>1, <4>2, <4>3, <4>4, QuoteAssumption
    <3>2. QED
      BY <2>2, <3>1, QuoteAssumption
  <2> HIDE DEF unit, sold, sell, buy, market
  <2>8. CASE Owed < 0
    <3>1. Owed * (2 * prices.buy - PriceUnit) <= 0
      BY <2>6, <2>7, <2>8
    <3>2. sold * (2 * prices.sell + PriceUnit) >= 0
      BY <2>2, <2>4, <2>7
    <3>3. sold * (2 * prices.sell + PriceUnit) \in Int
          /\ Owed * (2 * prices.buy - PriceUnit) \in Int
      BY <2>2, <2>4, <2>6, <2>7
    <3>4. QED
      BY <3>1, <3>2, <3>3 DEF sold
  <2>9. CASE Owed >= 0
    <3>1. Owed * (2 * prices.buy - PriceUnit) <= Owed * (unit * buy)
      <4>1. (2 * prices.buy - PriceUnit) * Owed <= (unit * buy) * Owed
        BY <2>3, <2>6, <2>7, <2>9, ProductMonotone
      <4>2. QED
        BY <2>3, <2>6, <2>7, <4>1
    <3>2. Owed * (unit * buy) <= market * (unit * buy)
      BY <2>3, <2>5, <2>6, <2>7, ProductMonotone
    <3>3. market * (unit * buy) <= (sold * sell) * unit
      <4>1. (buy * market) * unit <= (sold * sell) * unit
        BY <2>3, <2>4, <2>5, <2>7, ProductMonotone
      <4>2. market * (unit * buy) = (buy * market) * unit
        BY <2>3, <2>5, <2>7
      <4>3. QED
        BY <4>1, <4>2
    <3>4. (sold * sell) * unit <= sold * (2 * prices.sell + PriceUnit)
      <4>1. (unit * sell) * sold <= (2 * prices.sell + PriceUnit) * sold
        BY <2>2, <2>3, <2>4, <2>7, ProductMonotone
      <4>2. (sold * sell) * unit = (unit * sell) * sold
        BY <2>3, <2>4, <2>7
      <4>3. QED
        BY <2>2, <2>4, <2>7, <4>1, <4>2
    <3>5. /\ Owed * (2 * prices.buy - PriceUnit) \in Int /\ Owed * (unit * buy) \in Int
          /\ market * (unit * buy) \in Int /\ (sold * sell) * unit \in Int
          /\ sold * (2 * prices.sell + PriceUnit) \in Int
      BY <2>2, <2>3, <2>4, <2>5, <2>6, <2>7
    <3>6. QED
      BY <3>1, <3>2, <3>3, <3>4, <3>5 DEF sold
  <2>10. QED
    BY <2>6, <2>8, <2>9
<1>2. QED
  BY <1>1, QuoteTyped, PTL

\* While the arithmetic fits, offering more never loses the router's acceptance.
THEOREM QuoteDeliveringMore == Spec => DeliveringMoreNeverHurts
<1>1. TypeOK /\ TypeOK' /\ [Next]_vars =>
        [(RouterAccepts /\ fill' > fill /\ ~MathOverflow(intent, fill')) => RouterAccepts']_vars
  <2> SUFFICES ASSUME TypeOK, TypeOK', Next, RouterAccepts, fill' > fill,
                      ~MathOverflow(intent, fill')
               PROVE  RouterAccepts'
    BY DEF vars
  <2>2. IsPriced(intent) /\ fill \in Int /\ fill' \in Int
    BY TypedIntent, QuoteAssumption DEF TypeOK
  <2>1. intent' = intent /\ ledgerClock' = ledgerClock
    <3>1. fill' # fill
      BY <2>2
    <3>2. OfferMore
      BY <3>1 DEF Next, LedgerCloses, BotClockTicks
    <3>3. QED
      BY <3>2 DEF OfferMore
  <2>3. AcceptsTerms(intent, fill', ledgerClock)
    BY <2>2, DeliveringMore DEF RouterAccepts
  <2>4. QED
    BY <2>1, <2>3 DEF RouterAccepts
<1>2. QED
  BY <1>1, QuoteTyped, PTL DEF Spec, DeliveringMoreNeverHurts
=============================================================================
