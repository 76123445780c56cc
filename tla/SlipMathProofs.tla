--------------------------- MODULE SlipMathProofs ---------------------------
(***************************************************************************)
(* What the settlement arithmetic guarantees for every denominator, every  *)
(* width and every amount.                                                 *)
(***************************************************************************)
EXTENDS SlipMath, TLAPS

\* The pricing fields of a TraderIntent have their types.
IsPriced(i) ==
  /\ i.sell_amount \in Int
  /\ i.min_buy_amount \in Int
  /\ i.max_slippage_bps \in Nat
  /\ i.solver_fee_bps \in Nat
  /\ i.deadline \in Nat

\* Flooring division, as the two inequalities that define it.
LEMMA DivisionBounds ==
  ASSUME NEW a \in Int, NEW d \in Nat \ {0}
  PROVE  /\ a \div d \in Int
         /\ d * (a \div d) <= a
         /\ a < d * ((a \div d) + 1)
  OBVIOUS

\* Division is monotone in the dividend.
LEMMA DivisionMonotone ==
  ASSUME NEW a \in Int, NEW b \in Int, a <= b, NEW d \in Nat \ {0}
  PROVE  a \div d <= b \div d
<1> DEFINE p == a \div d
           q == b \div d
<1>1. p \in Int /\ q \in Int /\ d * p <= a /\ b < d * (q + 1)
  BY DivisionBounds
<1> HIDE DEF p, q
<1>2. d * p < d * (q + 1)
  BY <1>1
<1>3. p < q + 1
  BY <1>1, <1>2
<1>4. QED
  BY <1>1, <1>3 DEF p, q

\* The fee of a fill is part of it: between nothing and everything.
LEMMA FeeBounds ==
  ASSUME NEW i, IsPriced(i), ~InvalidSlippageBps(i), NEW amount \in Nat
  PROVE  /\ solver_fee(i, amount) \in 0 .. amount
         /\ trader_proceeds(i, amount) \in 0 .. amount
         /\ solver_fee(i, amount) + trader_proceeds(i, amount) = amount
<1> DEFINE f == i.solver_fee_bps
           B == BPS_DENOMINATOR
           q == (amount * f) \div B
<1>1. B \in Nat \ {0} /\ f \in 0 .. B
  BY BpsAssumption DEF IsPriced, InvalidSlippageBps
<1>2. amount * f \in Nat /\ amount * f <= amount * B
  BY <1>1
<1>3. q \in Int /\ B * q <= amount * f /\ amount * f < B * (q + 1)
  <2>1. amount * f \in Int
    BY <1>2
  <2> HIDE DEF f, B
  <2>2. QED
    BY <2>1, <1>1, DivisionBounds
<1> HIDE DEF q, f, B
<1>4. q >= 0
  <2>1. 0 < B * (q + 1)
    BY <1>2, <1>3, <1>1
  <2>2. QED
    BY <2>1, <1>1, <1>3
<1>5. q <= amount
  <2>1. B * q <= B * amount
    BY <1>1, <1>2, <1>3
  <2>2. QED
    BY <2>1, <1>1, <1>3
<1>6. q \in 0 .. amount
  BY <1>3, <1>4, <1>5
<1>7. QED
  BY <1>6 DEF q, f, B, solver_fee, trader_proceeds, mul_bps

\* A fill the router accepts leaves the trader short of min_buy_amount by less
\* than one basis point more than the tolerance (lib.rs:202-214).
THEOREM ToleranceHolds ==
  ASSUME NEW i, IsPriced(i), NEW amount \in Int, NEW time, AcceptsTerms(i, amount, time)
  PROVE  shortfall(i, amount) * BPS_DENOMINATOR
           < (i.max_slippage_bps + 1) * i.min_buy_amount
<1> DEFINE m == i.min_buy_amount
           t == i.max_slippage_bps
           s == shortfall(i, amount)
           B == BPS_DENOMINATOR
           q == (s * B) \div m
<1>1. m \in Nat \ {0} /\ t \in Nat /\ B \in Nat \ {0} /\ amount \in Nat
  BY BpsAssumption DEF IsPriced, AcceptsTerms, InvalidAmount, InsufficientOutput
<1>2. trader_proceeds(i, amount) \in Int /\ s = m - trader_proceeds(i, amount)
  BY <1>1, FeeBounds DEF AcceptsTerms, shortfall
<1>3. CASE trader_proceeds(i, amount) < m
  <2>1. q <= t
    BY <1>3, <1>1, <1>2, DivisionBounds
       DEF AcceptsTerms, SlippageExceeded, shortfall_bps
  <2>2. q \in Int /\ s * B < m * (q + 1)
    <3>1. s * B \in Int
      BY <1>1, <1>2
    <3> HIDE DEF s, m, B
    <3>2. QED
      BY <3>1, <1>1, DivisionBounds
  <2> HIDE DEF q, s
  <2>3. m * (q + 1) <= m * (t + 1)
    BY <2>1, <2>2, <1>1
  <2>4. QED
    BY <2>2, <2>3, <1>1, <1>2 DEF s
<1>4. CASE ~(trader_proceeds(i, amount) < m)
  <2>1. s <= 0
    BY <1>4, <1>1, <1>2
  <2> HIDE DEF s
  <2>2. s * B <= 0 /\ 0 < (t + 1) * m
    BY <2>1, <1>1, <1>2
  <2>3. QED
    BY <2>2, <1>1, <1>2 DEF s
<1>5. QED
  BY <1>3, <1>4

\* At exactly min_buy_amount, a fee no larger than the tolerance is accepted:
\* the floors of the fee and of shortfall_bps never add up to a rejection.
THEOREM FeeWithinTolerance ==
  ASSUME NEW i, IsPriced(i), ~InvalidAmount(i), ~InvalidSlippageBps(i),
         i.solver_fee_bps <= i.max_slippage_bps
  PROVE  ~SlippageExceeded(i, i.min_buy_amount)
<1> DEFINE m == i.min_buy_amount
           f == i.solver_fee_bps
           B == BPS_DENOMINATOR
           fee == solver_fee(i, m)
           q == (fee * B) \div m
<1>1. m \in Nat \ {0} /\ f \in Nat /\ B \in Nat \ {0}
  BY BpsAssumption DEF IsPriced, InvalidAmount
<1>2. fee \in Nat /\ shortfall(i, m) = fee
  BY <1>1, FeeBounds DEF shortfall, trader_proceeds
<1>3. B * fee <= m * f
  <2>1. fee = (m * f) \div B /\ m * f \in Int
    BY <1>1 DEF solver_fee, mul_bps
  <2> HIDE DEF fee, f, B, m
  <2>2. QED
    BY <2>1, <1>1, DivisionBounds
<1>4. q \in Int /\ m * q <= fee * B
  <2>1. fee * B \in Int
    BY <1>1, <1>2
  <2> HIDE DEF fee, B, m
  <2>2. QED
    BY <2>1, <1>1, DivisionBounds
<1>5. shortfall_bps(i, m) = q
  BY <1>2 DEF shortfall_bps
<1> HIDE DEF q, fee, m, f, B
<1>6. m * q <= m * f
  BY <1>1, <1>2, <1>3, <1>4
<1>7. q <= f
  BY <1>1, <1>4, <1>6
<1>8. q <= i.max_slippage_bps
  BY <1>7, <1>4, <1>1 DEF f, IsPriced
<1>9. QED
  BY <1>8, <1>4, <1>5 DEF SlippageExceeded, m, IsPriced

\* Delivering more never lowers what the trader receives.
LEMMA ProceedsMonotone ==
  ASSUME NEW i, IsPriced(i), ~InvalidSlippageBps(i),
         NEW a \in Nat, NEW b \in Nat, a <= b
  PROVE  trader_proceeds(i, a) <= trader_proceeds(i, b)
<1> DEFINE f == i.solver_fee_bps
           B == BPS_DENOMINATOR
           p == (a * f) \div B
           q == (b * f) \div B
<1>1. B \in Nat \ {0} /\ f \in 0 .. B
  BY BpsAssumption DEF IsPriced, InvalidSlippageBps
<1>2. a * f \in Int /\ b * f \in Int
  BY <1>1
<1>3. /\ p \in Int /\ a * f < B * (p + 1)
      /\ q \in Int /\ B * q <= b * f
  <2> HIDE DEF f, B
  <2>1. QED
    BY <1>1, <1>2, DivisionBounds
<1> HIDE DEF p, q
<1>4. b * f - a * f <= B * (b - a)
  <2>1. b * f - a * f = (b - a) * f
    BY <1>1
  <2>2. (b - a) * f <= (b - a) * B
    BY <1>1
  <2>3. QED
    BY <2>1, <2>2, <1>1
<1>5. B * q < B * (p + 1 + (b - a))
  <2>1. B * (p + 1 + (b - a)) = B * (p + 1) + B * (b - a)
    BY <1>1, <1>3
  <2>2. QED
    BY <2>1, <1>1, <1>2, <1>3, <1>4
<1>6. q < p + 1 + (b - a)
  BY <1>1, <1>3, <1>5
<1>7. a - p <= b - q
  BY <1>3, <1>6
<1>8. QED
  BY <1>7 DEF p, q, f, B, trader_proceeds, solver_fee, mul_bps

\* Delivering more never turns an accepted fill into a rejected one, as long as
\* the arithmetic fits (lib.rs:195-214).
THEOREM DeliveringMore ==
  ASSUME NEW i, IsPriced(i), NEW a \in Int, NEW b \in Int, a <= b, NEW time,
         AcceptsTerms(i, a, time), ~MathOverflow(i, b)
  PROVE  AcceptsTerms(i, b, time)
<1> DEFINE m == i.min_buy_amount
<1>1. m \in Nat \ {0} /\ a \in Nat /\ b \in Nat /\ BPS_DENOMINATOR \in Nat \ {0}
      /\ ~InsufficientOutput(i, b)
  BY BpsAssumption DEF IsPriced, AcceptsTerms, InvalidAmount, InsufficientOutput
<1>2. /\ trader_proceeds(i, a) \in Int /\ trader_proceeds(i, b) \in Int
      /\ trader_proceeds(i, a) <= trader_proceeds(i, b)
  BY <1>1, FeeBounds, ProceedsMonotone DEF AcceptsTerms
<1>3. ASSUME SlippageExceeded(i, b) PROVE FALSE
  <2>1. /\ shortfall(i, a) \in Int /\ shortfall(i, b) \in Int
        /\ shortfall(i, b) <= shortfall(i, a)
    BY <1>1, <1>2 DEF shortfall
  <2>2. /\ shortfall(i, a) * BPS_DENOMINATOR \in Int
        /\ shortfall(i, b) * BPS_DENOMINATOR \in Int
        /\ shortfall(i, b) * BPS_DENOMINATOR <= shortfall(i, a) * BPS_DENOMINATOR
    BY <2>1, <1>1
  <2>3. /\ shortfall_bps(i, a) \in Int /\ shortfall_bps(i, b) \in Int
        /\ shortfall_bps(i, b) <= shortfall_bps(i, a)
    BY <2>2, <1>1, DivisionMonotone, DivisionBounds DEF shortfall_bps
  <2>4. SlippageExceeded(i, a)
    BY <1>3, <1>1, <1>2, <2>3 DEF SlippageExceeded, IsPriced
  <2>5. QED
    BY <2>4 DEF AcceptsTerms
<1>4. QED
  BY <1>1, <1>3 DEF AcceptsTerms
=============================================================================
