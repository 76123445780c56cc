--------------------------- MODULE IntentBuilder ---------------------------
(***************************************************************************)
(* The fluent IntentBuilder of packages/sdk/src/intent.ts, used by a       *)
(* trader's program while its clock runs.                                  *)
(*                                                                         *)
(* A builder is a function from the fields that were set to their values.  *)
(* Setters check little: most of the validation waits for build(), and a   *)
(* builder can be built from again.  A call that throws before it assigns  *)
(* anything changes nothing and is not a step.                             *)
(***************************************************************************)
EXTENDS Intent, FiniteSets

CONSTANTS
  DEFAULT_INTENT_TTL_SECONDS,
  MsPerSecond,      \* 1000
  Traders, Pairs,   \* what the program passes to the setters ...
  AmountInputs,     \* ... pairs of integers or other things
  SlippageInputs, FeeInputs, NonceInputs, TtlInputs, TimestampInputs,
  MaxMs,            \* bound on the trader's clock
  MaxBuilt          \* bound on the intents built

ASSUME BuilderAssumption ==
  /\ DEFAULT_INTENT_TTL_SECONDS \in Nat \ {0} /\ MsPerSecond \in Nat \ {0}
  /\ SlippageInputs \cup FeeInputs \subseteq Int /\ TtlInputs \subseteq Nat \ {0}
  /\ NonceInputs \subseteq Int /\ TimestampInputs \subseteq Int
  /\ \A a \in AmountInputs : a = <<a[1], a[2]>>
  \* What is a number in JavaScript is a double.
  /\ \A n \in SlippageInputs \cup FeeInputs \cup TtlInputs \cup TimestampInputs : Double(n) = n
  /\ MaxMs \in Nat /\ MaxBuilt \in Nat

VARIABLES
  builder,
  torn,      \* history: the last setAmounts threw between its assignments
  given,     \* history: setNonce was called on this builder
  ms,        \* Date.now()
  built      \* history: the intents returned, and how they came about

program == <<builder, torn, given, ms, built>>

NewBuilder == [solverFeeBps |-> 0]

BuilderTypeOK ==
  /\ DOMAIN builder \subseteq Fields
  /\ \A f \in DOMAIN builder \cap BigIntFields : builder[f] \in Int
  /\ torn \in BOOLEAN /\ given \in BOOLEAN
  /\ ms \in 0 .. MaxMs
  /\ \A b \in built : DOMAIN b.intent = Fields /\ b.ms \in 0 .. MaxMs

BuilderInit ==
  /\ builder = NewBuilder
  /\ torn = FALSE /\ given = FALSE
  /\ ms = 0
  /\ built = {}

nowSeconds == ms \div MsPerSecond

\* The assignments of `f', and what `g' says of the other fields.
Override(f, g) ==
  [x \in DOMAIN f \cup DOMAIN g |-> IF x \in DOMAIN f THEN f[x] ELSE g[x]]

Set(field, value) ==
  /\ builder' = Override([x \in {field} |-> value], builder)
  /\ given' = (given \/ field = "nonce")
  /\ UNCHANGED <<torn, ms, built>>

setTrader(address) == Set("trader", address)

setPair(sell, buy) ==
  /\ builder' = Override([sellToken |-> sell, buyToken |-> buy], builder)
  /\ UNCHANGED <<torn, given, ms, built>>

setAmountsRaw(sell, buy) ==  \* mutant: nothing is converted
  /\ builder' = Override([sellAmount |-> sell, minBuyAmount |-> buy], builder)
  /\ torn' = FALSE
  /\ UNCHANGED <<given, ms, built>>

setAmountsOnce(sell, buy) == \* mutant: an earlier minimum is kept
  /\ toBigInt(sell) /\ toBigInt(buy)
  /\ builder' = Override([sellAmount |-> sell], Override(builder, [minBuyAmount |-> buy]))
  /\ torn' = FALSE
  /\ UNCHANGED <<given, ms, built>>

\* The first amount is assigned before the second is converted.
setAmounts(sell, buy) ==
  /\ toBigInt(sell)
  /\ builder' = IF toBigInt(buy)
                  THEN Override([sellAmount |-> sell, minBuyAmount |-> buy], builder)
                  ELSE Override([sellAmount |-> sell], builder)
  /\ torn' = ~toBigInt(buy)
  /\ UNCHANGED <<given, ms, built>>

setSlippageBps(bps) == Set("maxSlippageBps", bps)

setSolverFeeBps(bps) == Set("solverFeeBps", bps)

setNonce(nonce) == Set("nonce", nonce)

\* The sum of two numbers is rounded to a double.
After(seconds) == Double(nowSeconds + seconds)

\* Counted from the moment of this call, not of build().
setDeadline(secondsFromNow) == Set("deadline", After(secondsFromNow))

setDeadlineTimestamp(deadline) == Set("deadline", deadline)

Required ==
  {"trader", "sellToken", "buyToken", "sellAmount", "minBuyAmount", "maxSlippageBps"}

Defaults == [deadline |-> After(DEFAULT_INTENT_TTL_SECONDS), nonce |-> ms]

KeepsNonce ==                \* mutant of LeftBehind: this.nonce ??= the default
  Override(builder, [nonce |-> ms])

\* What build() leaves of the builder: it assigns none of its fields.
LeftBehind == builder

\* Returns an intent.  After the last one of the model the builder is dropped.
build ==
  /\ Required \subseteq DOMAIN builder
  /\ Cardinality(built) < MaxBuilt
  /\ LET intent == Override(builder, Defaults) IN
       /\ validateIntent(intent)
       /\ intent.deadline > nowSeconds
       /\ built' = built \cup
                     {[intent |-> intent, ms |-> ms, torn |-> torn, given |-> given]}
  /\ IF Cardinality(built') = MaxBuilt
       THEN builder' = NewBuilder /\ torn' = FALSE /\ given' = FALSE
       ELSE builder' = LeftBehind /\ UNCHANGED <<torn, given>>
  /\ UNCHANGED ms

startAgain ==
  /\ builder' = NewBuilder
  /\ torn' = FALSE /\ given' = FALSE
  /\ UNCHANGED <<ms, built>>

ClockTicks ==
  /\ ms < MaxMs
  /\ ms' = ms + 1
  /\ UNCHANGED <<builder, torn, given, built>>

BuilderStep ==
  /\ Cardinality(built) < MaxBuilt
  /\ \/ \E a \in Traders : setTrader(a)
     \/ \E p \in Pairs : setPair(p[1], p[2])
     \/ \E a \in AmountInputs : setAmounts(a[1], a[2])
     \/ \E b \in SlippageInputs : setSlippageBps(b)
     \/ \E b \in FeeInputs : setSolverFeeBps(b)
     \/ \E n \in NonceInputs : setNonce(n)
     \/ \E s \in TtlInputs : setDeadline(s)
     \/ \E d \in TimestampInputs : setDeadlineTimestamp(d)
     \/ build
     \/ startAgain
     \/ ClockTicks

-----------------------------------------------------------------------------
\* Two intents of one trader share a nonce, and so at most one of them can
\* ever settle, only if setNonce was called on the builder of one of them or both
\* were built in the same millisecond (intent.ts:216): a builder that is built
\* from twice, its fields changed meanwhile or not, does not keep the nonce it
\* made up the first time.
SharedNonceSameInstant ==
  \A p, q \in built :
    p.intent.nonce = q.intent.nonce => p.ms = q.ms \/ p.given \/ q.given

\* The two amounts of an intent were passed to one call of setAmounts, unless
\* the last such call threw halfway (intent.ts:156-160).
AmountsBelongTogether ==
  \A p \in built :
    ~p.torn => <<p.intent.sellAmount, p.intent.minBuyAmount>> \in AmountInputs

\* An intent the builder returns, if it can be encoded at all, is one the router
\* accepts the terms of until its deadline, provided the fee is within the
\* tolerance and the arithmetic fits: client and contract validate alike.
BuiltIsFillable ==
  \A p \in built :
    LET i == intentToScVal(p.intent) IN
    (/\ Encodable(p.intent)
     /\ i.solver_fee_bps <= i.max_slippage_bps
     /\ ~MathOverflow(i, i.min_buy_amount))
      => \A t \in 0 .. i.deadline : AcceptsTerms(i, i.min_buy_amount, t)

\* An intent read back from JSON is the one that was written, with its hash
\* (intent.ts:289-296): nothing larger than a double holds is lost.
FeedReturnsWhatWasBuilt ==
  \A p \in built :
    LET read == deserializeIntent(serializeIntent(p.intent)) IN
    /\ validateIntent(read)
    /\ hashIntent(read) = hashIntent(p.intent)
=============================================================================
