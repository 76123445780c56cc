-------------------------- MODULE TraderDeskProofs --------------------------
(***************************************************************************)
(* What holds of the trader's desk for every life the network gives an     *)
(* entry, every threshold, any number of intents and keys, and whatever    *)
(* the program passes to the builder.                                      *)
(***************************************************************************)
EXTENDS TraderDesk, SlipMathProofs

-----------------------------------------------------------------------------
(***************************************************************************)
(* THE BUILDER.  What every intent it returns has in common, whatever a    *)
(* program passes to the setters, in which order, and however often it     *)
(* builds.                                                                 *)
(***************************************************************************)

LEMMA OverrideFacts ==
  ASSUME NEW f, NEW g
  PROVE  /\ \A x : x \in DOMAIN Override(f, g) <=> x \in DOMAIN f \/ x \in DOMAIN g
         /\ \A x \in DOMAIN f : Override(f, g)[x] = f[x]
         /\ \A x \in DOMAIN g : x \notin DOMAIN f => Override(f, g)[x] = g[x]
BY DEF Override

-----------------------------------------------------------------------------
(* The inductive invariant.                                                *)

IntegersHeld(f) == \A x \in DOMAIN f : x \in BigIntFields => f[x] \in Int

DoublesHeld(f) == \A x \in DOMAIN f : x \in NumberFields => Double(f[x]) = f[x]

\* Unless the last setAmounts threw halfway, the amounts were set together.
AmountsHeld(f) ==
  /\ "sellAmount" \in DOMAIN f <=> "minBuyAmount" \in DOMAIN f
  /\ "sellAmount" \in DOMAIN f => <<f["sellAmount"], f["minBuyAmount"]>> \in AmountInputs

BuilderHeld ==
  /\ \A x \in DOMAIN builder : x \in Fields
  /\ "solverFeeBps" \in DOMAIN builder
  /\ IntegersHeld(builder)
  /\ DoublesHeld(builder)
  /\ ~torn => AmountsHeld(builder)
  /\ "nonce" \in DOMAIN builder => given

\* What is true of an intent from the moment it was built.
WellBuilt(b) ==
  /\ DOMAIN b.intent = Fields
  /\ IntegersHeld(b.intent)
  /\ DoublesHeld(b.intent)
  /\ validateIntent(b.intent)
  /\ b.ms \in 0 .. MaxMs
  /\ ~b.given => b.intent["nonce"] = b.ms
  /\ ~b.torn => <<b.intent["sellAmount"], b.intent["minBuyAmount"]>> \in AmountInputs

BuildInv ==
  /\ BuilderHeld
  /\ torn \in BOOLEAN /\ given \in BOOLEAN
  /\ ms \in 0 .. MaxMs
  /\ \A b \in built : WellBuilt(b)

LEMMA NewBuilderHeld ==
  ASSUME builder' = NewBuilder
  PROVE  BuilderHeld'
<1>1. /\ \A x : x \in DOMAIN NewBuilder <=> x = "solverFeeBps"
      /\ Double(NewBuilder["solverFeeBps"]) = NewBuilder["solverFeeBps"]
  BY NumberAssumption DEF NewBuilder, Double
<1>2. QED
  BY <1>1 DEF BuilderHeld, IntegersHeld, DoublesHeld, AmountsHeld, Fields, AddressFields, BigIntFields, NumberFields

LEMMA BuildInit == BuilderInit => BuildInv
<1> SUFFICES ASSUME BuilderInit PROVE BuildInv
  OBVIOUS
<1>1. /\ \A x : x \in DOMAIN NewBuilder <=> x = "solverFeeBps"
      /\ Double(NewBuilder["solverFeeBps"]) = NewBuilder["solverFeeBps"]
  BY NumberAssumption DEF NewBuilder, Double
<1>2. BuilderHeld
  BY <1>1 DEF BuilderInit, BuilderHeld, IntegersHeld, DoublesHeld, AmountsHeld,
              Fields, AddressFields, BigIntFields, NumberFields
<1>3. torn \in BOOLEAN /\ given \in BOOLEAN
  BY DEF BuilderInit
<1>4. ms \in 0 .. MaxMs /\ \A b \in built : WellBuilt(b)
  BY BuilderAssumption DEF BuilderInit
<1>5. QED
  BY <1>2, <1>3, <1>4 DEF BuildInv

-----------------------------------------------------------------------------
(* The setters.                                                            *)

\* A double is read back as itself, and so is a sum that was rounded once.
LEMMA DoubleTwice ==
  ASSUME NEW n \in Int
  PROVE  Double(Double(n)) = Double(n)
<1>1. CASE n \in -MAX_SAFE_INTEGER .. MAX_SAFE_INTEGER
  BY <1>1 DEF Double
<1>2. CASE n \notin -MAX_SAFE_INTEGER .. MAX_SAFE_INTEGER
  <2>1. PICK m : m = n \div 2 /\ m \in Int
    OBVIOUS
  <2>2. Double(n) = 2 * m
    BY <1>2, <2>1 DEF Double
  <2>3. (2 * m) \div 2 = m
    BY <2>1
  <2>4. QED
    BY <2>2, <2>3 DEF Double
<1>3. QED
  BY <1>1, <1>2

LEMMA AfterIsDouble ==
  ASSUME BuildInv, NEW s \in Nat
  PROVE  Double(After(s)) = After(s)
<1>1. nowSeconds \in Int
  BY BuilderAssumption DEF nowSeconds, BuildInv
<1>2. QED
  BY <1>1, DoubleTwice DEF After

\* A setter of fields other than the amounts.
LEMMA SettingKeeps ==
  ASSUME BuildInv, NEW f, builder' = Override(f, builder), given' \in BOOLEAN,
         given \/ "nonce" \in DOMAIN f => given', UNCHANGED <<torn, ms, built>>,
         \A x \in DOMAIN f : x \in Fields \ {"sellAmount", "minBuyAmount"},
         IntegersHeld(f), DoublesHeld(f)
  PROVE  BuildInv'
<1>1. /\ \A x : x \in DOMAIN builder' <=> x \in DOMAIN f \/ x \in DOMAIN builder
      /\ \A x \in DOMAIN f : builder'[x] = f[x]
      /\ \A x \in DOMAIN builder : x \notin DOMAIN f => builder'[x] = builder[x]
  BY OverrideFacts
<1>2. IntegersHeld(builder') /\ DoublesHeld(builder')
  BY <1>1 DEF BuildInv, BuilderHeld, IntegersHeld, DoublesHeld
<1>3. ~torn => AmountsHeld(builder')
  BY <1>1 DEF BuildInv, BuilderHeld, AmountsHeld
<1>4. BuilderHeld'
  BY <1>1, <1>2, <1>3 DEF BuildInv, BuilderHeld, IntegersHeld, AmountsHeld
<1>5. QED
  BY <1>4 DEF BuildInv, WellBuilt

LEMMA SetKeeps ==
  ASSUME BuildInv, NEW field \in Fields \ {"sellAmount", "minBuyAmount"}, NEW val,
         field \in BigIntFields => val \in Int,
         field \in NumberFields => Double(val) = val, Set(field, val)
  PROVE  BuildInv'
<1>1. PICK f : f = [x \in {field} |-> val]
  OBVIOUS
<1>2. /\ \A x \in DOMAIN f : x \in Fields \ {"sellAmount", "minBuyAmount"}
      /\ IntegersHeld(f) /\ DoublesHeld(f)
  BY <1>1 DEF IntegersHeld, DoublesHeld
<1>3. builder' = Override(f, builder) /\ UNCHANGED <<torn, ms, built>>
  BY <1>1 DEF Set
<1>4. given' \in BOOLEAN /\ (given \/ "nonce" \in DOMAIN f => given')
  BY <1>1 DEF Set, BuildInv
<1>5. QED
  BY <1>2, <1>3, <1>4, SettingKeeps

LEMMA SetPairKeeps ==
  ASSUME BuildInv, NEW sell, NEW buy, setPair(sell, buy)
  PROVE  BuildInv'
<1>1. PICK f : f = [sellToken |-> sell, buyToken |-> buy]
  OBVIOUS
<1>2. \A x \in DOMAIN f : x = "sellToken" \/ x = "buyToken"
  BY <1>1
<1>3. /\ \A x \in DOMAIN f : x \in Fields \ {"sellAmount", "minBuyAmount"}
      /\ IntegersHeld(f) /\ DoublesHeld(f)
  BY <1>2 DEF IntegersHeld, DoublesHeld, Fields, AddressFields, BigIntFields, NumberFields
<1>4. builder' = Override(f, builder) /\ UNCHANGED <<torn, given, ms, built>>
  BY <1>1 DEF setPair
<1>5. given' \in BOOLEAN /\ (given \/ "nonce" \in DOMAIN f => given')
  BY <1>2, <1>4 DEF BuildInv
<1>6. QED
  BY <1>3, <1>4, <1>5, SettingKeeps

\* The second amount may throw after the first was assigned, and only then is
\* the builder torn.
LEMMA SetAmountsKeeps ==
  ASSUME BuildInv, NEW a \in AmountInputs, setAmounts(a[1], a[2])
  PROVE  BuildInv'
<1>1. PICK f : /\ f = IF toBigInt(a[2])
                        THEN [sellAmount |-> a[1], minBuyAmount |-> a[2]]
                        ELSE [sellAmount |-> a[1]]
               /\ builder' = Override(f, builder)
  BY DEF setAmounts
<1>2. a[1] \in Int /\ torn' = ~toBigInt(a[2]) /\ given' = given /\ ms' = ms /\ built' = built
  BY DEF setAmounts, toBigInt
<1>3. /\ \A x : x \in DOMAIN builder' <=> x \in DOMAIN f \/ x \in DOMAIN builder
      /\ \A x \in DOMAIN f : builder'[x] = f[x]
      /\ \A x \in DOMAIN builder : x \notin DOMAIN f => builder'[x] = builder[x]
  BY <1>1, OverrideFacts
<1>4. CASE toBigInt(a[2])
  <2>1. /\ \A x : x \in DOMAIN f <=> x = "sellAmount" \/ x = "minBuyAmount"
        /\ f["sellAmount"] = a[1] /\ f["minBuyAmount"] = a[2]
        /\ a[2] \in Int
    BY <1>1, <1>4 DEF toBigInt
  <2>2. IntegersHeld(builder') /\ DoublesHeld(builder')
    BY <1>2, <1>3, <2>1
       DEF BuildInv, BuilderHeld, IntegersHeld, DoublesHeld, NumberFields
  <2>3. AmountsHeld(builder')
    BY <1>3, <2>1, BuilderAssumption DEF AmountsHeld
  <2>4. BuilderHeld'
    BY <1>2, <1>3, <1>4, <2>1, <2>2, <2>3
       DEF BuildInv, BuilderHeld, IntegersHeld, AmountsHeld, Fields, BigIntFields
  <2>5. QED
    BY <1>2, <1>4, <2>4 DEF BuildInv, WellBuilt
<1>5. CASE ~toBigInt(a[2])
  <2>1. /\ \A x : x \in DOMAIN f <=> x = "sellAmount"
        /\ f["sellAmount"] = a[1]
    BY <1>1, <1>5
  <2>2. IntegersHeld(builder') /\ DoublesHeld(builder')
    BY <1>2, <1>3, <2>1
       DEF BuildInv, BuilderHeld, IntegersHeld, DoublesHeld, NumberFields
  <2>3. "nonce" \in DOMAIN builder' => given'
    BY <1>2, <1>3, <2>1 DEF BuildInv, BuilderHeld
  <2>4. BuilderHeld'
    BY <1>2, <1>3, <1>5, <2>1, <2>2, <2>3
       DEF BuildInv, BuilderHeld, IntegersHeld, Fields, BigIntFields
  <2>5. QED
    BY <1>2, <1>5, <2>4 DEF BuildInv, WellBuilt
<1>6. QED
  BY <1>4, <1>5

-----------------------------------------------------------------------------
(* The other calls.                                                        *)

LEMMA ForgettingKeeps ==
  ASSUME BuildInv, builder' = NewBuilder, torn' = FALSE, given' = FALSE, ms' \in 0 .. MaxMs,
         \A b \in built' : b \in built
  PROVE  BuildInv'
<1>1. BuilderHeld'
  BY NewBuilderHeld
<1>2. torn' \in BOOLEAN /\ given' \in BOOLEAN
  OBVIOUS
<1>3. \A b \in built' : WellBuilt(b)
  BY DEF BuildInv
<1>4. (\A b \in built : WellBuilt(b))'
  BY <1>3 DEF WellBuilt
<1>5. QED
  BY <1>1, <1>2, <1>4 DEF BuildInv

\* What build() returns has every field, from the builder or by default.
LEMMA BuildKeeps ==
  ASSUME BuildInv, build
  PROVE  BuildInv'
<1>1. PICK intent : /\ intent = Override(builder, Defaults)
                    /\ validateIntent(intent)
                    /\ built' = built \cup {[intent |-> intent, ms |-> ms, torn |-> torn,
                                            given |-> given]}
  BY DEF build
<1>2. PICK b : /\ b = [intent |-> intent, ms |-> ms, torn |-> torn, given |-> given]
               /\ built' = built \cup {b}
  BY <1>1
<1>3. /\ b.intent = intent /\ b.ms = ms /\ (b.torn <=> torn)
      /\ b.given <=> given
  BY <1>2
<1>4. /\ \A x : x \in DOMAIN Defaults <=> x = "deadline" \/ x = "nonce"
      /\ Defaults["nonce"] = ms
      /\ Double(Defaults["deadline"]) = Defaults["deadline"]
  BY AfterIsDouble, BuilderAssumption DEF Defaults, BuildInv
<1>5. /\ \A x : x \in DOMAIN intent <=> x \in DOMAIN builder \/ x = "deadline" \/ x = "nonce"
      /\ \A x \in DOMAIN builder : intent[x] = builder[x]
      /\ "nonce" \notin DOMAIN builder => intent["nonce"] = ms
      /\ "deadline" \notin DOMAIN builder => Double(intent["deadline"]) = intent["deadline"]
  BY <1>1, <1>4, OverrideFacts
<1>6. /\ {"trader", "sellToken", "buyToken", "sellAmount", "minBuyAmount",
          "maxSlippageBps"} \subseteq DOMAIN builder
      /\ "solverFeeBps" \in DOMAIN builder
      /\ \A x \in DOMAIN builder : x \in Fields
      /\ IntegersHeld(builder) /\ DoublesHeld(builder)
      /\ (~torn => AmountsHeld(builder))
      /\ "nonce" \in DOMAIN builder => given
      /\ ms \in 0 .. MaxMs
  BY DEF build, Required, BuildInv, BuilderHeld
<1>7. DOMAIN intent = Fields
  BY <1>5, <1>6 DEF Fields, AddressFields, BigIntFields, NumberFields
<1>8. IntegersHeld(intent) /\ DoublesHeld(intent)
  BY <1>5, <1>6 DEF IntegersHeld, DoublesHeld, BigIntFields, NumberFields
<1>9. ~torn => <<intent["sellAmount"], intent["minBuyAmount"]>> \in AmountInputs
  BY <1>5, <1>6 DEF AmountsHeld
<1>10. WellBuilt(b)
  BY <1>1, <1>3, <1>5, <1>6, <1>7, <1>8, <1>9 DEF WellBuilt
<1>11. (\A c \in built : WellBuilt(c))'
  BY <1>2, <1>10 DEF BuildInv, WellBuilt
<1>12. ms' = ms
  BY DEF build
<1>13. CASE builder' = NewBuilder /\ torn' = FALSE /\ given' = FALSE
  BY <1>6, <1>11, <1>12, <1>13, NewBuilderHeld DEF BuildInv
<1>14. CASE builder' = LeftBehind /\ UNCHANGED <<torn, given>>
  BY <1>6, <1>11, <1>12, <1>14 DEF LeftBehind, BuildInv, BuilderHeld
<1>15. QED
  BY <1>13, <1>14 DEF build

LEMMA BuilderStepKeeps ==
  ASSUME BuildInv, BuilderStep
  PROVE  BuildInv'
<1> DEFINE Other == Fields \ {"sellAmount", "minBuyAmount"}
<1>1. /\ "trader" \in Other /\ "maxSlippageBps" \in Other /\ "solverFeeBps" \in Other
      /\ "nonce" \in Other /\ "deadline" \in Other
      /\ "trader" \notin BigIntFields /\ "maxSlippageBps" \notin BigIntFields
      /\ "solverFeeBps" \notin BigIntFields /\ "deadline" \notin BigIntFields
      /\ "trader" \notin NumberFields /\ "nonce" \notin NumberFields
  BY DEF Fields, AddressFields, BigIntFields, NumberFields
<1>2. ASSUME NEW a \in Traders, setTrader(a) PROVE BuildInv'
  BY <1>1, <1>2, SetKeeps DEF setTrader
<1>3. ASSUME NEW p \in Pairs, setPair(p[1], p[2]) PROVE BuildInv'
  BY <1>3, SetPairKeeps
<1>4. ASSUME NEW a \in AmountInputs, setAmounts(a[1], a[2]) PROVE BuildInv'
  BY <1>4, SetAmountsKeeps
<1>5. ASSUME NEW b \in SlippageInputs, setSlippageBps(b) PROVE BuildInv'
  <2>1. Double(b) = b
    BY BuilderAssumption
  <2>2. QED
    BY <1>1, <1>5, <2>1, SetKeeps DEF setSlippageBps
<1>6. ASSUME NEW b \in FeeInputs, setSolverFeeBps(b) PROVE BuildInv'
  <2>1. Double(b) = b
    BY BuilderAssumption
  <2>2. QED
    BY <1>1, <1>6, <2>1, SetKeeps DEF setSolverFeeBps
<1>7. ASSUME NEW n \in NonceInputs, setNonce(n) PROVE BuildInv'
  <2>1. n \in Int
    BY BuilderAssumption
  <2>2. QED
    BY <1>1, <1>7, <2>1, SetKeeps DEF setNonce
<1>8. ASSUME NEW s \in TtlInputs, setDeadline(s) PROVE BuildInv'
  <2>1. Double(After(s)) = After(s)
    BY BuilderAssumption, AfterIsDouble
  <2>2. QED
    BY <1>1, <1>8, <2>1, SetKeeps DEF setDeadline
<1>9. ASSUME NEW d \in TimestampInputs, setDeadlineTimestamp(d) PROVE BuildInv'
  <2>1. Double(d) = d
    BY BuilderAssumption
  <2>2. QED
    BY <1>1, <1>9, <2>1, SetKeeps DEF setDeadlineTimestamp
<1>10. CASE build
  BY <1>10, BuildKeeps
<1>11. CASE startAgain
  BY <1>11, ForgettingKeeps DEF startAgain, BuildInv
<1>12. CASE ClockTicks
  <2>1. UNCHANGED <<builder, torn, given, built>> /\ ms' \in 0 .. MaxMs
    BY <1>12, BuilderAssumption DEF ClockTicks, BuildInv
  <2>2. BuilderHeld' /\ (torn \in BOOLEAN /\ given \in BOOLEAN)'
    BY <2>1 DEF BuildInv, BuilderHeld
  <2>3. (\A b \in built : WellBuilt(b))'
    BY <2>1 DEF BuildInv, WellBuilt
  <2>4. QED
    BY <2>1, <2>2, <2>3 DEF BuildInv
<1>13. QED
  BY <1>2, <1>3, <1>4, <1>5, <1>6, <1>7, <1>8, <1>9, <1>10, <1>11, <1>12 DEF BuilderStep

-----------------------------------------------------------------------------
(* What the invariant says of the intents built.                           *)

\* The builder's default nonce is the millisecond of the call (intent.ts:216).
LEMMA SharedNonce == BuildInv => SharedNonceSameInstant
BY DEF BuildInv, WellBuilt, SharedNonceSameInstant

\* The amounts of an intent go together (intent.ts:156-160).
LEMMA AmountsTogether == BuildInv => AmountsBelongTogether
BY DEF BuildInv, WellBuilt, AmountsBelongTogether

\* The builder's validation is the router's, up to what cannot be encoded and
\* what overflows: nothing it returns is refused for its terms in time.
LEMMA Fillable == BuildInv => BuiltIsFillable
<1> SUFFICES ASSUME BuildInv, NEW p \in built,
                    intentToScVal(p.intent).solver_fee_bps
                      <= intentToScVal(p.intent).max_slippage_bps,
                    ~MathOverflow(intentToScVal(p.intent),
                                  intentToScVal(p.intent).min_buy_amount),
                    NEW t \in 0 .. intentToScVal(p.intent).deadline
             PROVE  AcceptsTerms(intentToScVal(p.intent),
                                 intentToScVal(p.intent).min_buy_amount, t)
  BY DEF BuiltIsFillable
<1>1. PICK i : i = intentToScVal(p.intent)
  OBVIOUS
<1>2. /\ i.sell_amount = p.intent["sellAmount"] /\ i.min_buy_amount = p.intent["minBuyAmount"]
      /\ i.max_slippage_bps = p.intent["maxSlippageBps"]
      /\ i.solver_fee_bps = p.intent["solverFeeBps"] /\ i.deadline = p.intent["deadline"]
  BY <1>1 DEF intentToScVal
<1>3. /\ DOMAIN p.intent = Fields /\ IntegersHeld(p.intent) /\ validateIntent(p.intent)
  BY DEF BuildInv, WellBuilt
<1>4. /\ p.intent["sellAmount"] \in Int /\ p.intent["minBuyAmount"] \in Int
  BY <1>3 DEF IntegersHeld, Fields, BigIntFields
<1>5. /\ p.intent["sellAmount"] > 0 /\ p.intent["minBuyAmount"] > 0
      /\ p.intent["maxSlippageBps"] \in 0 .. BPS_DENOMINATOR
      /\ p.intent["solverFeeBps"] \in 0 .. BPS_DENOMINATOR
      /\ p.intent["deadline"] \in Nat \ {0}
  BY <1>3 DEF validateIntent, assertBps
<1>6. IsPriced(i) /\ ~InvalidAmount(i) /\ ~InvalidSlippageBps(i)
  BY <1>2, <1>4, <1>5, BpsAssumption DEF IsPriced, InvalidAmount, InvalidSlippageBps
<1>7. ~IntentExpired(i, t) /\ ~InsufficientOutput(i, i.min_buy_amount)
  BY <1>1, <1>2, <1>4, <1>5 DEF IntentExpired, InsufficientOutput
<1>8. ~SlippageExceeded(i, i.min_buy_amount)
  BY <1>1, <1>6, FeeWithinTolerance
<1>9. QED
  BY <1>1, <1>6, <1>7, <1>8 DEF AcceptsTerms

\* What the feed carries is what was built: numerals are doubles already, and
\* the bigints travel as strings (intent.ts:289-320).
LEMMA FeedReturns == BuildInv => FeedReturnsWhatWasBuilt
<1> SUFFICES ASSUME BuildInv, NEW p \in built
             PROVE  /\ validateIntent(deserializeIntent(serializeIntent(p.intent)))
                    /\ hashIntent(deserializeIntent(serializeIntent(p.intent)))
                         = hashIntent(p.intent)
  BY DEF FeedReturnsWhatWasBuilt
<1>1. /\ DOMAIN p.intent = Fields /\ DoublesHeld(p.intent) /\ validateIntent(p.intent)
  BY DEF BuildInv, WellBuilt
<1>2. PICK read : read = deserializeIntent(serializeIntent(p.intent))
  OBVIOUS
<1>3. \A f \in Fields : read[f] = p.intent[f]
  <2> SUFFICES ASSUME NEW f \in Fields PROVE read[f] = p.intent[f]
    OBVIOUS
  <2>1. CASE f \in NumberFields
    BY <1>1, <1>2, <2>1 DEF DoublesHeld, deserializeIntent, serializeIntent
  <2>2. CASE f \notin NumberFields
    BY <1>2, <2>2 DEF deserializeIntent, serializeIntent
  <2>3. QED
    BY <2>1, <2>2
<1>4. /\ read["trader"] = p.intent["trader"] /\ read["sellToken"] = p.intent["sellToken"]
      /\ read["buyToken"] = p.intent["buyToken"]
      /\ read["sellAmount"] = p.intent["sellAmount"]
      /\ read["minBuyAmount"] = p.intent["minBuyAmount"]
      /\ read["nonce"] = p.intent["nonce"] /\ read["deadline"] = p.intent["deadline"]
      /\ read["maxSlippageBps"] = p.intent["maxSlippageBps"]
      /\ read["solverFeeBps"] = p.intent["solverFeeBps"]
  BY <1>3 DEF Fields, AddressFields, BigIntFields, NumberFields
<1>5. \A f \in AddressFields : read[f] = p.intent[f]
  BY <1>3 DEF Fields
<1>6. validateIntent(read)
  BY <1>1, <1>4, <1>5 DEF validateIntent
<1>7. hashIntent(read) = hashIntent(p.intent)
  BY <1>4 DEF hashIntent, intentToScVal
<1>8. QED
  BY <1>2, <1>6, <1>7

-----------------------------------------------------------------------------
(***************************************************************************)
(* THE CLIENT AND ITS ENTRIES.                                             *)
(***************************************************************************)

-----------------------------------------------------------------------------
(* Entries and what the host does to them.                                 *)

Entry(e) == e = [value |-> e.value, until |-> e.until] /\ e.until \in Int

AreEntries(es) == \A k \in DOMAIN es : Entry(es[k])

\* A write changes one entry, and not its life if it has one.
LEMMA SetFacts ==
  ASSUME NEW es, AreEntries(es), NEW key, NEW val, ledger \in Nat,
         NEW new, new = set(es, key, val)
  PROVE  /\ AreEntries(new)
         /\ \A k : k \in DOMAIN new <=> k \in DOMAIN es \/ k = key
         /\ new[key].value = val
         /\ \A k \in DOMAIN es : new[k].until = es[k].until
         /\ \A k \in DOMAIN es \ {key} : new[k] = es[k]
<1> DEFINE until == IF key \in DOMAIN es THEN es[key].until ELSE ledger + MinTtl
           entry == [value |-> val, until |-> until]
<1>1. until \in Int
  BY TtlAssumption DEF AreEntries, Entry
<1>2. /\ \A k : k \in DOMAIN new <=> k \in DOMAIN es \/ k = key
      /\ new[key] = entry
      /\ \A k \in DOMAIN es \ {key} : new[k] = es[k]
  BY DEF set
<1>3. Entry(entry)
  BY <1>1 DEF Entry
<1>4. AreEntries(new)
  BY <1>2, <1>3 DEF AreEntries
<1>5. \A k \in DOMAIN es : new[k].until = es[k].until
  BY <1>2
<1>6. QED
  BY <1>2, <1>4, <1>5

\* An extension leaves an entry with the threshold's life at least.
LEMMA ExtendFacts ==
  ASSUME NEW es, AreEntries(es), NEW key \in DOMAIN es, ledger \in Nat
  PROVE  /\ AreEntries(extend_ttl(es, key))
         /\ DOMAIN extend_ttl(es, key) = DOMAIN es
         /\ extend_ttl(es, key)[key].until >= ledger + TTL_THRESHOLD
         /\ \A k \in DOMAIN es : /\ extend_ttl(es, key)[k].until >= es[k].until
                                 /\ extend_ttl(es, key)[k].value = es[k].value
         /\ \A k \in DOMAIN es \ {key} : extend_ttl(es, key)[k] = es[k]
<1>1. Entry(es[key]) /\ \A k \in DOMAIN es : es[k].until \in Int
  BY DEF AreEntries, Entry
<1>2. CASE /\ es[key].until - ledger <= TTL_THRESHOLD
           /\ es[key].until < ledger + TTL_EXTEND_TO
  <2> DEFINE new == [es EXCEPT ![key].until = ledger + TTL_EXTEND_TO]
             entry == [es[key] EXCEPT !.until = ledger + TTL_EXTEND_TO]
  <2>1. extend_ttl(es, key) = new
    BY <1>2 DEF extend_ttl
  <2>2. /\ DOMAIN new = DOMAIN es /\ new[key] = entry
        /\ \A k \in DOMAIN es \ {key} : new[k] = es[k]
    OBVIOUS
  <2>3. entry = [value |-> es[key].value, until |-> ledger + TTL_EXTEND_TO]
    BY <1>1 DEF Entry
  <2>4. /\ Entry(entry) /\ entry.value = es[key].value
        /\ entry.until >= es[key].until /\ entry.until >= ledger + TTL_THRESHOLD
    BY <1>1, <1>2, <2>3, TtlAssumption DEF Entry
  <2>5. AreEntries(new)
    BY <2>2, <2>4 DEF AreEntries
  <2>6. \A k \in DOMAIN es : new[k].until >= es[k].until /\ new[k].value = es[k].value
    BY <1>1, <2>2, <2>4
  <2>7. QED
    BY <2>1, <2>2, <2>4, <2>5, <2>6
<1>3. CASE ~(/\ es[key].until - ledger <= TTL_THRESHOLD
             /\ es[key].until < ledger + TTL_EXTEND_TO)
  <2>1. extend_ttl(es, key) = es
    BY <1>3 DEF extend_ttl
  <2>2. es[key].until >= ledger + TTL_THRESHOLD
    BY <1>1, <1>3, TtlAssumption
  <2>3. QED
    BY <1>1, <2>1, <2>2
<1>4. QED
  BY <1>2, <1>3

\* The three setters of storage.rs all write and extend.
LEMMA WriteFacts ==
  ASSUME NEW es, AreEntries(es), NEW key, NEW val, ledger \in Nat,
         NEW new, new = extend_ttl(set(es, key, val), key)
  PROVE  /\ AreEntries(new)
         /\ \A k : k \in DOMAIN new <=> k \in DOMAIN es \/ k = key
         /\ new[key].value = val
         /\ new[key].until >= ledger + TTL_THRESHOLD
         /\ \A k \in DOMAIN es : new[k].until >= es[k].until
         /\ \A k \in DOMAIN es \ {key} : new[k] = es[k]
<1>1. PICK mid : mid = set(es, key, val)
  OBVIOUS
<1>2. /\ AreEntries(mid)
      /\ \A k : k \in DOMAIN mid <=> k \in DOMAIN es \/ k = key
      /\ mid[key].value = val
      /\ \A k \in DOMAIN es : mid[k].until = es[k].until
      /\ \A k \in DOMAIN es \ {key} : mid[k] = es[k]
  BY <1>1, SetFacts
<1>3. /\ AreEntries(new) /\ DOMAIN new = DOMAIN mid
      /\ new[key].until >= ledger + TTL_THRESHOLD
      /\ \A k \in DOMAIN mid : new[k].until >= mid[k].until /\ new[k].value = mid[k].value
      /\ \A k \in DOMAIN mid \ {key} : new[k] = mid[k]
  <2>1. key \in DOMAIN mid /\ new = extend_ttl(mid, key)
    BY <1>1, <1>2
  <2>2. QED
    BY <2>1, <1>2, ExtendFacts
<1>4. QED
  BY <1>2, <1>3

\* Keys of different kinds, and of different intents and nonces, are different.
LEMMA KeysDiffer ==
  ASSUME NEW h, NEW g, NEW t, NEW u, NEW n, NEW m
  PROVE  /\ IntentStatusKey(h) # UsedNonceKey(t, n)
         /\ IntentStatusKey(h) # FillReceiptKey(g)
         /\ FillReceiptKey(h) # UsedNonceKey(t, n)
         /\ IntentStatusKey(h) = IntentStatusKey(g) => h = g
         /\ UsedNonceKey(t, n) = UsedNonceKey(u, m) => t = u /\ n = m
         /\ IntentStatusKey(h)[1] = "IntentStatus"
         /\ FillReceiptKey(h)[1] = "FillReceipt"
         /\ UsedNonceKey(t, n)[1] = "UsedNonce"
BY DEF IntentStatusKey, UsedNonceKey, FillReceiptKey

-----------------------------------------------------------------------------
(* The inductive invariant.                                                *)

Final == {"Filled", "Cancelled"}

\* What is stored under a status or a nonce key was put there by a settlement.
EntriesWritten ==
  \A k \in DOMAIN entries :
    /\ k[1] = "IntentStatus" => entries[k].value \in Final
    /\ k[1] = "UsedNonce" => entries[k].value = TRUE

\* A settlement's entries are there for as long as the router is.
SettledStored ==
  \A s \in settled :
    /\ s.key = <<s.hash.trader, s.hash.nonce>>
    /\ IntentStatusKey(s.hash) \in DOMAIN entries
    /\ UsedNonceKey(s.key[1], s.key[2]) \in DOMAIN entries
    /\ s.status = "Filled" => FillReceiptKey(s.hash) \in DOMAIN entries
    /\ s.at \in 0 .. ledger

ToldStored == \A t \in told : IntentStatusKey(t.hash) \in DOMAIN entries

DeskInv ==
  /\ ledger \in Nat
  /\ AreEntries(entries)
  /\ EntriesWritten
  /\ SettledStored
  /\ ToldStored
  /\ KeySettledOnce
  /\ ToldIsFinal
  /\ SettlementOutlivesThreshold

\* No entry goes, lives shorter or, receipts aside, changes its value.
Kept(new) ==
  /\ AreEntries(new)
  /\ DOMAIN entries \subseteq DOMAIN new
  /\ \A k \in DOMAIN entries :
       /\ new[k].until >= entries[k].until
       /\ k[1] # "FillReceipt" => new[k].value = entries[k].value

Used(es, key) == es[key].value = TRUE

\* An intent that is open has neither a status nor a nonce entry, live or archived.
LEMMA OpenFacts ==
  ASSUME DeskInv, NEW i, IsOpen(i)
  PROVE  /\ IntentStatusKey(i) \notin DOMAIN entries
         /\ UsedNonceKey(i.trader, i.nonce) \notin DOMAIN entries
<1>1. /\ "Active" \in Reads(IntentStatusKey(i), "Active")
      /\ FALSE \in Reads(UsedNonceKey(i.trader, i.nonce), FALSE)
  BY DEF IsOpen, get_intent_status, is_nonce_used
<1>2. /\ IntentStatusKey(i)[1] = "IntentStatus"
      /\ UsedNonceKey(i.trader, i.nonce)[1] = "UsedNonce"
  BY KeysDiffer
<1>3. ASSUME IntentStatusKey(i) \in DOMAIN entries PROVE FALSE
  <2>1. entries[IntentStatusKey(i)].value \in Final
    BY <1>2, <1>3 DEF DeskInv, EntriesWritten
  <2>2. entries[IntentStatusKey(i)].value = "Active"
    BY <1>1, <1>3 DEF Reads, Retained, Archived, Exists
  <2>3. QED
    BY <2>1, <2>2 DEF Final
<1>4. ASSUME UsedNonceKey(i.trader, i.nonce) \in DOMAIN entries PROVE FALSE
  <2>1. entries[UsedNonceKey(i.trader, i.nonce)].value = TRUE
    BY <1>2, <1>4 DEF DeskInv, EntriesWritten
  <2>2. entries[UsedNonceKey(i.trader, i.nonce)].value = FALSE
    BY <1>1, <1>4 DEF Reads, Retained, Archived, Exists
  <2>3. QED
    BY <2>1, <2>2
<1>5. QED
  BY <1>3, <1>4

\* The status and the nonce of an open intent are written and extended, and
\* nothing else is touched.
LEMMA SpentFacts ==
  ASSUME DeskInv, NEW i, NEW status, IsOpen(i),
         NEW sk, sk = IntentStatusKey(i),
         NEW nk, nk = UsedNonceKey(i.trader, i.nonce),
         NEW new, new = Spent(i, status)
  PROVE  /\ Kept(new)
         /\ \A k : k \in DOMAIN new <=> k \in DOMAIN entries \/ k = sk \/ k = nk
         /\ new[sk].value = status /\ Used(new, nk)
         /\ new[sk].until >= ledger + TTL_THRESHOLD
         /\ new[nk].until >= ledger + TTL_THRESHOLD
<1>1. sk \notin DOMAIN entries /\ nk \notin DOMAIN entries /\ sk # nk
  BY OpenFacts, KeysDiffer
<1>2. PICK mid : mid = set_intent_status(entries, i, status)
  OBVIOUS
<1>3. mid = extend_ttl(set(entries, sk, status), sk)
  BY <1>2 DEF set_intent_status
<1>4. new = extend_ttl(set(mid, nk, TRUE), nk)
  BY <1>2 DEF Spent, set_nonce_used
<1>5. ledger \in Nat /\ AreEntries(entries)
  BY DEF DeskInv
<1>6. /\ AreEntries(mid) /\ \A k : k \in DOMAIN mid <=> k \in DOMAIN entries \/ k = sk
      /\ mid[sk].value = status /\ mid[sk].until >= ledger + TTL_THRESHOLD
      /\ \A k \in DOMAIN entries \ {sk} : mid[k] = entries[k]
  BY <1>3, <1>5, WriteFacts
<1>7. /\ AreEntries(new)
      /\ \A k : k \in DOMAIN new <=> k \in DOMAIN mid \/ k = nk
      /\ new[nk].value = TRUE
      /\ new[nk].until >= ledger + TTL_THRESHOLD
      /\ \A k \in DOMAIN mid \ {nk} : new[k] = mid[k]
  <2>1. AreEntries(mid) /\ ledger \in Nat
    BY <1>5, <1>6
  <2>2. PICK yes : yes = TRUE
    OBVIOUS
  <2>3. new = extend_ttl(set(mid, nk, yes), nk)
    BY <1>4, <2>2, Zenon
  <2>4. /\ AreEntries(new)
        /\ \A k : k \in DOMAIN new <=> k \in DOMAIN mid \/ k = nk
        /\ new[nk].value = yes
        /\ new[nk].until >= ledger + TTL_THRESHOLD
        /\ \A k \in DOMAIN mid \ {nk} : new[k] = mid[k]
    BY <2>1, <2>3, WriteFacts
  <2>5. QED
    BY <2>2, <2>4, Zenon
<1>8. new[sk] = mid[sk] /\ \A k \in DOMAIN entries : new[k] = entries[k]
  BY <1>1, <1>6, <1>7
<1>9. Kept(new)
  BY <1>5, <1>6, <1>7, <1>8 DEF Kept, AreEntries, Entry
<1>10. Used(new, nk)
  BY <1>7 DEF Used
<1>11. QED
  BY <1>6, <1>7, <1>8, <1>9, <1>10

\* What writing a receipt adds.
LEMMA ReceiptFacts ==
  ASSUME DeskInv, NEW mid, Kept(mid), NEW i, NEW receipt,
         NEW rk, rk = FillReceiptKey(i),
         NEW new, new = set_fill_receipt(mid, i, receipt)
  PROVE  /\ Kept(new)
         /\ \A k : k \in DOMAIN new <=> k \in DOMAIN mid \/ k = rk
         /\ new[rk].until >= ledger + TTL_THRESHOLD
         /\ \A k \in DOMAIN mid \ {rk} : new[k] = mid[k]
<1>1. rk[1] = "FillReceipt"
  BY KeysDiffer
<1>2. new = extend_ttl(set(mid, rk, receipt), rk)
  BY DEF set_fill_receipt
<1>3. /\ AreEntries(new) /\ \A k : k \in DOMAIN new <=> k \in DOMAIN mid \/ k = rk
      /\ new[rk].until >= ledger + TTL_THRESHOLD
      /\ \A k \in DOMAIN mid : new[k].until >= mid[k].until
      /\ \A k \in DOMAIN mid \ {rk} : new[k] = mid[k]
  BY <1>2, WriteFacts DEF DeskInv, Kept
<1>4. ASSUME NEW k \in DOMAIN entries
      PROVE  /\ new[k].until >= entries[k].until
             /\ k[1] # "FillReceipt" => new[k].value = entries[k].value
  <2>1. k \in DOMAIN mid /\ mid[k].until >= entries[k].until
        /\ (k[1] # "FillReceipt" => mid[k].value = entries[k].value)
    BY DEF Kept
  <2>2. new[k].until >= mid[k].until
    BY <1>3, <2>1
  <2>3. entries[k].until \in Int /\ mid[k].until \in Int /\ new[k].until \in Int
    BY <1>3, <2>1 DEF DeskInv, Kept, AreEntries, Entry
  <2>4. k[1] # "FillReceipt" => new[k] = mid[k]
    BY <1>1, <1>3, <2>1
  <2>5. QED
    BY <2>1, <2>2, <2>3, <2>4
<1>5. Kept(new)
  BY <1>3, <1>4 DEF Kept
<1>6. QED
  BY <1>3, <1>5

\* Settlements and what was told outlast every step that keeps the entries.
LEMMA KeepingKeeps ==
  ASSUME DeskInv, Kept(entries'), settled' = settled, told' = told,
         ledger' \in Nat, ledger' >= ledger,
         \A k \in DOMAIN entries' : k \in DOMAIN entries
  PROVE  DeskInv'
<1>1. /\ AreEntries(entries)' /\ \A k \in DOMAIN entries : k \in DOMAIN entries'
      /\ \A k \in DOMAIN entries :
           /\ entries'[k].until >= entries[k].until
           /\ k[1] # "FillReceipt" => entries'[k].value = entries[k].value
  BY DEF Kept, AreEntries, Entry
<1>2. EntriesWritten'
  BY <1>1 DEF DeskInv, EntriesWritten
<1>3. SettledStored'
  <2> SUFFICES ASSUME NEW s \in settled
               PROVE  /\ s.key = <<s.hash.trader, s.hash.nonce>>
                      /\ IntentStatusKey(s.hash) \in DOMAIN entries'
                      /\ UsedNonceKey(s.key[1], s.key[2]) \in DOMAIN entries'
                      /\ s.status = "Filled" => FillReceiptKey(s.hash) \in DOMAIN entries'
                      /\ s.at \in 0 .. ledger'
    BY DEF SettledStored, IntentStatusKey, UsedNonceKey, FillReceiptKey
  <2>1. /\ s.key = <<s.hash.trader, s.hash.nonce>>
        /\ IntentStatusKey(s.hash) \in DOMAIN entries
        /\ UsedNonceKey(s.key[1], s.key[2]) \in DOMAIN entries
        /\ s.status = "Filled" => FillReceiptKey(s.hash) \in DOMAIN entries
        /\ s.at \in 0 .. ledger
    BY DEF DeskInv, SettledStored
  <2>2. s.at \in 0 .. ledger'
    BY <2>1 DEF DeskInv
  <2>3. QED
    BY <1>1, <2>1, <2>2
<1>4. ToldStored'
  BY <1>1 DEF DeskInv, ToldStored, IntentStatusKey
<1>5. KeySettledOnce'
  BY DEF DeskInv, KeySettledOnce
<1>6. ToldIsFinal'
  <2> SUFFICES ASSUME NEW t \in told PROVE simulateRead(t.hash)' = t.status
    BY DEF ToldIsFinal
  <2>1. PICK k : k = IntentStatusKey(t.hash) /\ k[1] = "IntentStatus"
    BY KeysDiffer
  <2>2. k \in DOMAIN entries /\ entries[k].value = t.status
    BY <2>1 DEF DeskInv, ToldStored, ToldIsFinal, simulateRead, Simulates, Retained, Exists
  <2>3. k \in DOMAIN entries' /\ entries'[k].value = t.status
    BY <1>1, <2>1, <2>2
  <2>4. k = IntentStatusKey(t.hash)'
    BY <2>1 DEF IntentStatusKey
  <2>5. QED
    BY <2>3, <2>4 DEF simulateRead, Simulates, Retained, Exists
<1>7. SettlementOutlivesThreshold'
  <2> SUFFICES ASSUME NEW s \in settled
               PROVE  /\ entries'[IntentStatusKey(s.hash)].until >= s.at + TTL_THRESHOLD
                      /\ entries'[UsedNonceKey(s.key[1], s.key[2])].until >= s.at + TTL_THRESHOLD
                      /\ s.status = "Filled" =>
                           entries'[FillReceiptKey(s.hash)].until >= s.at + TTL_THRESHOLD
    BY DEF SettlementOutlivesThreshold, IntentStatusKey, UsedNonceKey, FillReceiptKey
  <2>1. PICK sk, nk, rk : /\ sk = IntentStatusKey(s.hash)
                          /\ nk = UsedNonceKey(s.key[1], s.key[2])
                          /\ rk = FillReceiptKey(s.hash)
    OBVIOUS
  <2>2. /\ sk \in DOMAIN entries /\ entries[sk].until >= s.at + TTL_THRESHOLD
        /\ nk \in DOMAIN entries /\ entries[nk].until >= s.at + TTL_THRESHOLD
        /\ s.status = "Filled" =>
             rk \in DOMAIN entries /\ entries[rk].until >= s.at + TTL_THRESHOLD
        /\ s.at \in Nat
    BY <2>1 DEF DeskInv, SettledStored, SettlementOutlivesThreshold
  <2>3. \A k \in DOMAIN entries : entries[k].until \in Int /\ entries'[k].until \in Int
    BY <1>1 DEF DeskInv, AreEntries, Entry
  <2>4. QED
    BY <1>1, <2>1, <2>2, <2>3, TtlAssumption
<1>8. QED
  BY <1>1, <1>2, <1>3, <1>4, <1>5, <1>6, <1>7 DEF DeskInv

\* A settlement of an open intent joins the others: its entries are new, so it
\* shares its key with none of them and contradicts nothing the client was told.
LEMMA SettlingKeeps ==
  ASSUME DeskInv, NEW i, NEW status \in Final, IsOpen(i), Kept(entries'),
         Settles(i, status), told' = told, ledger' = ledger,
         NEW sk, sk = IntentStatusKey(i),
         NEW nk, nk = UsedNonceKey(i.trader, i.nonce),
         NEW rk, rk = FillReceiptKey(i),
         \A k \in DOMAIN entries' : k \in DOMAIN entries \/ k = sk \/ k = nk \/ k = rk,
         sk \in DOMAIN entries', nk \in DOMAIN entries',
         entries'[sk].value = status, Used(entries', nk),
         entries'[sk].until >= ledger + TTL_THRESHOLD,
         entries'[nk].until >= ledger + TTL_THRESHOLD,
         status = "Filled" =>
           rk \in DOMAIN entries' /\ entries'[rk].until >= ledger + TTL_THRESHOLD
  PROVE  DeskInv'
<1> DEFINE r == [key |-> <<i.trader, i.nonce>>, hash |-> i, status |-> status, at |-> ledger]
<1>1. /\ AreEntries(entries)' /\ \A k \in DOMAIN entries : k \in DOMAIN entries'
      /\ \A k \in DOMAIN entries :
           /\ entries'[k].until >= entries[k].until
           /\ k[1] # "FillReceipt" => entries'[k].value = entries[k].value
  BY DEF Kept, AreEntries, Entry
<1>2. /\ settled' = settled \cup {r} /\ r.key = <<i.trader, i.nonce>> /\ r.hash = i
      /\ r.status = status /\ r.at = ledger
      /\ r.key[1] = i.trader /\ r.key[2] = i.nonce
  BY DEF Settles
<1> HIDE DEF r
<1>3. sk \notin DOMAIN entries /\ nk \notin DOMAIN entries
  BY OpenFacts
<1>4. /\ sk[1] = "IntentStatus" /\ nk[1] = "UsedNonce" /\ rk[1] = "FillReceipt"
  BY KeysDiffer
<1>5. EntriesWritten'
  <2>1. ASSUME NEW k \in DOMAIN entries', k[1] = "IntentStatus"
        PROVE  entries'[k].value \in Final
    BY <1>1, <1>4, <2>1 DEF DeskInv, EntriesWritten
  <2>2. ASSUME NEW k \in DOMAIN entries', k[1] = "UsedNonce"
        PROVE  entries'[k].value = TRUE
    <3>1. CASE k \in DOMAIN entries
      <4>1. entries'[k].value = entries[k].value
        BY <1>1, <2>2, <3>1
      <4>2. entries[k].value = TRUE
        BY <2>2, <3>1 DEF DeskInv, EntriesWritten
      <4>3. QED
        BY <4>1, <4>2
    <3>2. CASE k \notin DOMAIN entries
      <4>1. k = nk
        BY <1>4, <2>2, <3>2
      <4>2. QED
        BY <4>1, Zenon DEF Used
    <3>3. QED
      BY <3>1, <3>2
  <2>3. QED
    BY <2>1, <2>2, Zenon DEF EntriesWritten
<1>6. SettledStored'
  <2> SUFFICES ASSUME NEW s \in settled'
               PROVE  /\ s.key = <<s.hash.trader, s.hash.nonce>>
                      /\ IntentStatusKey(s.hash) \in DOMAIN entries'
                      /\ UsedNonceKey(s.key[1], s.key[2]) \in DOMAIN entries'
                      /\ s.status = "Filled" => FillReceiptKey(s.hash) \in DOMAIN entries'
                      /\ s.at \in 0 .. ledger'
    BY DEF SettledStored, IntentStatusKey, UsedNonceKey, FillReceiptKey
  <2>1. CASE s \in settled
    BY <1>1, <2>1 DEF DeskInv, SettledStored
  <2>2. CASE s = r
    BY <1>2, <2>2 DEF DeskInv
  <2>3. QED
    BY <1>2, <2>1, <2>2
<1>7. ToldStored'
  BY <1>1 DEF DeskInv, ToldStored, IntentStatusKey
<1>8. KeySettledOnce'
  <2>1. ASSUME NEW s \in settled, s.key = r.key PROVE FALSE
    <3>1. UsedNonceKey(s.key[1], s.key[2]) = nk
      BY <1>2, <2>1
    <3>2. QED
      BY <1>3, <2>1, <3>1 DEF DeskInv, SettledStored
  <2>2. \A s, t \in settled : s.key = t.key => s = t
    BY DEF DeskInv, KeySettledOnce
  <2>3. QED
    BY <1>2, <2>1, <2>2 DEF KeySettledOnce
<1>9. ToldIsFinal'
  <2> SUFFICES ASSUME NEW t \in told PROVE simulateRead(t.hash)' = t.status
    BY DEF ToldIsFinal
  <2>1. PICK k : k = IntentStatusKey(t.hash) /\ k[1] = "IntentStatus"
    BY KeysDiffer
  <2>2. k \in DOMAIN entries /\ entries[k].value = t.status
    BY <2>1 DEF DeskInv, ToldStored, ToldIsFinal, simulateRead, Simulates, Retained, Exists
  <2>3. k \in DOMAIN entries' /\ entries'[k].value = t.status
    BY <1>1, <2>1, <2>2
  <2>4. k = IntentStatusKey(t.hash)'
    BY <2>1 DEF IntentStatusKey
  <2>5. QED
    BY <2>3, <2>4 DEF simulateRead, Simulates, Retained, Exists
<1>10. SettlementOutlivesThreshold'
  <2> SUFFICES ASSUME NEW s \in settled'
               PROVE  /\ entries'[IntentStatusKey(s.hash)].until >= s.at + TTL_THRESHOLD
                      /\ entries'[UsedNonceKey(s.key[1], s.key[2])].until >= s.at + TTL_THRESHOLD
                      /\ s.status = "Filled" =>
                           entries'[FillReceiptKey(s.hash)].until >= s.at + TTL_THRESHOLD
    BY DEF SettlementOutlivesThreshold, IntentStatusKey, UsedNonceKey, FillReceiptKey
  <2>1. CASE s \in settled
    <3>1. PICK a, n, f : /\ a = IntentStatusKey(s.hash)
                         /\ n = UsedNonceKey(s.key[1], s.key[2])
                         /\ f = FillReceiptKey(s.hash)
      OBVIOUS
    <3>2. /\ a \in DOMAIN entries /\ entries[a].until >= s.at + TTL_THRESHOLD
          /\ n \in DOMAIN entries /\ entries[n].until >= s.at + TTL_THRESHOLD
          /\ s.status = "Filled" =>
               f \in DOMAIN entries /\ entries[f].until >= s.at + TTL_THRESHOLD
          /\ s.at \in Nat
      BY <2>1, <3>1 DEF DeskInv, SettledStored, SettlementOutlivesThreshold
    <3>3. \A k \in DOMAIN entries : entries[k].until \in Int /\ entries'[k].until \in Int
      BY <1>1 DEF DeskInv, AreEntries, Entry
    <3>4. QED
      BY <1>1, <3>1, <3>2, <3>3, TtlAssumption
  <2>2. CASE s = r
    BY <1>2, <2>2
  <2>3. QED
    BY <1>2, <2>1, <2>2
<1>11. QED
  BY <1>1, <1>5, <1>6, <1>7, <1>8, <1>9, <1>10 DEF DeskInv

-----------------------------------------------------------------------------
(* The steps.                                                              *)

LEMMA DeskInit == Init => DeskInv
<1> SUFFICES ASSUME Init PROVE DeskInv
  OBVIOUS
<1>1. /\ ledger = 0 /\ settled = {} /\ told = {} /\ \A k : k \notin DOMAIN entries
  BY DEF Init, StorageInit
<1>2. AreEntries(entries) /\ EntriesWritten
  BY <1>1 DEF AreEntries, EntriesWritten
<1>3. /\ SettledStored /\ ToldStored /\ KeySettledOnce
      /\ ToldIsFinal /\ SettlementOutlivesThreshold
  BY <1>1 DEF SettledStored, ToldStored, KeySettledOnce, ToldIsFinal, SettlementOutlivesThreshold
<1>4. QED
  BY <1>1, <1>2, <1>3 DEF DeskInv

\* Steps of the trader's program, and none at all.
LEMMA ElsewhereKeeps ==
  ASSUME DeskInv, UNCHANGED <<chain, told>>
  PROVE  DeskInv'
<1>1. entries' = entries /\ ledger' = ledger /\ settled' = settled /\ told' = told
  BY DEF chain
<1>2. Kept(entries')
  BY <1>1 DEF DeskInv, Kept, AreEntries, Entry
<1>3. QED
  BY <1>1, <1>2, KeepingKeeps DEF DeskInv

LEMMA ExecuteKeeps ==
  ASSUME DeskInv, NEW p, execute_intent(p)
  PROVE  DeskInv'
<1>1. PICK i : /\ IsOpen(i)
               /\ entries' = set_fill_receipt(Spent(i, "Filled"), i, FillReceipt(i))
               /\ Settles(i, "Filled") /\ ledger' = ledger /\ told' = told
  BY DEF execute_intent
<1>2. PICK mid : mid = Spent(i, "Filled")
  OBVIOUS
<1>3. PICK sk, nk, rk : /\ sk = IntentStatusKey(i)
                        /\ nk = UsedNonceKey(i.trader, i.nonce)
                        /\ rk = FillReceiptKey(i)
  OBVIOUS
<1>4. /\ Kept(mid)
      /\ \A k : k \in DOMAIN mid <=> k \in DOMAIN entries \/ k = sk \/ k = nk
      /\ mid[sk].value = "Filled" /\ Used(mid, nk)
      /\ mid[sk].until >= ledger + TTL_THRESHOLD
      /\ mid[nk].until >= ledger + TTL_THRESHOLD
  BY <1>1, <1>2, <1>3, SpentFacts
<1>5. PICK receipt : entries' = set_fill_receipt(mid, i, receipt)
  BY <1>1, <1>2
<1>6. /\ Kept(entries')
      /\ \A k : k \in DOMAIN entries' <=> k \in DOMAIN mid \/ k = rk
      /\ entries'[rk].until >= ledger + TTL_THRESHOLD
      /\ \A k \in DOMAIN mid \ {rk} : entries'[k] = mid[k]
  BY <1>3, <1>4, <1>5, ReceiptFacts
<1>7. sk # rk /\ nk # rk
  BY <1>3, KeysDiffer
<1>8. entries'[sk] = mid[sk] /\ entries'[nk] = mid[nk]
  BY <1>4, <1>6, <1>7
<1>9. /\ entries'[sk].value = "Filled"
      /\ entries'[sk].until >= ledger + TTL_THRESHOLD
      /\ entries'[nk].until >= ledger + TTL_THRESHOLD
  BY <1>4, <1>8
<1>10. Used(entries', nk)
  BY <1>4, <1>8 DEF Used
<1>11. /\ \A k \in DOMAIN entries' : k \in DOMAIN entries \/ k = sk \/ k = nk \/ k = rk
       /\ sk \in DOMAIN entries' /\ nk \in DOMAIN entries' /\ rk \in DOMAIN entries'
  BY <1>4, <1>6
<1>12. "Filled" \in Final
  BY DEF Final
<1>13. QED
  BY <1>1, <1>3, <1>6, <1>9, <1>10, <1>11, <1>12, SettlingKeeps

LEMMA CancelKeeps ==
  ASSUME DeskInv, NEW i, cancel_intent(i)
  PROVE  DeskInv'
<1>1. /\ IsOpen(i) /\ entries' = Spent(i, "Cancelled")
      /\ Settles(i, "Cancelled") /\ ledger' = ledger /\ told' = told
  BY DEF cancel_intent
<1>2. PICK sk, nk, rk : /\ sk = IntentStatusKey(i)
                        /\ nk = UsedNonceKey(i.trader, i.nonce)
                        /\ rk = FillReceiptKey(i)
  OBVIOUS
<1>3. /\ Kept(entries')
      /\ \A k : k \in DOMAIN entries' <=> k \in DOMAIN entries \/ k = sk \/ k = nk
      /\ entries'[sk].value = "Cancelled" /\ Used(entries', nk)
      /\ entries'[sk].until >= ledger + TTL_THRESHOLD
      /\ entries'[nk].until >= ledger + TTL_THRESHOLD
  BY <1>1, <1>2, SpentFacts
<1>4. /\ \A k \in DOMAIN entries' : k \in DOMAIN entries \/ k = sk \/ k = nk \/ k = rk
      /\ sk \in DOMAIN entries' /\ nk \in DOMAIN entries'
  BY <1>3
<1>5. "Cancelled" \in Final /\ "Cancelled" # "Filled"
  BY DEF Final
<1>6. QED
  BY <1>1, <1>2, <1>3, <1>4, <1>5, SettlingKeeps

LEMMA StoringKeeps ==
  ASSUME DeskInv, Storing, UNCHANGED <<settled, told>>
  PROVE  DeskInv'
<1>1. ASSUME NEW key \in DOMAIN entries, Restore(key) PROVE DeskInv'
  <2>1. /\ entries' = [entries EXCEPT ![key].until = ledger + MinTtl]
        /\ entries[key].until < ledger /\ ledger' = ledger /\ ledger \in Nat
    BY <1>1 DEF Restore, Archived, DeskInv
  <2>2. \A k \in DOMAIN entries : Entry(entries[k])
    BY DEF DeskInv, AreEntries
  <2>3. /\ DOMAIN entries' = DOMAIN entries
        /\ entries'[key] = [entries[key] EXCEPT !.until = ledger + MinTtl]
        /\ \A k \in DOMAIN entries \ {key} : entries'[k] = entries[k]
    BY <2>1
  <2>4. entries'[key] = [value |-> entries[key].value, until |-> ledger + MinTtl]
    BY <2>2, <2>3 DEF Entry
  <2>5. /\ Entry(entries'[key]) /\ entries'[key].value = entries[key].value
        /\ entries'[key].until >= entries[key].until
    BY <2>1, <2>2, <2>4, TtlAssumption DEF Entry
  <2>6. Kept(entries')
    BY <2>2, <2>3, <2>5 DEF Kept, AreEntries, Entry
  <2>7. QED
    BY <2>1, <2>3, <2>6, KeepingKeeps
<1>2. ASSUME LedgerCloses PROVE DeskInv'
  <2>1. entries' = entries /\ ledger' = ledger + 1 /\ ledger \in Nat
    BY <1>2 DEF LedgerCloses, DeskInv
  <2>2. Kept(entries')
    BY <2>1 DEF DeskInv, Kept, AreEntries, Entry
  <2>3. QED
    BY <2>1, <2>2, KeepingKeeps
<1>3. QED
  BY <1>1, <1>2 DEF Storing

\* The client remembers what the router stores.
LEMMA TellingKeeps ==
  ASSUME DeskInv, NEW i, getIntentStatus(i)
  PROVE  DeskInv'
<1> DEFINE r == [hash |-> i, status |-> simulateRead(i)]
<1>1. /\ entries' = entries /\ ledger' = ledger /\ settled' = settled
      /\ simulateRead(i) # "Active" /\ told' = told \cup {r}
      /\ r.hash = i /\ r.status = simulateRead(i)
  BY DEF getIntentStatus, chain
<1> HIDE DEF r
<1>2. IntentStatusKey(i) \in DOMAIN entries
  BY <1>1 DEF simulateRead, Simulates, Retained, Exists
<1>3. /\ AreEntries(entries)' /\ EntriesWritten' /\ SettledStored' /\ KeySettledOnce'
      /\ SettlementOutlivesThreshold' /\ ledger' \in Nat
  BY <1>1 DEF DeskInv, AreEntries, EntriesWritten, SettledStored, KeySettledOnce,
              SettlementOutlivesThreshold, IntentStatusKey, UsedNonceKey, FillReceiptKey
<1>4. ToldStored'
  BY <1>1, <1>2 DEF DeskInv, ToldStored, IntentStatusKey
<1>5. ToldIsFinal'
  <2>1. \A h : simulateRead(h)' = simulateRead(h)
    BY <1>1 DEF simulateRead, Simulates, Retained, Exists, IntentStatusKey
  <2>2. \A t \in told' : simulateRead(t.hash) = t.status
    BY <1>1 DEF DeskInv, ToldIsFinal
  <2>3. QED
    BY <2>1, <2>2 DEF ToldIsFinal
<1>6. QED
  BY <1>3, <1>4, <1>5 DEF DeskInv

\* Reading a receipt in a transaction extends it.
LEMMA ReceiptKeeps ==
  ASSUME DeskInv, NEW i, Receipt(i)
  PROVE  DeskInv'
<1>1. PICK key \in DOMAIN entries : entries' = extend_ttl(entries, key)
  BY DEF Receipt, get_fill_receipt, Live, Exists
<1>2. ledger' = ledger /\ settled' = settled /\ told' = told
      /\ ledger \in Nat /\ AreEntries(entries)
  BY DEF Receipt, get_fill_receipt, DeskInv
<1>3. /\ AreEntries(entries') /\ DOMAIN entries' = DOMAIN entries
      /\ \A k \in DOMAIN entries : /\ entries'[k].until >= entries[k].until
                                   /\ entries'[k].value = entries[k].value
  BY <1>1, <1>2, ExtendFacts
<1>4. Kept(entries')
  BY <1>3 DEF Kept
<1>5. QED
  BY <1>2, <1>3, <1>4, KeepingKeeps

LEMMA DeskStep == DeskInv /\ [Next]_vars => DeskInv'
<1> SUFFICES ASSUME DeskInv, [Next]_vars PROVE DeskInv'
  OBVIOUS
<1>1. CASE Builds
  BY <1>1, ElsewhereKeeps DEF Builds
<1>2. CASE Publish
  BY <1>2, ElsewhereKeeps DEF Publish
<1>3. ASSUME NEW p \in feed, execute_intent(p) PROVE DeskInv'
  BY <1>3, ExecuteKeeps
<1>4. ASSUME NEW p \in feed, cancel_intent(p.signed) PROVE DeskInv'
  BY <1>4, CancelKeeps
<1>5. ASSUME NEW p \in feed, getIntentStatus(p.signed) PROVE DeskInv'
  BY <1>5, TellingKeeps
<1>6. ASSUME NEW p \in feed, Receipt(p.signed) PROVE DeskInv'
  BY <1>6, ReceiptKeeps
<1>7. CASE Storing /\ UNCHANGED <<program, feed, settled, told>>
  BY <1>7, StoringKeeps
<1>8. CASE UNCHANGED vars
  BY <1>8, ElsewhereKeeps DEF vars
<1>9. QED
  BY <1>1, <1>2, <1>3, <1>4, <1>5, <1>6, <1>7, <1>8 DEF Next

THEOREM DeskInvariant == Spec => []DeskInv
<1>1. QED
  BY DeskInit, DeskStep, PTL DEF Spec

\* A nonce settles one intent, once: whichever intents share it, and whether or
\* not the status and the replay guard were archived between two attempts
\* (lib.rs:129-134, 185-190; storage.rs:53-88).
THEOREM DeskKeySettledOnce == Spec => []KeySettledOnce
<1>1. DeskInv => KeySettledOnce
  BY DEF DeskInv
<1>2. QED
  BY <1>1, DeskInvariant, PTL

\* A final status the client was told stays what the router answers, through
\* archival and restoration (docs/06-stellar-integration.md:23).
THEOREM DeskToldIsFinal == Spec => []ToldIsFinal
<1>1. DeskInv => ToldIsFinal
  BY DEF DeskInv
<1>2. QED
  BY <1>1, DeskInvariant, PTL

\* Every settlement's status, nonce and receipt live for TTL_THRESHOLD ledgers
\* from the settlement at least, for every MinTtl of the network.
THEOREM DeskSettlementOutlives == Spec => []SettlementOutlivesThreshold
<1>1. DeskInv => SettlementOutlivesThreshold
  BY DEF DeskInv
<1>2. QED
  BY <1>1, DeskInvariant, PTL

-----------------------------------------------------------------------------
(* The trader's program at the desk.                                       *)

THEOREM DeskBuilderInvariant == Spec => []BuildInv
<1>1. Init => BuildInv
  BY BuildInit DEF Init
<1>2. BuildInv /\ [Next]_vars => BuildInv'
  <2> SUFFICES ASSUME BuildInv, [Next]_vars PROVE BuildInv'
    OBVIOUS
  <2>1. CASE Builds
    BY <2>1, BuilderStepKeeps DEF Builds
  <2>2. CASE Publish
    <3>1. builder' = NewBuilder /\ torn' = FALSE /\ given' = FALSE /\ built' = {} /\ ms' = 0
      BY <2>2 DEF Publish
    <3>2. ms' \in 0 .. MaxMs
      BY <3>1, BuilderAssumption
    <3>3. \A b \in built' : b \in built
      BY <3>1
    <3>4. QED
      BY <3>1, <3>2, <3>3, ForgettingKeeps
  <2>3. CASE UNCHANGED program
    <3>1. UNCHANGED <<builder, torn, given, ms, built>>
      BY <2>3 DEF program
    <3>2. BuilderHeld' /\ (torn \in BOOLEAN /\ given \in BOOLEAN)' /\ (ms \in 0 .. MaxMs)'
      BY <3>1 DEF BuildInv, BuilderHeld
    <3>3. (\A b \in built : WellBuilt(b))'
      BY <3>1 DEF BuildInv, WellBuilt
    <3>4. QED
      BY <3>2, <3>3 DEF BuildInv
  <2>4. QED
    BY <2>1, <2>2, <2>3
       DEF Next, vars, execute_intent, cancel_intent, getIntentStatus, Receipt
<1>3. QED
  BY <1>1, <1>2, PTL DEF Spec

\* Two intents share a nonce only if one was given or both were built in the
\* same millisecond, for every program and every clock (intent.ts:216).
THEOREM DeskSharedNonce == Spec => []SharedNonceSameInstant
<1>1. QED
  BY SharedNonce, DeskBuilderInvariant, PTL

\* The two amounts of an intent were passed to one call of setAmounts, unless
\* the last such call threw halfway (intent.ts:156-160).
THEOREM DeskAmountsTogether == Spec => []AmountsBelongTogether
<1>1. QED
  BY AmountsTogether, DeskBuilderInvariant, PTL

\* What the builder returns the router accepts until the deadline, whatever the
\* scale of the arithmetic: the two validations agree.
THEOREM DeskFillable == Spec => []BuiltIsFillable
<1>1. QED
  BY Fillable, DeskBuilderInvariant, PTL

\* What the program builds comes back from the feed with its hash, whatever the
\* numbers passed to the setters (intent.ts:289-320).
THEOREM DeskFeedReturns == Spec => []FeedReturnsWhatWasBuilt
<1>1. QED
  BY FeedReturns, DeskBuilderInvariant, PTL

-----------------------------------------------------------------------------
(* From the builder to the router.                                         *)

\* What a solver reads from the feed is what was signed, and an order whose fee
\* is within its tolerance the router takes at exactly min_buy_amount until its
\* deadline.
PublishedIsFillable ==
  \A p \in feed :
    LET i == hashIntent(deserializeIntent(p.json)) IN
    /\ i = p.signed
    /\ (/\ i.solver_fee_bps <= i.max_slippage_bps
        /\ ~MathOverflow(i, i.min_buy_amount))
         => \A t \in 0 .. i.deadline : AcceptsTerms(i, i.min_buy_amount, t)

\* Publishing hands on what the builder's two properties say.
LEMMA PublishKeeps ==
  ASSUME BuildInv, Publish
  PROVE  PublishedIsFillable'
<1>1. FeedReturnsWhatWasBuilt /\ BuiltIsFillable
  BY FeedReturns, Fillable
<1>2. PICK chosen \in SUBSET built :
         /\ \A b \in chosen : Encodable(b.intent)
         /\ feed' = {[json |-> serializeIntent(b.intent),
                      signed |-> hashIntent(b.intent)] : b \in chosen}
  BY DEF Publish
<1>3. SUFFICES ASSUME NEW p \in feed', NEW i, i = hashIntent(deserializeIntent(p.json))
               PROVE  /\ i = p.signed
                      /\ (/\ i.solver_fee_bps <= i.max_slippage_bps
                          /\ ~MathOverflow(i, i.min_buy_amount))
                           => \A t \in 0 .. i.deadline : AcceptsTerms(i, i.min_buy_amount, t)
  BY DEF PublishedIsFillable
<1>4. PICK b \in built : /\ Encodable(b.intent)
                         /\ p.json = serializeIntent(b.intent)
                         /\ p.signed = hashIntent(b.intent)
  BY <1>2
<1>5. i = p.signed
  BY <1>1, <1>3, <1>4 DEF FeedReturnsWhatWasBuilt
<1>6. i = intentToScVal(b.intent)
  BY <1>4, <1>5 DEF hashIntent
<1>7. QED
  BY <1>1, <1>4, <1>5, <1>6 DEF BuiltIsFillable

\* An intent that was built and signed comes out of the feed as the one that was
\* signed, and the router accepts its terms (intent.ts:195-222, 289-325;
\* lib.rs:167-214).
THEOREM DeskPublishedFillable == Spec => []PublishedIsFillable
<1>1. Init => PublishedIsFillable
  BY DEF Init, PublishedIsFillable
<1>2. BuildInv /\ PublishedIsFillable /\ [Next]_vars => PublishedIsFillable'
  <2> SUFFICES ASSUME BuildInv, PublishedIsFillable, [Next]_vars
               PROVE  PublishedIsFillable'
    OBVIOUS
  <2>1. CASE Publish
    BY <2>1, PublishKeeps
  <2>2. CASE UNCHANGED feed
    BY <2>2 DEF PublishedIsFillable
  <2>3. QED
    BY <2>1, <2>2 DEF Next, vars, Builds, execute_intent, cancel_intent,
                      getIntentStatus, Receipt
<1>3. QED
  BY <1>1, <1>2, DeskBuilderInvariant, PTL DEF Spec

-----------------------------------------------------------------------------
(* Types.                                                                  *)

\* The conjuncts of TypeOK that the two invariants leave open.
FeedTyped == \A p \in feed : \A f \in Fields : p.json[f].form \in {"string", "number"}

SettledTyped == \A s \in settled : s.status \in Final

TypeInv == FeedTyped /\ SettledTyped /\ ledger \in 0 .. MaxLedger

LEMMA TypeInvImplies == BuildInv /\ DeskInv /\ TypeInv => TypeOK
<1> SUFFICES ASSUME BuildInv, DeskInv, TypeInv PROVE TypeOK
  OBVIOUS
<1>1. BuilderTypeOK
  BY DEF BuildInv, BuilderHeld, IntegersHeld, WellBuilt, BuilderTypeOK
<1>2. \A p \in feed : \A f \in Fields : p.json[f].form \in {"string", "number"}
  BY DEF TypeInv, FeedTyped
<1>3. ledger \in 0 .. MaxLedger
  BY DEF TypeInv
<1>4. \A k \in DOMAIN entries : entries[k].until \in Int
  BY DEF DeskInv, AreEntries, Entry
<1>5. \A s \in settled : s.status \in Statuses \ {"Active"} /\ s.at \in 0 .. ledger
  BY DEF DeskInv, SettledStored, TypeInv, SettledTyped, Final, Statuses
<1>6. \A t \in told : t.status \in Statuses
  <2> SUFFICES ASSUME NEW t \in told PROVE t.status \in Statuses
    OBVIOUS
  <2>1. PICK k : k = IntentStatusKey(t.hash) /\ k[1] = "IntentStatus"
    BY KeysDiffer
  <2>2. k \in DOMAIN entries /\ entries[k].value = t.status
    BY <2>1 DEF DeskInv, ToldStored, ToldIsFinal, simulateRead, Simulates, Retained, Exists
  <2>3. entries[k].value \in Final
    BY <2>1, <2>2 DEF DeskInv, EntriesWritten
  <2>4. QED
    BY <2>2, <2>3 DEF Final, Statuses
<1>7. QED
  BY <1>1, <1>2, <1>3, <1>4, <1>5, <1>6 DEF TypeOK

LEMMA TypeStep == TypeInv /\ [Next]_vars => TypeInv'
<1> SUFFICES ASSUME TypeInv, [Next]_vars PROVE TypeInv'
  OBVIOUS
<1>1. FeedTyped'
  <2>1. CASE UNCHANGED feed
    BY <2>1 DEF TypeInv, FeedTyped
  <2>2. CASE Publish
    <3>1. \A p \in feed' : \E i : p.json = serializeIntent(i)
      BY <2>2 DEF Publish
    <3>2. \A i : \A f \in Fields : serializeIntent(i)[f].form \in {"string", "number"}
      BY DEF serializeIntent
    <3>3. QED
      BY <3>1, <3>2 DEF FeedTyped
  <2>3. QED
    BY <2>1, <2>2 DEF Next, vars, Builds, execute_intent, cancel_intent,
                      getIntentStatus, Receipt
<1>2. SettledTyped'
  <2>1. ASSUME NEW i, NEW status \in Final, Settles(i, status) PROVE SettledTyped'
    BY <2>1 DEF Settles, TypeInv, SettledTyped
  <2>2. CASE UNCHANGED settled
    BY <2>2 DEF TypeInv, SettledTyped
  <2>3. \A p : execute_intent(p) => \E i : Settles(i, "Filled")
    BY DEF execute_intent
  <2>4. \A i : cancel_intent(i) => Settles(i, "Cancelled")
    BY DEF cancel_intent
  <2>5. "Filled" \in Final /\ "Cancelled" \in Final
    BY DEF Final
  <2>6. QED
    BY <2>1, <2>2, <2>3, <2>4, <2>5
       DEF Next, vars, chain, Builds, Publish, getIntentStatus, Receipt
<1>3. (ledger \in 0 .. MaxLedger)'
  <2>1. CASE LedgerCloses
    BY <2>1, TtlAssumption DEF TypeInv, LedgerCloses
  <2>2. CASE UNCHANGED ledger
    BY <2>2 DEF TypeInv
  <2>3. QED
    BY <2>1, <2>2
       DEF Next, vars, chain, Builds, Publish, execute_intent, cancel_intent,
           getIntentStatus, Receipt, get_fill_receipt, Storing, Restore
<1>4. QED
  BY <1>1, <1>2, <1>3 DEF TypeInv

\* The desk stays within its types.
THEOREM DeskTyped == Spec => []TypeOK
<1>1. Init => TypeInv
  BY TtlAssumption DEF Init, StorageInit, TypeInv, FeedTyped, SettledTyped
<1>2. Spec => []TypeInv
  BY <1>1, TypeStep, PTL DEF Spec
<1>3. QED
  BY <1>2, TypeInvImplies, DeskInvariant, DeskBuilderInvariant, PTL
=============================================================================
