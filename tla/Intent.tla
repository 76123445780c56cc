------------------------------- MODULE Intent -------------------------------
(***************************************************************************)
(* The SDK's intent, packages/sdk/src/intent.ts: its validation, the       *)
(* encoding that is hashed and signed, and the JSON it travels in.         *)
(*                                                                         *)
(* An operator that throws in the code is here a predicate saying that it  *)
(* does not.  An address is a member of some set; `Strkeys' are those that *)
(* new Address() parses.                                                   *)
(***************************************************************************)
EXTENDS SlipMath

CONSTANTS
  Strkeys,            \* texts that are Stellar addresses
  MAX_U64,            \* 2^64 - 1
  MAX_SAFE_INTEGER    \* 2^53 - 1: doubles hold every integer up to here

ASSUME NumberAssumption == MAX_U64 \in Nat /\ MAX_SAFE_INTEGER \in Nat

-----------------------------------------------------------------------------
(* The fields of TraderIntent, by the JavaScript type that holds them.     *)

AddressFields == {"trader", "sellToken", "buyToken"}
BigIntFields  == {"sellAmount", "minBuyAmount", "nonce"}
NumberFields  == {"maxSlippageBps", "solverFeeBps", "deadline"}
Fields        == AddressFields \cup BigIntFields \cup NumberFields

\* toBigInt returns: the input is a whole number, in whatever form.
toBigInt(value) == value \in Int

assertAddress(value) == value \in Strkeys

assertBelowTwice(value) ==   \* mutant: one basis point too many
  value \in 0 .. BPS_DENOMINATOR + 1

assertBps(value) == value \in 0 .. BPS_DENOMINATOR

\* The amounts and the nonce have no upper limit here.
validateIntent(i) ==
  /\ \A f \in AddressFields : assertAddress(i[f])
  /\ i.sellToken # i.buyToken
  /\ i.sellAmount > 0 /\ i.minBuyAmount > 0
  /\ assertBps(i.maxSlippageBps) /\ assertBps(i.solverFeeBps)
  /\ i.deadline \in Nat \ {0}
  /\ i.nonce >= 0

-----------------------------------------------------------------------------
(* The canonical encoding.                                                 *)

\* The conversions to i128 and u64 return.
Encodable(i) ==
  /\ i.sellAmount \in I128 /\ i.minBuyAmount \in I128
  /\ i.nonce \in 0 .. MAX_U64 /\ i.deadline \in 0 .. MAX_U64

\* The map of symbols the router reads as its own TraderIntent.
intentToScVal(i) ==
  [buy_token |-> i.buyToken, deadline |-> i.deadline,
   max_slippage_bps |-> i.maxSlippageBps, min_buy_amount |-> i.minBuyAmount,
   nonce |-> i.nonce, sell_amount |-> i.sellAmount, sell_token |-> i.sellToken,
   solver_fee_bps |-> i.solverFeeBps, trader |-> i.trader]

\* SHA-256 is taken to be collision-free, so the encoding stands for its digest.
hashIntent(i) == intentToScVal(i)

-----------------------------------------------------------------------------
(* JSON.  A numeral is read back as a double, a string as it was.          *)

\* What a double keeps of a whole number (up to 2^54, where every second one
\* is representable).
Double(n) == IF n \in -MAX_SAFE_INTEGER .. MAX_SAFE_INTEGER THEN n ELSE 2 * (n \div 2)

serializeAsNumbers(i) ==     \* mutant: bigints written as numerals
  [f \in Fields |->
     [form |-> IF f \in AddressFields THEN "string" ELSE "number", value |-> i[f]]]

serializeIntent(i) ==
  [f \in Fields |->
     [form |-> IF f \in NumberFields THEN "number" ELSE "string", value |-> i[f]]]

\* JSON.parse, and Number() of the numeric fields.
deserializeIntent(json) ==
  [f \in Fields |->
     IF json[f].form = "number" \/ f \in NumberFields
       THEN Double(json[f].value) ELSE json[f].value]
=============================================================================
