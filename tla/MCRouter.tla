----------------------------- MODULE MCRouter -----------------------------
(* Small instances of Router: one trader, three orders, honest tokens A    *)
(* and B, and a hostile token H.                                           *)
EXTENDS RouterProperties, TLC

CONSTANTS T, S, S2, R,     \* trader, two solvers, router
          A, B, H,         \* tokens
          h1, h2, h3,      \* hashes
          None

Terms(sell, buy, sellAmount, minBuy, slippage, fee, deadline, nonce) ==
  [trader |-> T, sell_token |-> sell, buy_token |-> buy,
   sell_amount |-> sellAmount, min_buy_amount |-> minBuy,
   max_slippage_bps |-> slippage, solver_fee_bps |-> fee,
   deadline |-> deadline, nonce |-> nonce]

\* An ordinary order, expiring early; another on the same nonce, selling the
\* hostile token; and one that buys it.
Ordinary  == Terms(A, B, 2, 2, 5000, 5000, 0, 1)
SellsH    == Terms(H, B, 1, 2, 0, 0, 1, 1)
BuysH     == Terms(A, H, 1, 2, 5000, 5000, 1, 2)

MCIntents == {Ordinary, SellsH, BuysH}
MCHash    == Ordinary :> h1 @@ SellsH :> h2 @@ BuysH :> h3

\* An order whose two sides are the same token, which only the SDK refuses; one
\* whose fee breaks the tolerance unless the solver over-delivers; and one on
\* the first one's nonce.
SameToken == Terms(A, A, 1, 1, 0, 0, 2, 1)
HighFee   == Terms(A, B, 1, 2, 4000, 5000, 1, 2)
Rival     == Terms(B, A, 1, 3, 0, 0, 1, 1)

MCHostIntents == {SameToken, HighFee, Rival}
MCHostHash    == SameToken :> h1 @@ HighFee :> h2 @@ Rival :> h3

\* The trader cannot fund every order, nor the solver every amount, and the
\* router holds tokens somebody sent it by mistake.
MCBalance ==
  A :> (T :> 2 @@ S :> 2 @@ S2 :> 0 @@ R :> 1) @@
  B :> (T :> 1 @@ S :> 3 @@ S2 :> 2 @@ R :> 1)
=============================================================================
