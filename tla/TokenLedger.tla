---------------------------- MODULE TokenLedger ----------------------------
(***************************************************************************)
(* Balance movements of one SEP-41 token, contracts/mock_token/src/lib.rs. *)
(* A balance sheet `b' is a function from addresses to amounts; an address *)
(* without an entry reads as 0.                                            *)
(***************************************************************************)
EXTENDS I128

MovedStale(b, from, to, amount) ==   \* mutant: reads `to' before the debit
  [b EXCEPT ![from] = @ - amount, ![to] = b[to] + amount]

\* move_balance writes `from' first and reads `to' after, so that a transfer
\* to oneself leaves the balance alone.
Moved(b, from, to, amount) ==
  [[b EXCEPT ![from] = @ - amount] EXCEPT ![to] = @ + amount]

\* A transfer does not panic: the amount is not negative, the balance covers
\* it, and the credit does not overflow (overflow-checks are on in release).
CanMove(b, from, to, amount) ==
  /\ amount >= 0
  /\ b[from] >= amount
  /\ Moved(b, from, to, amount)[to] \in I128
=============================================================================
