------------------------------- MODULE I128 -------------------------------
(***************************************************************************)
(* The width of the contracts' amounts.  Every amount is a Rust i128; the  *)
(* bound is a constant so that a model can make it small enough for        *)
(* checked arithmetic to fail within the values it explores.               *)
(***************************************************************************)
EXTENDS Integers

CONSTANT
  MAX_I128    \* i128::MAX, 2^127 - 1 in the contracts

ASSUME WidthAssumption == MAX_I128 \in Nat

\* The values an i128 holds.  A checked operation fails exactly when the
\* mathematical result is outside this set.
I128 == -(MAX_I128 + 1) .. MAX_I128
=============================================================================
