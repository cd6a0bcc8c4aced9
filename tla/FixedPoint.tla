---------------------------- MODULE FixedPoint ----------------------------
(***************************************************************************)
(* The fixed-point arithmetic of sources/math.move.  The Move functions    *)
(* widen to u256, divide with truncation and abort when the quotient does  *)
(* not fit the result type or the divisor is zero.  Only the value is      *)
(* defined here; the two aborts are guards of the actions that call it     *)
(* (FitsU64 and a non-zero divisor).                                       *)
(***************************************************************************)
EXTENDS Integers

CONSTANT MAX_U64      \* largest u64 word; small in a TLC instance

ASSUME MaxU64Assumption == MAX_U64 \in Nat \ {0}

FitsU64(n) == n <= MAX_U64

\* mul_div, mul_div_u128, mul_div_back_u64, div_back_u64: floor(a * b / c)
MulDiv(a, b, c) == (a * b) \div c

\* mul_div_ceil: the quotient plus one when there is a remainder
MulDivCeil(a, b, c) ==
    (a * b) \div c + (IF (a * b) % c > 0 THEN 1 ELSE 0)

\* safe_sub, and the saturating subtraction written out in reserve_net_usd
SafeSub(a, b) == IF a >= b THEN a - b ELSE 0

=============================================================================
