------------------------------- MODULE Calc -------------------------------
(***************************************************************************)
(* The pure arithmetic of the program: calc.rs, the two fee types of       *)
(* state/fee.rs and the linear fee of the liquidity pool                   *)
(* (state/liq_pool.rs).  Amounts are natural numbers; the intermediate     *)
(* products are u128 in the code and never overflow there, so they are     *)
(* unbounded here.  The results are u64.  One of proportional that does    *)
(* not fit is an error in the code, which undoes the whole instruction;    *)
(* here results are unbounded, so that the code's behaviours are among     *)
(* these.  Fee::apply truncates what does not fit, and so does FeeApply.   *)
(***************************************************************************)
EXTENDS Integers

CONSTANTS
  MAX_BASIS_POINTS,   \* Fee: basis points of 100%        (10_000)
  MAX_BP_CENTS,       \* FeeCents: bp cents of 100%       (1_000_000)
  U64                 \* the number of values of a u64    (2^64)

ASSUME CalcAssumption ==
  /\ MAX_BASIS_POINTS \in Nat \ {0}
  /\ MAX_BP_CENTS \in Nat \ {0}
  /\ U64 \in Nat \ {0}

Lesser(a, b) == IF a <= b THEN a ELSE b

\* u64::saturating_sub
Monus(a, b) == IF a >= b THEN a - b ELSE 0

---------------------------------------------------------------------------
(* calc.rs.  CalculationFailure, a result over u64, is not modelled.       *)

\* A variant: rounded up
proportional_up(amount, numerator, denominator) ==
  IF denominator = 0
    THEN amount
    ELSE (amount * numerator + denominator - 1) \div denominator

proportional(amount, numerator, denominator) ==
  IF denominator = 0 THEN amount
                     ELSE (amount * numerator) \div denominator

value_from_shares(shares, total_value, total_shares) ==
  proportional(shares, total_value, total_shares)

shares_from_value(value, total_value, total_shares) ==
  IF total_shares = 0 THEN value
                      ELSE proportional(value, total_shares, total_value)

---------------------------------------------------------------------------
(* state/fee.rs.  `as u64` keeps the low 64 bits: all of them of a result  *)
(* that fits.                                                              *)

Fits(x) == x \in 0 .. U64 - 1

\* A variant: rounded up by one
FeeApply_up(basis_points, lamports) ==
  ((lamports * basis_points) \div MAX_BASIS_POINTS + 1) % U64

FeeApply(basis_points, lamports) ==
  ((lamports * basis_points) \div MAX_BASIS_POINTS) % U64

FeeCentsApply(bp_cents, lamports) ==
  ((lamports * bp_cents) \div MAX_BP_CENTS) % U64

FeeCheck(basis_points) == basis_points <= MAX_BASIS_POINTS

FeeCentsCheck(bp_cents) == bp_cents <= MAX_BP_CENTS

---------------------------------------------------------------------------
(* state/liq_pool.rs                                                       *)

delta(max_fee, min_fee) == Monus(max_fee, min_fee)

\* A variant: the slope goes on beyond the target
linear_fee_unbounded(lamports, target, max_fee, min_fee) ==
  max_fee - proportional(delta(max_fee, min_fee), lamports, target)

linear_fee(lamports, target, max_fee, min_fee) ==
  IF lamports >= target
    THEN min_fee
    ELSE max_fee - proportional(delta(max_fee, min_fee), lamports, target)
===========================================================================
