----------------------------- MODULE CalcChecks ----------------------------
(***************************************************************************)
(* The arithmetic of Calc against what it is for, for every combination of *)
(* small arguments: the steps walk through the arguments, the invariants   *)
(* compare the results.                                                    *)
(***************************************************************************)
EXTENDS Calc

CONSTANT Bound         \* the largest argument

VARIABLES amount, total_value, total_shares

calcVars == <<amount, total_value, total_shares>>

CalcInit == amount = 0 /\ total_value = 0 /\ total_shares = 0

NextAmount ==
  /\ amount < Bound /\ amount' = amount + 1
  /\ UNCHANGED <<total_value, total_shares>>

NextValue ==
  /\ total_value < Bound /\ total_value' = total_value + 1
  /\ UNCHANGED <<amount, total_shares>>

NextShares ==
  /\ total_shares < Bound /\ total_shares' = total_shares + 1
  /\ UNCHANGED <<amount, total_value>>

CalcNext == NextAmount \/ NextValue \/ NextShares

CalcSpec == CalcInit /\ [][CalcNext]_calcVars

---------------------------------------------------------------------------
(* calc.rs                                                                 *)

\* A deposit that is redeemed at once returns no more than was deposited: what
\* those who stay own together is not reduced by the round trip.
DepositAndRedeemGainsNothing ==
  total_value > 0 /\ total_shares > 0 =>
    LET shares == shares_from_value(amount, total_value, total_shares)
        back == value_from_shares(shares, total_value + amount,
                                  total_shares + shares)
    IN  back <= amount

\* Splitting an amount into two deposits yields no more shares than one
\* deposit.
SplittingGainsNothing ==
  total_value > 0 /\ total_shares > 0 =>
    \A part \in 0 .. amount :
      LET first == shares_from_value(part, total_value, total_shares)
          second == shares_from_value(amount - part, total_value + part,
                                      total_shares + first)
      IN  first + second
            <= shares_from_value(amount, total_value, total_shares)

---------------------------------------------------------------------------
(* state/fee.rs, state/liq_pool.rs.  The arguments play other parts here:  *)
(* total_value is the target, total_shares bounds the basis points.        *)

\* A fee that passed its check takes no more than the amount, and the more
\* basis points the more.
CheckedFeesAreMonotone ==
  \A bp \in 0 .. MAX_BASIS_POINTS :
    FeeCheck(bp) /\ Fits(amount) =>
      /\ FeeApply(bp, amount) <= amount
      /\ bp > 0 => FeeApply(bp - 1, amount) <= FeeApply(bp, amount)

\* The fee of an instant unstake lies between its two ends and falls as more
\* liquidity is left in the pool.
LinearFeeFalls ==
  \A min_fee, max_fee \in 0 .. MAX_BASIS_POINTS :
    min_fee <= max_fee /\ total_value > 0 =>
      LET fee == linear_fee(amount, total_value, max_fee, min_fee)
      IN  /\ min_fee <= fee /\ fee <= max_fee
          /\ linear_fee(amount + 1, total_value, max_fee, min_fee) <= fee
============================================================================
