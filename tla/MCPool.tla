------------------------------- MODULE MCPool ------------------------------
(***************************************************************************)
(* The liquidity pool: deposits that buy from it, instant unstakes, and    *)
(* liquidity that comes and goes, at prices that tickets with a fee and    *)
(* burnt tokens make fractional.                                           *)
(***************************************************************************)
EXTENDS MCMarinade

CONSTANT t1

PoolInit ==
  Configured(With([delayed_unstake_fee |-> 2, lp_min_fee |-> 2,
                   lp_max_fee |-> 4]), FALSE, Nothing)

PoolNext ==
  \/ \E l \in Lamports : Deposit(l)
  \/ \E t \in Ticket, m \in Lamports : OrderUnstake(t, m)
  \/ \E t \in DOMAIN tickets : Claim(t)
  \/ LiquidityPoolNext
  \/ \E ready \in BOOLEAN : ChangeAuthority(ready)
  \/ \E m \in Lamports : BurnMsol(m)
  \/ \E m \in Lamports : BurnLp(m)
  \/ Tick

PoolSpec == PoolInit /\ [][PoolNext]_vars
============================================================================
