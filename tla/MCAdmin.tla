------------------------------- MODULE MCAdmin -----------------------------
(***************************************************************************)
(* The admin from the first instruction on: initialize with good and bad   *)
(* arguments, then any sequence of configuration changes, pauses and       *)
(* validator changes, with users and the bot in between.                   *)
(***************************************************************************)
EXTENDS MCMarinade

CONSTANTS v1, v2, s1

\* Arguments for initialize: good, and each check failing
AdminInitializeData ==
  {InitialData} \cup
  {[InitialData EXCEPT ![f] = 3] :
     f \in {"reward_fee", "lp_max_fee", "lp_min_fee"}} \cup
  {[InitialData EXCEPT ![f] = 0] : f \in {"min_stake", "lp_liquidity_target"}}

\* Arguments for config_marinade and config_lp, each at and over a limit
MCConfigMarinadeParams ==
  {[reward_fee |-> 2], [reward_fee |-> 3], [min_stake |-> 0],
   [min_withdraw |-> 2, delayed_unstake_fee |-> 1],
   [withdraw_stake_account_fee |-> 3],
   [staking_sol_cap |-> 1, liquidity_sol_cap |-> 1]}

MCConfigLpParams ==
  {[lp_min_fee |-> 2], [lp_max_fee |-> 1], [lp_min_fee |-> 0],
   [lp_max_fee |-> 3, treasury_cut |-> 3], [treasury_cut |-> 4]}

AdministeredNext ==
  \/ \E l \in Lamports : Deposit(l)
  \/ \E l \in Lamports : AddLiquidity(l)
  \/ \E m \in Lamports : LiquidUnstake(m)
  \/ \E v \in DOMAIN validator_list, a \in StakeAccount : StakeReserve(v, a)
  \/ \E v \in Validator, score \in Scores : AddValidator(v, score)
  \/ \E v \in DOMAIN validator_list : RemoveValidator(v)
  \/ \E v \in DOMAIN validator_list, score \in Scores :
       SetValidatorScore(v, score)
  \/ AdminNext
  \/ Tick

AdminSpec == Init /\ [][AdministeredNext]_vars
============================================================================
