----------------------------- MODULE MCMarinade ----------------------------
(***************************************************************************)
(* What the bounded instances of Marinade share: the limits of the code,   *)
(* scaled so that a handful of lamports meets them.                        *)
(***************************************************************************)
EXTENDS Documented

\* The arguments of initialize
InitialData ==
  [f \in ConfigFields |->
     CASE f = "reward_fee" -> 1
       [] f = "min_stake" -> 1
       [] f = "lp_liquidity_target" -> 2
       [] f = "lp_max_fee" -> 2
       [] f = "lp_min_fee" -> 1
       [] f = "treasury_cut" -> 2
       [] f \in {"stake_list_capacity", "validator_list_capacity"} -> 3
       [] OTHER -> 0]

MCInitializeData == {InitialData}

\* A state after initialize, config_marinade and add_validator
Configured(c, enabled, scores) ==
  /\ EmptyBooks(c, scores)
  /\ withdraw_stake_account_enabled = enabled
  /\ phase = "start"
  /\ outside_sol \in InitialSol

\* and with other values for some of the fields
With(values) ==
  [f \in ConfigFields |->
     IF f \in DOMAIN values THEN values[f] ELSE InitialConfig(InitialData)[f]]
===========================================================================
