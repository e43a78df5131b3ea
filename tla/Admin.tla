------------------------------- MODULE Admin -------------------------------
(***************************************************************************)
(* The instructions of the admin and of the pause authority                *)
(* (instructions/admin).  Every one needs the signature of its authority;  *)
(* an authority may sign anything the instruction accepts.                 *)
(***************************************************************************)
EXTENDS MarinadeState

\* The values the admin chooses from: partial functions from fields to values
CONSTANTS ConfigMarinadeParams, ConfigLpParams, Capacities

ASSUME AdminAssumption ==
  /\ \A params \in ConfigMarinadeParams \cup ConfigLpParams :
       \A f \in DOMAIN params : params[f] \in Nat
  /\ Capacities \subseteq Nat

Books == <<reserveVars, ticketVars, coolingVars, movedVars, deltaVars,
           stakeVars, validatorVars, mintVars, poolVars, worldVars>>

\* emergency_pause.rs
Pause ==
  /\ ~ paused
  /\ paused' = TRUE
  /\ UNCHANGED <<Books, config, withdraw_stake_account_enabled,
                 treasury_ready>>

Resume ==
  /\ paused
  /\ paused' = FALSE
  /\ UNCHANGED <<Books, config, withdraw_stake_account_enabled,
                 treasury_ready>>

\* config_marinade.rs.  The arguments are optional: params is a function from
\* the fields that are given to their new values.  The cap on moved stake is
\* not checked, on purpose.
ConfigMarinadeFields == {"reward_fee", "min_stake", "min_deposit",
  "min_withdraw", "staking_sol_cap", "liquidity_sol_cap",
  "delayed_unstake_fee", "withdraw_stake_account_fee",
  "max_stake_moved_per_epoch"}

ConfigMarinade(params, enabled) ==
  LET new == [f \in ConfigFields |->
                IF f \in DOMAIN params THEN params[f] ELSE config[f]]
      given(f) == f \in DOMAIN params
  IN /\ DOMAIN params \subseteq ConfigMarinadeFields
     /\ given("reward_fee") => new["reward_fee"] <= MAX_REWARD_FEE
     /\ given("min_stake") => new["min_stake"] >= MIN_STAKE_LOWER_LIMIT
     /\ given("min_withdraw") => new["min_withdraw"] <= MAX_WITHDRAW_ATOM
     /\ given("delayed_unstake_fee") =>
          new["delayed_unstake_fee"] <= MAX_DELAYED_UNSTAKE_FEE
     /\ given("withdraw_stake_account_fee") =>
          new["withdraw_stake_account_fee"] <= MAX_WITHDRAW_STAKE_ACCOUNT_FEE
     /\ config' = new
     /\ withdraw_stake_account_enabled' = enabled
     /\ UNCHANGED <<Books, treasury_ready, paused>>

ConfigLpFields == {"lp_min_fee", "lp_max_fee", "lp_liquidity_target",
                   "treasury_cut"}

\* A variant: the check comes before the change
ConfigLp_checked_before(params) ==
  LET new == [f \in ConfigFields |->
                IF f \in DOMAIN params THEN params[f] ELSE config[f]]
  IN /\ DOMAIN params \subseteq ConfigLpFields
     /\ ValidLiqPool(config)
     /\ config' = new
     /\ UNCHANGED <<Books, withdraw_stake_account_enabled, treasury_ready,
                    paused>>

\* config_lp.rs: only the result of the whole change has to be valid
ConfigLp(params) ==
  LET new == [f \in ConfigFields |->
                IF f \in DOMAIN params THEN params[f] ELSE config[f]]
  IN /\ DOMAIN params \subseteq ConfigLpFields
     /\ ValidLiqPool(new)
     /\ config' = new
     /\ UNCHANGED <<Books, withdraw_stake_account_enabled, treasury_ready,
                    paused>>

\* change_authority.rs.  Of the five authorities only the treasury account
\* changes what an instruction does: an account that holds no mSOL takes no
\* fee.  The balance of the former account stays in circulation.
ChangeAuthority(ready) ==
  /\ treasury_ready' = ready
  /\ UNCHANGED <<Books, config, withdraw_stake_account_enabled, paused>>

\* realloc_stake_list.rs, realloc_validator_list.rs
ReallocStakeList(capacity) ==
  /\ capacity >= Cardinality(DOMAIN stake_list)
  /\ config' = [config EXCEPT !["stake_list_capacity"] = capacity]
  /\ UNCHANGED <<Books, withdraw_stake_account_enabled, treasury_ready,
                 paused>>

ReallocValidatorList(capacity) ==
  /\ capacity >= Cardinality(DOMAIN validator_list)
  /\ config' = [config EXCEPT !["validator_list_capacity"] = capacity]
  /\ UNCHANGED <<Books, withdraw_stake_account_enabled, treasury_ready,
                 paused>>
---------------------------------------------------------------------------

AdminNext ==
  \/ Pause
  \/ Resume
  \/ \E params \in ConfigMarinadeParams, enabled \in BOOLEAN :
       ConfigMarinade(params, enabled)
  \/ \E params \in ConfigLpParams : ConfigLp(params)
  \/ \E ready \in BOOLEAN : ChangeAuthority(ready)
  \/ \E capacity \in Capacities : ReallocStakeList(capacity)
  \/ \E capacity \in Capacities : ReallocValidatorList(capacity)
===========================================================================
