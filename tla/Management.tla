----------------------------- MODULE Management ----------------------------
(***************************************************************************)
(* The instructions of the validator manager (instructions/management and  *)
(* admin/config_validator_system.rs): who is staked to, and how stake is   *)
(* taken away from a validator against the delta.                          *)
(***************************************************************************)
EXTENDS MarinadeState

CONSTANTS Scores, ExtraRuns   \* the values the manager chooses from

ASSUME ManagementAssumption == Scores \subseteq Nat /\ ExtraRuns \subseteq Nat

\* A variant: without regard to the pause
AddValidator_paused(v, score) ==
  /\ v \notin DOMAIN validator_list
  /\ Cardinality(DOMAIN validator_list) < config.validator_list_capacity
  /\ validator_list' = Put(validator_list, v, new_validator(score))
  /\ total_validator_score' = total_validator_score + score
  /\ UNCHANGED <<reserveVars, ticketVars, coolingVars, movedVars, deltaVars,
                 stakeVars, total_active_balance, mintVars, poolVars,
                 adminVars, worldVars>>

\* add_validator.rs.  The duplication flag makes a vote account unique.
AddValidator(v, score) ==
  /\ ~ paused
  /\ v \notin DOMAIN validator_list
  /\ Cardinality(DOMAIN validator_list) < config.validator_list_capacity
  /\ validator_list' = Put(validator_list, v, new_validator(score))
  /\ total_validator_score' = total_validator_score + score
  /\ UNCHANGED <<reserveVars, ticketVars, coolingVars, movedVars, deltaVars,
                 stakeVars, total_active_balance, mintVars, poolVars,
                 adminVars, worldVars>>

\* A variant: with the stake it has left
RemoveValidator_with_stake(v) ==
  /\ ~ paused
  /\ validator_list[v].score <= total_validator_score
  /\ total_validator_score' =
       total_validator_score - validator_list[v].score
  /\ validator_list' = Without(validator_list, v)
  /\ UNCHANGED <<reserveVars, ticketVars, coolingVars, movedVars, deltaVars,
                 stakeVars, total_active_balance, mintVars, poolVars,
                 adminVars, worldVars>>

\* remove_validator.rs
RemoveValidator(v) ==
  /\ ~ paused
  /\ validator_list[v].active_balance = 0
  /\ validator_list[v].score <= total_validator_score
  /\ total_validator_score' =
       total_validator_score - validator_list[v].score
  /\ validator_list' = Without(validator_list, v)
  /\ UNCHANGED <<reserveVars, ticketVars, coolingVars, movedVars, deltaVars,
                 stakeVars, total_active_balance, mintVars, poolVars,
                 adminVars, worldVars>>

\* A variant: the former score stays in the total
SetValidatorScore_added(v, score) ==
  /\ ~ paused
  /\ total_validator_score' = total_validator_score + score
  /\ validator_list' = [validator_list EXCEPT ![v].score = score]
  /\ UNCHANGED <<reserveVars, ticketVars, coolingVars, movedVars, deltaVars,
                 stakeVars, total_active_balance, mintVars, poolVars,
                 adminVars, worldVars>>

\* set_validator_score.rs
SetValidatorScore(v, score) ==
  /\ ~ paused
  /\ validator_list[v].score <= total_validator_score
  /\ total_validator_score' =
       total_validator_score - validator_list[v].score + score
  /\ validator_list' = [validator_list EXCEPT ![v].score = score]
  /\ UNCHANGED <<reserveVars, ticketVars, coolingVars, movedVars, deltaVars,
                 stakeVars, total_active_balance, mintVars, poolVars,
                 adminVars, worldVars>>

\* config_validator_system.rs
ConfigValidatorSystem(extra_runs) ==
  /\ extra_stake_delta_runs' = extra_runs
  /\ UNCHANGED <<reserveVars, ticketVars, coolingVars, movedVars,
                 stake_delta_ran, stakeVars, validatorVars, mintVars,
                 poolVars, adminVars, worldVars>>

---------------------------------------------------------------------------
(* emergency_unstake.rs and partial_unstake.rs.  What they unstake cools   *)
(* down apart from the delayed unstakes, and goes back to the reserve to   *)
(* be staked again.                                                        *)

StartEmergencyUnstake(v, amount) ==
  /\ on_stake_moved(amount)
  /\ amount <= validator_list[v].active_balance
  /\ amount <= total_active_balance
  /\ validator_list' =
       [validator_list EXCEPT ![v].active_balance = @ - amount]
  /\ total_active_balance' = total_active_balance - amount
  /\ emergency_cooling_down' = emergency_cooling_down + amount
  /\ UNCHANGED <<reserveVars, ticketVars, delayed_unstake_cooling_down,
                 deltaVars, total_validator_score, mintVars, poolVars,
                 adminVars, phase>>

\* A variant: the record is not marked
UnstakeWholeAccount_unmarked(a) ==
  /\ pay_rent(0)
  /\ stake_accounts' =
       [stake_accounts EXCEPT ![a] = deactivated(stake_accounts[a])]
  /\ stake_list' = stake_list

UnstakeWholeAccount(a) ==
  /\ pay_rent(0)
  /\ stake_accounts' =
       [stake_accounts EXCEPT ![a] = deactivated(stake_accounts[a])]
  /\ stake_list' = [stake_list EXCEPT ![a].is_emergency_unstaking = 1]

EmergencyUnstake(a) ==
  LET v == stake_accounts[a].voter
  IN /\ ~ paused
     /\ v \in DOMAIN validator_list
     /\ validator_list[v].score = 0
     /\ check_stake_amount_and_validator(a, v)
     /\ is_active(a)
     /\ stake_list[a].is_emergency_unstaking = 0
     /\ UnstakeWholeAccount(a)
     /\ StartEmergencyUnstake(v, last_update(a))

over_target(v) ==
  validator_list[v].active_balance
    - validator_stake_target(v, total_active_balance + stake_delta)

PartialUnstakeAllowed(a, v, desired) ==
  /\ ~ paused
  /\ desired >= min_stake
  /\ v \in DOMAIN validator_list
  /\ stake_list[a].is_emergency_unstaking = 0
  /\ check_stake_amount_and_validator(a, v)
  /\ total_active_balance + stake_delta >= 0
  /\ over_target(v) > min_stake
  /\ is_active(a)

PartialUnstakeWhole(a, desired) ==
  LET v == stake_accounts[a].voter
      unstake_amount == Lesser(desired, over_target(v))
  IN /\ PartialUnstakeAllowed(a, v, desired)
     /\ Monus(last_update(a), unstake_amount) < min_stake
     /\ UnstakeWholeAccount(a)
     /\ StartEmergencyUnstake(v, last_update(a))

PartialUnstakeSplit(a, b, desired) ==
  LET v == stake_accounts[a].voter
      unstake_amount == Lesser(desired, over_target(v))
  IN /\ PartialUnstakeAllowed(a, v, desired)
     /\ Monus(last_update(a), unstake_amount) >= min_stake
     /\ Cardinality(DOMAIN stake_list) < config.stake_list_capacity
     /\ split(a, b, unstake_amount,
              deactivated(new_stake_account(v, unstake_amount,
                            stake_accounts[a].status, "marinade")))
     /\ stake_list' = with_split(a, b, unstake_amount, 1)
     /\ StartEmergencyUnstake(v, unstake_amount)
---------------------------------------------------------------------------

UnstakeNext ==
  \/ \E a \in DOMAIN stake_list : EmergencyUnstake(a)
  \/ \E a \in DOMAIN stake_list, l \in Lamports : PartialUnstakeWhole(a, l)
  \/ \E a \in DOMAIN stake_list, b \in StakeAccount, l \in Lamports :
       PartialUnstakeSplit(a, b, l)

ValidatorsNext ==
  \/ \E v \in Validator, score \in Scores : AddValidator(v, score)
  \/ \E v \in DOMAIN validator_list : RemoveValidator(v)
  \/ \E v \in DOMAIN validator_list, score \in Scores :
       SetValidatorScore(v, score)
  \/ \E runs \in ExtraRuns : ConfigValidatorSystem(runs)
===========================================================================
