------------------------------- MODULE Crank -------------------------------
(***************************************************************************)
(* The permissionless instructions a bot runs every epoch                  *)
(* (instructions/crank): bring the books up to date with the native stake  *)
(* accounts, stake or unstake the difference, merge and redelegate.        *)
(***************************************************************************)
EXTENDS MarinadeState

---------------------------------------------------------------------------
(* update.rs                                                               *)

\* A variant: the rent is taken for a balance
aligned_with_rent == reserve_pda

\* UpdateCommon::begin: the virtual balances are aligned with the real ones.
\* More tokens than were minted would stop deposits for good.
aligned_reserve == Monus(reserve_pda, TokenRent)

begin ==
  config' = IF mint_supply > msol_supply
              THEN [config EXCEPT !.staking_sol_cap = 0]
              ELSE config

\* UpdateCommon::mint_protocol_fees: the fee in mSOL on lamports_incoming, at
\* the price that the given reserve and supply make
protocol_fees(lamports_incoming, available, supply) ==
  IF treasury_ready
    THEN shares_from_value(
           FeeApply(config.reward_fee, lamports_incoming),
           Monus(total_active_balance + total_cooling_down + available,
                 circulating_ticket_balance),
           supply)
    ELSE 0

\* A variant: a slash goes unnoticed
never_slashed(a) == 0

\* What a delegation has gained and lost since the last update
rewards(a) == Monus(stake_accounts[a].stake, last_update(a))
slashed(a) == Monus(last_update(a), stake_accounts[a].stake)

\* Lamports above the delegation go to the reserve and are charged at the
\* price they make; the growth of the delegation is charged at the price
\* before it, and a slash is not charged.
extra_lamports(a) == Monus(stake_accounts[a].balance, stake_accounts[a].stake)

extra_msol_fees(a) ==
  protocol_fees(extra_lamports(a), aligned_reserve + extra_lamports(a),
                mint_supply)

\* A variant: the lamports of the reserve are charged a second time
delegation_growth_charged_twice(a) ==
  protocol_fees(rewards(a) + extra_lamports(a),
                aligned_reserve + extra_lamports(a),
                mint_supply + extra_msol_fees(a))

delegation_growth_msol_fees(a) ==
  protocol_fees(rewards(a), aligned_reserve + extra_lamports(a),
                mint_supply + extra_msol_fees(a))

UpdateActive(a) ==
  LET native == stake_accounts[a]
      v == native.voter
      fees == extra_msol_fees(a) + delegation_growth_msol_fees(a)
  IN /\ ~ paused
     /\ begin
     /\ v \in DOMAIN validator_list
     /\ is_active(a)
     /\ available_reserve_balance' = aligned_reserve + extra_lamports(a)
     /\ reserve_pda' = reserve_pda + extra_lamports(a)
     /\ treasury_msol' = treasury_msol + fees
     /\ msol_supply' = mint_supply + fees
     /\ validator_list' = [validator_list EXCEPT
          ![v].active_balance = Monus(@ + rewards(a), slashed(a))]
     /\ total_active_balance' =
          Monus(total_active_balance + rewards(a), slashed(a))
     /\ stake_list' = [stake_list EXCEPT
          ![a].last_update_delegated_lamports = native.stake]
     /\ stake_accounts' = [stake_accounts EXCEPT ![a].balance = native.stake]
     /\ UNCHANGED <<ticketVars, coolingVars, movedVars, deltaVars,
                    total_validator_score, user_msol, poolVars,
                    withdraw_stake_account_enabled, treasury_ready, paused,
                    worldVars>>

\* A variant: the balance leaves them
cooled_down_balance(a) == stake_accounts[a].balance

\* What leaves the cooling counters with an account: what entered them, be the
\* balance more or less by now
cooled_down(a) == last_update(a)

\* The stake program lets go of the whole balance of an inactive account; the
\* rent goes to the operational account, the record leaves the list.
deactivated_msol_fees(a) ==
  protocol_fees(Monus(stake_accounts[a].balance, last_update(a)),
                aligned_reserve, mint_supply)

UpdateDeactivated(a) ==
  LET native == stake_accounts[a]
      last == cooled_down(a)
      fees == deactivated_msol_fees(a)
      emergency == stake_list[a].is_emergency_unstaking
  IN /\ ~ paused
     /\ begin
     /\ native.status = "inactive"
     /\ emergency = 0 => last <= delayed_unstake_cooling_down
     /\ emergency = 1 => last <= emergency_cooling_down
     /\ available_reserve_balance' = aligned_reserve + native.balance
     /\ reserve_pda' = reserve_pda + native.balance
     /\ treasury_msol' = treasury_msol + fees
     /\ msol_supply' = mint_supply + fees
     /\ delayed_unstake_cooling_down' =
          delayed_unstake_cooling_down - (IF emergency = 0 THEN last ELSE 0)
     /\ emergency_cooling_down' =
          emergency_cooling_down - (IF emergency = 1 THEN last ELSE 0)
     /\ stake_list' = Without(stake_list, a)
     /\ stake_accounts' = Without(stake_accounts, a)
     /\ outside_sol' = outside_sol + StakeRent
     /\ UNCHANGED <<ticketVars, movedVars, deltaVars, validatorVars,
                    user_msol, poolVars, withdraw_stake_account_enabled,
                    treasury_ready, paused, phase>>

---------------------------------------------------------------------------
(* stake_reserve.rs.  Returning early is not an error, and keeps the extra *)
(* run that was spent by then.                                             *)

\* A variant: the target is a share of what is staked already
reserve_stake_target_of_staked(v) ==
  Monus(validator_stake_target(v, total_active_balance),
        validator_list[v].active_balance)

\* What StakeReserve gives validator v out of a positive delta
reserve_stake_target(v) ==
  LET target == validator_stake_target(v, total_active_balance + stake_delta)
      capped == Lesser(Monus(target, validator_list[v].active_balance),
                       stake_delta)
  IN  IF target <= validator_list[v].active_balance THEN 0
      ELSE IF stake_delta - capped < min_stake THEN stake_delta
      ELSE capped

TakeStakeRun(v) ==
  /\ ~ paused
  /\ stake_delta > 0
  /\ validator_list[v].ran => extra_stake_delta_runs > 0
  /\ extra_stake_delta_runs' =
       extra_stake_delta_runs - (IF validator_list[v].ran THEN 1 ELSE 0)
  /\ phase = "window"

StakeReserve(v, a) ==
  LET stake_target == reserve_stake_target(v)
  IN /\ TakeStakeRun(v)
     /\ stake_target > 0 /\ stake_target >= min_stake
     /\ on_transfer_from_reserve(stake_target)
     /\ a \notin DOMAIN stake_accounts
     /\ stake_accounts' = Put(stake_accounts, a,
          new_stake_account(v, stake_target, "activating", "marinade"))
     /\ add_stake(a, stake_target, 0)
     /\ validator_list' = [validator_list EXCEPT
          ![v].active_balance = @ + stake_target, ![v].ran = TRUE]
     /\ stake_delta_ran' = TRUE
     /\ total_active_balance' = total_active_balance + stake_target
     /\ pay_rent(1)
     /\ UNCHANGED <<ticketVars, coolingVars, movedVars,
                    total_validator_score, mintVars, poolVars, adminVars,
                    phase>>

StakeReserveReturnsEarly(v) ==
  /\ TakeStakeRun(v)
  /\ reserve_stake_target(v) < min_stake
  /\ UNCHANGED <<reserveVars, ticketVars, coolingVars, movedVars,
                 stake_delta_ran, stakeVars, validatorVars, mintVars,
                 poolVars, adminVars, worldVars>>

---------------------------------------------------------------------------
(* deactivate_stake.rs                                                     *)

\* What the delta takes from validator v, and what that leaves in account a
unstake_from_validator(v) ==
  Monus(validator_list[v].active_balance,
        validator_stake_target(v, Monus(total_active_balance, - stake_delta)))

stake_account_target(a, v) ==
  Monus(last_update(a), Lesser(unstake_from_validator(v), - stake_delta))

DeactivateStakeAllowed(a, v) ==
  /\ ~ paused
  /\ stake_list[a].is_emergency_unstaking = 0
  /\ v \in DOMAIN validator_list
  /\ stake_delta < 0
  /\ check_stake_amount_and_validator(a, v)
  /\ unstake_from_validator(v) > 0
  /\ is_active(a)

\* `unstaked` lamports of validator v start to cool down
StartDelayedUnstake(v, unstaked, ran) ==
  /\ unstaked <= validator_list[v].active_balance
  /\ unstaked <= total_active_balance
  /\ validator_list' = [validator_list EXCEPT
       ![v].active_balance = @ - unstaked, ![v].ran = ran]
  /\ stake_delta_ran' = TRUE
  /\ total_active_balance' = total_active_balance - unstaked
  /\ delayed_unstake_cooling_down' = delayed_unstake_cooling_down + unstaked
  /\ UNCHANGED <<reserveVars, ticketVars, emergency_cooling_down, movedVars,
                 extra_stake_delta_runs, total_validator_score, mintVars,
                 poolVars, adminVars, phase>>

\* A variant: what the delta asks for is counted, not the whole account
DeactivateWholeStake_as_planned(a) ==
  LET v == stake_accounts[a].voter
  IN /\ DeactivateStakeAllowed(a, v)
     /\ stake_account_target(a, v) < 2 * min_stake
     /\ stake_accounts' =
          [stake_accounts EXCEPT ![a] = deactivated(stake_accounts[a])]
     /\ stake_list' = stake_list
     /\ pay_rent(0)
     /\ StartDelayedUnstake(v, last_update(a) - stake_account_target(a, v),
                            validator_list[v].ran)

\* No less than twice min_stake may stay behind.
DeactivateWholeStake(a) ==
  LET v == stake_accounts[a].voter
  IN /\ DeactivateStakeAllowed(a, v)
     /\ stake_account_target(a, v) < 2 * min_stake
     /\ stake_accounts' =
          [stake_accounts EXCEPT ![a] = deactivated(stake_accounts[a])]
     /\ stake_list' = stake_list
     /\ pay_rent(0)
     /\ StartDelayedUnstake(v, last_update(a), validator_list[v].ran)

\* Once per validator and epoch
DeactivateSplitStake(a, b) ==
  LET v == stake_accounts[a].voter
      split_amount == last_update(a) - stake_account_target(a, v)
  IN /\ DeactivateStakeAllowed(a, v)
     /\ stake_account_target(a, v) >= 2 * min_stake
     /\ ~ validator_list[v].ran
     /\ split_amount > 0 /\ split_amount <= - stake_delta
     /\ Cardinality(DOMAIN stake_list) < config.stake_list_capacity
     /\ split(a, b, split_amount,
              deactivated(new_stake_account(v, split_amount,
                            stake_accounts[a].status, "marinade")))
     /\ stake_list' = with_split(a, b, split_amount, 0)
     /\ StartDelayedUnstake(v, split_amount, TRUE)

---------------------------------------------------------------------------
(* merge_stakes.rs.  The stake program merges accounts of equal status     *)
(* only, and delegates the source's rent too when both are activating.  It *)
(* goes to the operational account otherwise.                              *)

extra_delegated(dst) ==
  IF stake_accounts[dst].status = "activating" THEN StakeRent ELSE 0

MergeStakes(dst, src) ==
  LET v == stake_accounts[dst].voter
      extra == extra_delegated(dst)
      added == last_update(src) + extra
  IN /\ ~ paused
     /\ dst # src
     /\ v \in DOMAIN validator_list
     /\ is_active(dst) /\ is_active(src)
     /\ stake_accounts[dst].status = stake_accounts[src].status
     /\ check_stake_amount_and_validator(dst, v)
     /\ check_stake_amount_and_validator(src, v)
     /\ stake_accounts[src].balance = stake_accounts[src].stake
     /\ stake_accounts' = Without(
          [stake_accounts EXCEPT ![dst].stake = @ + added,
                                 ![dst].balance = @ + added], src)
     /\ stake_list' = Without(
          [stake_list EXCEPT ![dst].last_update_delegated_lamports = @ + added],
          src)
     /\ validator_list' =
          [validator_list EXCEPT ![v].active_balance = @ + extra]
     /\ total_active_balance' = total_active_balance + extra
     /\ outside_sol' = outside_sol + (StakeRent - extra)
     /\ UNCHANGED <<reserveVars, ticketVars, coolingVars, movedVars,
                    deltaVars, total_validator_score, mintVars, poolVars,
                    adminVars, phase>>

---------------------------------------------------------------------------
(* redelegate.rs.  The stake program deactivates the source and moves its  *)
(* lamports to a new activating account; the source keeps its delegation   *)
(* for the rewards of the epoch, so its record is worth 0 from now on.     *)

stake_target_of(v) ==
  validator_stake_target(v, total_active_balance + stake_delta)

\* A variant: without regard to the room of the destination
redelegate_amount_of_source(a, src, dst) ==
  Lesser(validator_list[src].active_balance - stake_target_of(src),
         last_update(a))

redelegate_amount(a, src, dst) ==
  Lesser(stake_target_of(dst) - validator_list[dst].active_balance,
         Lesser(validator_list[src].active_balance - stake_target_of(src),
                last_update(a)))

RedelegateAllowed(a, src, dst) ==
  /\ ~ paused
  /\ src # dst
  /\ stake_list[a].is_emergency_unstaking = 0
  /\ {src, dst} \subseteq DOMAIN validator_list
  /\ check_stake_amount_and_validator(a, src)
  /\ total_active_balance + stake_delta >= 0
  /\ validator_list[src].active_balance >= stake_target_of(src) + min_stake
  /\ validator_list[dst].active_balance + min_stake <= stake_target_of(dst)
  /\ stake_accounts[a].status = "active"

MoveStake(src, dst, amount) ==
  /\ on_stake_moved(amount)
  /\ amount <= validator_list[src].active_balance
  /\ validator_list' = [validator_list EXCEPT
       ![src].active_balance = @ - amount, ![dst].active_balance = @ + amount]
  /\ UNCHANGED <<reserveVars, ticketVars, coolingVars, deltaVars,
                 total_validator_score, total_active_balance, mintVars,
                 poolVars, adminVars, phase>>

RedelegateWholeStake(a, dst, c) ==
  LET src == stake_accounts[a].voter
      amount == last_update(a)
      emptied ==
        [deactivated(stake_accounts[a]) EXCEPT !.balance = @ - amount]
  IN /\ RedelegateAllowed(a, src, dst)
     /\ last_update(a) - redelegate_amount(a, src, dst) < min_stake
     /\ c \notin DOMAIN stake_accounts
     /\ Cardinality(DOMAIN stake_list) < config.stake_list_capacity
     /\ amount <= stake_accounts[a].balance
     /\ stake_accounts' = Put([stake_accounts EXCEPT ![a] = emptied], c,
          new_stake_account(dst, amount, "activating", "marinade"))
     /\ stake_list' = Put(
          [stake_list EXCEPT ![a] = new_stake_record(0, 0)],
          c, new_stake_record(amount, 0))
     /\ pay_rent(1)
     /\ MoveStake(src, dst, amount)

RedelegateSplitStake(a, dst, b, c) ==
  LET src == stake_accounts[a].voter
      amount == redelegate_amount(a, src, dst)
      redelegated == [new_stake_account(src, amount, "deactivating", "marinade")
                        EXCEPT !.balance = 0]
  IN /\ RedelegateAllowed(a, src, dst)
     /\ last_update(a) - amount >= min_stake
     /\ b # c /\ {b, c} \cap DOMAIN stake_accounts = {}
     /\ Cardinality(DOMAIN stake_list) + 1 < config.stake_list_capacity
     /\ amount <= stake_accounts[a].balance
     /\ stake_accounts' = Put(Put(
          [stake_accounts EXCEPT ![a].stake = @ - amount,
                                 ![a].balance = @ - amount], b, redelegated), c,
          new_stake_account(dst, amount, "activating", "marinade"))
     /\ stake_list' = Put(Put(reduced(a, amount), b, new_stake_record(0, 0)),
                          c, new_stake_record(amount, 0))
     /\ pay_rent(2)
     /\ MoveStake(src, dst, amount)
---------------------------------------------------------------------------

CrankNext ==
  \/ \E a \in DOMAIN stake_list : UpdateActive(a)
  \/ \E a \in DOMAIN stake_list : UpdateDeactivated(a)
  \/ \E v \in DOMAIN validator_list, a \in StakeAccount : StakeReserve(v, a)
  \/ \E v \in DOMAIN validator_list : StakeReserveReturnsEarly(v)
  \/ \E a \in DOMAIN stake_list : DeactivateWholeStake(a)
  \/ \E a \in DOMAIN stake_list, b \in StakeAccount :
       DeactivateSplitStake(a, b)
  \/ \E dst \in DOMAIN stake_list, src \in DOMAIN stake_list :
       MergeStakes(dst, src)

RedelegateNext ==
  \/ \E a \in DOMAIN stake_list, dst \in DOMAIN validator_list,
        c \in StakeAccount : RedelegateWholeStake(a, dst, c)
  \/ \E a \in DOMAIN stake_list, dst \in DOMAIN validator_list,
        b \in StakeAccount, c \in StakeAccount :
       RedelegateSplitStake(a, dst, b, c)
===========================================================================
