-------------------------------- MODULE Events ------------------------------
(***************************************************************************)
(* The log.  Most instructions end by emitting an event with balances that *)
(* they captured on the way, some before their changes and some after, for *)
(* readers off the chain who keep accounts of their own.  Here are the     *)
(* events (events), what each instruction puts into its own, and what a    *)
(* reader makes of it.                                                     *)
(*                                                                         *)
(* Left out of every event: the keys of the State account and of people,   *)
(* the epoch, indices into the lists, lamports of users and of the         *)
(* operational account, and msol_price.  emergency_unstake,                *)
(* partial_unstake and config_validator_system emit nothing, nor does an   *)
(* early return of stake_reserve.                                          *)
(***************************************************************************)
EXTENDS Marinade

Change(old, new) == [old |-> old, new |-> new]

\* Option: a set of at most one value
Some(isSome, value) == IF isSome THEN {value} ELSE {}

SumOf(option) == IF option = {} THEN 0 ELSE CHOOSE n \in option : TRUE

\* U64ValueChange and its like for other types
ValueChange(S) == [old : S, new : S]

\* State::get_treasury_msol_balance: no error if the treasury's account cannot
\* receive mSOL
get_treasury_msol_balance == Some(treasury_ready, treasury_msol)

---------------------------------------------------------------------------
(* events/user.rs, events/delayed_unstake.rs                               *)

DepositEvent ==
  [{"user_msol_balance", "sol_leg_balance", "msol_leg_balance",
    "reserve_balance", "sol_swapped", "msol_swapped", "sol_deposited",
    "msol_minted", "total_virtual_staked_lamports", "msol_supply"} -> Nat]

\* A variant: what the pool has sold is logged as minted
deposit_event_minting_all(lamports) ==
  [user_msol_balance |-> user_msol,
   sol_leg_balance |-> sol_leg_pda,
   msol_leg_balance |-> msol_leg,
   reserve_balance |-> reserve_pda,
   sol_swapped |-> sol_swapped(lamports),
   msol_swapped |-> msol_swapped(lamports),
   sol_deposited |-> lamports - sol_swapped(lamports),
   msol_minted |-> calc_msol_from_lamports(lamports),
   total_virtual_staked_lamports |-> total_virtual_staked_lamports,
   msol_supply |-> msol_supply]

deposit_event(lamports) ==
  [user_msol_balance |-> user_msol,
   sol_leg_balance |-> sol_leg_pda,
   msol_leg_balance |-> msol_leg,
   reserve_balance |-> reserve_pda,
   sol_swapped |-> sol_swapped(lamports),
   msol_swapped |-> msol_swapped(lamports),
   sol_deposited |-> lamports - sol_swapped(lamports),
   msol_minted |-> calc_msol_from_lamports(lamports) - msol_swapped(lamports),
   total_virtual_staked_lamports |-> total_virtual_staked_lamports,
   msol_supply |-> msol_supply]

DepositStakeAccountEvent ==
  [stake : StakeAccount, delegated : Nat, validator : Validator,
   validator_active_balance : Nat, total_active_balance : Nat,
   user_msol_balance : Nat, msol_minted : Nat,
   total_virtual_staked_lamports : Nat, msol_supply : Nat]

deposit_stake_account_event(a) ==
  LET native == stake_accounts[a]
  IN [stake |-> a, delegated |-> native.stake, validator |-> native.voter,
      validator_active_balance |-> validator_list[native.voter].active_balance,
      total_active_balance |-> total_active_balance,
      user_msol_balance |-> user_msol,
      msol_minted |-> calc_msol_from_lamports(native.stake),
      total_virtual_staked_lamports |-> total_virtual_staked_lamports,
      msol_supply |-> msol_supply]

WithdrawStakeAccountEvent ==
  [stake : StakeAccount, last_update_stake_delegation : Nat,
   validator : Validator, user_msol_balance : Nat, msol_burned : Nat,
   msol_fees : Nat, split_stake : StakeAccount, split_lamports : Nat,
   fee_bp_cents : Nat, total_virtual_staked_lamports : Nat,
   msol_supply : Nat]

\* A variant: the fee is logged as burnt, too
withdraw_stake_account_event_burning_all(a, b, msol_amount) ==
  [stake |-> a, last_update_stake_delegation |-> last_update(a),
   validator |-> stake_accounts[a].voter,
   user_msol_balance |-> user_msol,
   msol_burned |-> msol_amount,
   msol_fees |-> withdraw_msol_fees(msol_amount),
   split_stake |-> b, split_lamports |-> split_lamports(msol_amount),
   fee_bp_cents |-> config.withdraw_stake_account_fee,
   total_virtual_staked_lamports |-> total_virtual_staked_lamports,
   msol_supply |-> msol_supply]

withdraw_stake_account_event(a, b, msol_amount) ==
  [stake |-> a, last_update_stake_delegation |-> last_update(a),
   validator |-> stake_accounts[a].voter,
   user_msol_balance |-> user_msol,
   msol_burned |-> msol_amount - withdraw_msol_fees(msol_amount),
   msol_fees |-> withdraw_msol_fees(msol_amount),
   split_stake |-> b, split_lamports |-> split_lamports(msol_amount),
   fee_bp_cents |-> config.withdraw_stake_account_fee,
   total_virtual_staked_lamports |-> total_virtual_staked_lamports,
   msol_supply |-> msol_supply]

OrderUnstakeEvent ==
  [ticket : Ticket, circulating_ticket_balance : Nat,
   circulating_ticket_count : Nat, user_msol_balance : Nat,
   burned_msol_amount : Nat, sol_amount : Nat, fee_bp_cents : Nat,
   total_virtual_staked_lamports : Nat, msol_supply : Nat]

order_unstake_event(t, msol_amount) ==
  [ticket |-> t,
   circulating_ticket_balance |-> circulating_ticket_balance,
   circulating_ticket_count |-> circulating_ticket_count,
   user_msol_balance |-> user_msol,
   burned_msol_amount |-> msol_amount,
   sol_amount |-> lamports_for_user(msol_amount),
   fee_bp_cents |-> config.delayed_unstake_fee,
   total_virtual_staked_lamports |-> total_virtual_staked_lamports,
   msol_supply |-> msol_supply]

ClaimEvent ==
  [ticket : Ticket, circulating_ticket_balance : Nat,
   circulating_ticket_count : Nat, reserve_balance : Nat, amount : Nat]

\* A variant: the balance is captured after the update
claim_event_captured_late(t) ==
  [ticket |-> t,
   circulating_ticket_balance |-> circulating_ticket_balance',
   circulating_ticket_count |-> circulating_ticket_count,
   reserve_balance |-> reserve_pda,
   amount |-> tickets[t].lamports_amount]

claim_event(t) ==
  [ticket |-> t,
   circulating_ticket_balance |-> circulating_ticket_balance,
   circulating_ticket_count |-> circulating_ticket_count,
   reserve_balance |-> reserve_pda,
   amount |-> tickets[t].lamports_amount]

---------------------------------------------------------------------------
(* events/liq_pool.rs                                                      *)

AddLiquidityEvent ==
  [{"user_lp_balance", "sol_leg_balance", "lp_supply", "sol_added_amount",
    "lp_minted", "total_virtual_staked_lamports", "msol_supply"} -> Nat]

\* The supply is captured after it was aligned with the mint's.
add_liquidity_event(lamports) ==
  [user_lp_balance |-> user_lp,
   sol_leg_balance |-> sol_leg_pda,
   lp_supply |-> lp_mint_supply,
   sol_added_amount |-> lamports,
   lp_minted |-> lp_shares(lamports),
   total_virtual_staked_lamports |-> total_virtual_staked_lamports,
   msol_supply |-> msol_supply]

LiquidUnstakeEvent ==
  [liq_pool_sol_balance : Nat, liq_pool_msol_balance : Nat,
   treasury_msol_balance : SUBSET Nat, user_msol_balance : Nat,
   msol_amount : Nat, msol_fee : Nat, treasury_msol_cut : Nat,
   sol_amount : Nat, lp_liquidity_target : Nat, lp_max_fee : Nat,
   lp_min_fee : Nat, treasury_cut : Nat]

liquid_unstake_event(amount) ==
  [liq_pool_sol_balance |-> sol_leg_pda,
   liq_pool_msol_balance |-> msol_leg,
   treasury_msol_balance |-> get_treasury_msol_balance,
   user_msol_balance |-> user_msol,
   msol_amount |-> amount,
   msol_fee |-> liquid_unstake_msol_fee(amount),
   treasury_msol_cut |-> treasury_msol_cut(amount),
   sol_amount |-> working_lamports_value(amount),
   lp_liquidity_target |-> config.lp_liquidity_target,
   lp_max_fee |-> config.lp_max_fee,
   lp_min_fee |-> config.lp_min_fee,
   treasury_cut |-> config.treasury_cut]

RemoveLiquidityEvent ==
  [{"sol_leg_balance", "msol_leg_balance", "user_lp_balance",
    "user_msol_balance", "lp_mint_supply", "lp_burned", "sol_out_amount",
    "msol_out_amount"} -> Nat]

remove_liquidity_event(tokens) ==
  [sol_leg_balance |-> sol_leg_pda,
   msol_leg_balance |-> msol_leg,
   user_lp_balance |-> user_lp,
   user_msol_balance |-> user_msol,
   lp_mint_supply |-> lp_mint_supply,
   lp_burned |-> tokens,
   sol_out_amount |-> sol_out_amount(tokens),
   msol_out_amount |-> msol_out_amount(tokens)]

---------------------------------------------------------------------------
(* events/crank.rs                                                         *)

UpdateActiveEvent ==
  [stake_account : StakeAccount, validator_vote : Validator,
   delegation_change : ValueChange(Nat),
   delegation_growth_msol_fees : SUBSET Nat, extra_lamports : Nat,
   extra_msol_fees : SUBSET Nat, validator_active_balance : Nat,
   total_active_balance : Nat, reward_fee_used : Nat,
   total_virtual_staked_lamports : Nat, msol_supply : Nat]

\* The price is captured before the books are aligned.
update_active_event(a) ==
  LET v == stake_accounts[a].voter
  IN [stake_account |-> a, validator_vote |-> v,
      delegation_change |-> Change(last_update(a), stake_accounts[a].stake),
      delegation_growth_msol_fees |->
        Some(treasury_ready, delegation_growth_msol_fees(a)),
      extra_lamports |-> extra_lamports(a),
      extra_msol_fees |-> Some(treasury_ready, extra_msol_fees(a)),
      validator_active_balance |-> validator_list[v].active_balance,
      total_active_balance |-> total_active_balance,
      reward_fee_used |-> config.reward_fee,
      total_virtual_staked_lamports |-> total_virtual_staked_lamports,
      msol_supply |-> msol_supply]

UpdateDeactivatedEvent ==
  [stake_account : StakeAccount, balance_without_rent_exempt : Nat,
   last_update_delegated_lamports : Nat, msol_fees : SUBSET Nat,
   reward_fee_used : Nat, total_virtual_staked_lamports : Nat,
   msol_supply : Nat]

update_deactivated_event(a) ==
  [stake_account |-> a,
   balance_without_rent_exempt |-> stake_accounts[a].balance,
   last_update_delegated_lamports |-> last_update(a),
   msol_fees |-> Some(treasury_ready, deactivated_msol_fees(a)),
   reward_fee_used |-> config.reward_fee,
   total_virtual_staked_lamports |-> total_virtual_staked_lamports,
   msol_supply |-> msol_supply]

StakeReserveEvent ==
  [stake_account : StakeAccount, validator_vote : Validator,
   total_stake_target : Nat, validator_stake_target : Nat,
   reserve_balance : Nat, total_active_balance : Nat,
   validator_active_balance : Nat, total_stake_delta : Nat, amount : Nat]

stake_reserve_event(v, a) ==
  LET total == total_active_balance + stake_delta
  IN [stake_account |-> a, validator_vote |-> v,
      total_stake_target |-> total,
      validator_stake_target |-> validator_stake_target(v, total),
      reserve_balance |-> reserve_pda,
      total_active_balance |-> total_active_balance,
      validator_active_balance |-> validator_list[v].active_balance,
      total_stake_delta |-> stake_delta,
      amount |-> reserve_stake_target(v)]

DeactivateStakeEvent ==
  [stake_account : StakeAccount, last_update_stake_delegation : Nat,
   split_stake_account : SUBSET StakeAccount, validator_vote : Validator,
   total_stake_target : Nat, validator_stake_target : Nat,
   total_active_balance : Nat, delayed_unstake_cooling_down : Nat,
   validator_active_balance : Nat, total_unstake_delta : Nat,
   unstaked_amount : Nat]

deactivate_stake_event(a, split_accounts, unstaked) ==
  LET v == stake_accounts[a].voter
      total == Monus(total_active_balance, - stake_delta)
  IN [stake_account |-> a, last_update_stake_delegation |-> last_update(a),
      split_stake_account |-> split_accounts, validator_vote |-> v,
      total_stake_target |-> total,
      validator_stake_target |-> validator_stake_target(v, total),
      total_active_balance |-> total_active_balance,
      delayed_unstake_cooling_down |-> delayed_unstake_cooling_down,
      validator_active_balance |-> validator_list[v].active_balance,
      total_unstake_delta |-> - stake_delta,
      unstaked_amount |-> unstaked]

MergeStakesEvent ==
  [destination_stake_account : StakeAccount,
   last_update_destination_stake_delegation : Nat,
   source_stake_account : StakeAccount,
   last_update_source_stake_delegation : Nat, validator_vote : Validator,
   extra_delegated : Nat, returned_stake_rent : Nat,
   validator_active_balance : Nat, total_active_balance : Nat]

\* A variant: the destination's delegation is captured after the merge
merge_stakes_event_captured_late(dst, src) ==
  LET v == stake_accounts[dst].voter
  IN [destination_stake_account |-> dst,
      last_update_destination_stake_delegation |-> stake_accounts'[dst].stake,
      source_stake_account |-> src,
      last_update_source_stake_delegation |-> last_update(src),
      validator_vote |-> v,
      extra_delegated |-> extra_delegated(dst),
      returned_stake_rent |-> StakeRent - extra_delegated(dst),
      validator_active_balance |-> validator_list[v].active_balance,
      total_active_balance |-> total_active_balance]

merge_stakes_event(dst, src) ==
  LET v == stake_accounts[dst].voter
  IN [destination_stake_account |-> dst,
      last_update_destination_stake_delegation |-> last_update(dst),
      source_stake_account |-> src,
      last_update_source_stake_delegation |-> last_update(src),
      validator_vote |-> v,
      extra_delegated |-> extra_delegated(dst),
      returned_stake_rent |-> StakeRent - extra_delegated(dst),
      validator_active_balance |-> validator_list[v].active_balance,
      total_active_balance |-> total_active_balance]

RedelegateEvent ==
  [stake_account : StakeAccount, last_update_delegation : Nat,
   source_validator_vote : Validator, source_validator_score : Nat,
   source_validator_balance : Nat, source_validator_stake_target : Nat,
   dest_validator_vote : Validator, dest_validator_score : Nat,
   dest_validator_balance : Nat, dest_validator_stake_target : Nat,
   redelegate_amount : Nat, split_stake_account : SUBSET StakeAccount,
   redelegate_stake_account : StakeAccount]

redelegate_event(a, dst, split_accounts, c, amount) ==
  LET src == stake_accounts[a].voter
  IN [stake_account |-> a, last_update_delegation |-> last_update(a),
      source_validator_vote |-> src,
      source_validator_score |-> validator_list[src].score,
      source_validator_balance |-> validator_list[src].active_balance,
      source_validator_stake_target |-> stake_target_of(src),
      dest_validator_vote |-> dst,
      dest_validator_score |-> validator_list[dst].score,
      dest_validator_balance |-> validator_list[dst].active_balance,
      dest_validator_stake_target |-> stake_target_of(dst),
      redelegate_amount |-> amount, split_stake_account |-> split_accounts,
      redelegate_stake_account |-> c]

---------------------------------------------------------------------------
(* events/management.rs, events/admin.rs                                   *)

AddValidatorEvent == [validator : Validator, score : Nat]
RemoveValidatorEvent == [validator : Validator]
SetValidatorScoreEvent ==
  [validator : Validator, score_change : ValueChange(Nat)]

add_validator_event(v, new_score) == [validator |-> v, score |-> new_score]
remove_validator_event(v) == [validator |-> v]
set_validator_score_event(v, score) ==
  [validator |-> v, score_change |-> Change(validator_list[v].score, score)]

\* Each optional argument, with what it replaces if it is given
Changes(fields) == [fields -> SUBSET ValueChange(Nat)]

\* A variant: the old value is captured after the new one is stored
changes_captured_late(params, fields) ==
  [f \in fields |-> Some(f \in DOMAIN params, Change(config'[f], params[f]))]

changes(params, fields) ==
  [f \in fields |-> Some(f \in DOMAIN params, Change(config[f], params[f]))]

ConfigMarinadeEvent ==
  [changes : Changes(ConfigMarinadeFields),
   withdraw_stake_account_enabled_change : ValueChange(BOOLEAN)]

config_marinade_event(params, enabled) ==
  [changes |-> changes(params, ConfigMarinadeFields),
   withdraw_stake_account_enabled_change |->
     Change(withdraw_stake_account_enabled, enabled)]

ConfigLpEvent == Changes(ConfigLpFields)
config_lp_event(params) == changes(params, ConfigLpFields)

ChangeAuthorityEvent == [treasury_msol_account_change : ValueChange(BOOLEAN)]
change_authority_event(ready) ==
  [treasury_msol_account_change |-> Change(treasury_ready, ready)]

ReallocStakeListEvent == [count : Nat, new_capacity : Nat]
ReallocValidatorListEvent == [count : Nat, new_capacity : Nat]

realloc_stake_list_event(capacity) ==
  [count |-> Cardinality(DOMAIN stake_list), new_capacity |-> capacity]
realloc_validator_list_event(capacity) ==
  [count |-> Cardinality(DOMAIN validator_list), new_capacity |-> capacity]

---------------------------------------------------------------------------
(* What a reader of the log makes of an event: the balances after the      *)
(* instruction, from those that the event captured and the amounts it      *)
(* names, and from the reader's own where the event captured none.         *)

delegations == delegated(DOMAIN stake_list)

DepositTold(e) ==
  /\ e \in DepositEvent
  /\ reserve_pda' = e.reserve_balance + e.sol_deposited
  /\ sol_leg_pda' = e.sol_leg_balance + e.sol_swapped
  /\ msol_leg' = e.msol_leg_balance - e.msol_swapped
  /\ user_msol' = e.user_msol_balance + e.msol_swapped + e.msol_minted
  /\ msol_supply' = e.msol_supply + e.msol_minted
  /\ total_virtual_staked_lamports' =
       e.total_virtual_staked_lamports + e.sol_deposited

DepositStakeAccountTold(e) ==
  /\ e \in DepositStakeAccountEvent
  /\ delegations' = Put(delegations, e.stake, e.delegated)
  /\ balance_of_validators' = [balance_of_validators EXCEPT
       ![e.validator] = e.validator_active_balance + e.delegated]
  /\ total_active_balance' = e.total_active_balance + e.delegated
  /\ user_msol' = e.user_msol_balance + e.msol_minted
  /\ msol_supply' = e.msol_supply + e.msol_minted
  /\ total_virtual_staked_lamports' =
       e.total_virtual_staked_lamports + e.delegated

WithdrawStakeAccountTold(e) ==
  /\ e \in WithdrawStakeAccountEvent
  /\ delegations' = [delegations EXCEPT
       ![e.stake] = e.last_update_stake_delegation - e.split_lamports]
  /\ balance_of_validators' =
       [balance_of_validators EXCEPT ![e.validator] = @ - e.split_lamports]
  /\ total_active_balance' = total_active_balance - e.split_lamports
  /\ user_msol' = e.user_msol_balance - e.msol_burned - e.msol_fees
  /\ treasury_msol' = treasury_msol + e.msol_fees
  /\ msol_supply' = e.msol_supply - e.msol_burned
  /\ total_virtual_staked_lamports' =
       e.total_virtual_staked_lamports - e.split_lamports

OrderUnstakeTold(e) ==
  /\ e \in OrderUnstakeEvent
  /\ circulating_ticket_balance' = e.circulating_ticket_balance + e.sol_amount
  /\ circulating_ticket_count' = e.circulating_ticket_count + 1
  /\ ticket_amounts' = Put(ticket_amounts, e.ticket, e.sol_amount)
  /\ user_msol' = e.user_msol_balance - e.burned_msol_amount
  /\ msol_supply' = e.msol_supply - e.burned_msol_amount
  /\ total_virtual_staked_lamports' =
       e.total_virtual_staked_lamports - e.sol_amount

ClaimTold(e) ==
  /\ e \in ClaimEvent
  /\ circulating_ticket_balance' = e.circulating_ticket_balance - e.amount
  /\ circulating_ticket_count' = e.circulating_ticket_count - 1
  /\ ticket_amounts' = Without(ticket_amounts, e.ticket)
  /\ reserve_pda' = e.reserve_balance - e.amount

AddLiquidityTold(e) ==
  /\ e \in AddLiquidityEvent
  /\ sol_leg_pda' = e.sol_leg_balance + e.sol_added_amount
  /\ user_lp' = e.user_lp_balance + e.lp_minted
  /\ lp_supply' = e.lp_supply + e.lp_minted

RemoveLiquidityTold(e) ==
  /\ e \in RemoveLiquidityEvent
  /\ sol_leg_pda' = e.sol_leg_balance - e.sol_out_amount
  /\ msol_leg' = e.msol_leg_balance - e.msol_out_amount
  /\ user_msol' = e.user_msol_balance + e.msol_out_amount
  /\ user_lp' = e.user_lp_balance - e.lp_burned
  /\ lp_supply' = e.lp_mint_supply - e.lp_burned

LiquidUnstakeTold(e) ==
  /\ e \in LiquidUnstakeEvent
  /\ sol_leg_pda' = e.liq_pool_sol_balance - e.sol_amount
  /\ msol_leg' = e.liq_pool_msol_balance + e.msol_amount - e.treasury_msol_cut
  /\ user_msol' = e.user_msol_balance - e.msol_amount
  /\ \A n \in e.treasury_msol_balance :
       treasury_msol' = n + e.treasury_msol_cut

UpdateActiveTold(e) ==
  LET change == e.delegation_change
      growth == change.new - change.old
      fees == SumOf(e.extra_msol_fees) + SumOf(e.delegation_growth_msol_fees)
  IN /\ e \in UpdateActiveEvent
     /\ delegations' = [delegations EXCEPT ![e.stake_account] = change.new]
     /\ balance_of_validators' = [balance_of_validators EXCEPT
          ![e.validator_vote] = e.validator_active_balance + growth]
     /\ total_active_balance' = e.total_active_balance + growth
     /\ reserve_pda' = reserve_pda + e.extra_lamports
     /\ treasury_msol' = treasury_msol + fees
     /\ msol_supply' = e.msol_supply + fees
     /\ total_virtual_staked_lamports' =
          e.total_virtual_staked_lamports + e.extra_lamports + growth

UpdateDeactivatedTold(e) ==
  LET fees == SumOf(e.msol_fees)
      last == e.last_update_delegated_lamports
  IN /\ e \in UpdateDeactivatedEvent
     /\ delegations' = Without(delegations, e.stake_account)
     /\ total_cooling_down' = total_cooling_down - last
     /\ reserve_pda' = reserve_pda + e.balance_without_rent_exempt
     /\ treasury_msol' = treasury_msol + fees
     /\ msol_supply' = e.msol_supply + fees
     /\ total_virtual_staked_lamports' =
          e.total_virtual_staked_lamports + e.balance_without_rent_exempt - last

StakeReserveTold(e) ==
  /\ e \in StakeReserveEvent
  /\ delegations' = Put(delegations, e.stake_account, e.amount)
  /\ balance_of_validators' = [balance_of_validators EXCEPT
       ![e.validator_vote] = e.validator_active_balance + e.amount]
  /\ total_active_balance' = e.total_active_balance + e.amount
  /\ reserve_pda' = e.reserve_balance - e.amount

\* A split-off account takes the unstaked part; without one the record stays.
DeactivateStakeTold(e) ==
  LET kept == e.last_update_stake_delegation - e.unstaked_amount
  IN /\ e \in DeactivateStakeEvent
     /\ IF e.split_stake_account = {}
          THEN delegations' = delegations
          ELSE \A b \in e.split_stake_account :
                 delegations' =
                   Put([delegations EXCEPT ![e.stake_account] = kept],
                       b, e.unstaked_amount)
     /\ balance_of_validators' = [balance_of_validators EXCEPT
          ![e.validator_vote] = e.validator_active_balance - e.unstaked_amount]
     /\ total_active_balance' = e.total_active_balance - e.unstaked_amount
     /\ delayed_unstake_cooling_down' =
          e.delayed_unstake_cooling_down + e.unstaked_amount

MergeStakesTold(e) ==
  /\ e \in MergeStakesEvent
  /\ delegations' = Without(
       [delegations EXCEPT ![e.destination_stake_account] =
          e.last_update_destination_stake_delegation
            + e.last_update_source_stake_delegation + e.extra_delegated],
       e.source_stake_account)
  /\ balance_of_validators' = [balance_of_validators EXCEPT
       ![e.validator_vote] = e.validator_active_balance + e.extra_delegated]
  /\ total_active_balance' = e.total_active_balance + e.extra_delegated

\* The account that is redelegated, or split off for it, counts no more.
RedelegateTold(e) ==
  LET amount == e.redelegate_amount
      kept == [delegations EXCEPT
                 ![e.stake_account] = e.last_update_delegation - amount]
      moved == [d \in DOMAIN kept \cup e.split_stake_account |->
                  IF d \in DOMAIN kept THEN kept[d] ELSE 0]
  IN /\ e \in RedelegateEvent
     /\ delegations' = Put(moved, e.redelegate_stake_account, amount)
     /\ balance_of_validators' = [balance_of_validators EXCEPT
          ![e.source_validator_vote] = e.source_validator_balance - amount,
          ![e.dest_validator_vote] = e.dest_validator_balance + amount]

ScoreTold(v, score) ==
  scores_of_validators' = Put(scores_of_validators, v, score)

\* The old values have to be the ones that the reader knows.
ChangesTold(told) ==
  \A f \in ConfigFields :
    LET change == IF f \in DOMAIN told THEN told[f] ELSE {}
    IN  /\ change = {} => config'[f] = config[f]
        /\ \A c \in change : config[f] = c.old /\ config'[f] = c.new

EnabledTold(change) ==
  /\ withdraw_stake_account_enabled = change.old
  /\ withdraw_stake_account_enabled' = change.new

CapacityTold(e, f) ==
  config' = [config EXCEPT ![f] = e.new_capacity] /\ e.count <= e.new_capacity

NewAccounts == DOMAIN stake_accounts' \ DOMAIN stake_accounts
GoneAccounts == DOMAIN stake_accounts \ DOMAIN stake_accounts'

HolderEventsTell ==
  /\ \A l \in Lamports : Deposit(l) => DepositTold(deposit_event(l))
  /\ \A a \in DOMAIN stake_accounts : DepositStakeAccount(a) =>
       DepositStakeAccountTold(deposit_stake_account_event(a))
  /\ \A a \in DOMAIN stake_list, b \in NewAccounts, m \in Lamports :
       WithdrawStakeAccount(a, b, m) =>
         WithdrawStakeAccountTold(withdraw_stake_account_event(a, b, m))
  /\ \A t \in Ticket, m \in Lamports :
       OrderUnstake(t, m) => OrderUnstakeTold(order_unstake_event(t, m))
  /\ \A t \in DOMAIN tickets : Claim(t) => ClaimTold(claim_event(t))
  /\ \A l \in Lamports :
       /\ AddLiquidity(l) => AddLiquidityTold(add_liquidity_event(l))
       /\ RemoveLiquidity(l) => RemoveLiquidityTold(remove_liquidity_event(l))
       /\ LiquidUnstake(l) => LiquidUnstakeTold(liquid_unstake_event(l))

CrankEventsTell ==
  /\ \A a \in DOMAIN stake_list :
       /\ UpdateActive(a) => UpdateActiveTold(update_active_event(a))
       /\ DeactivateWholeStake(a) =>
            DeactivateStakeTold(deactivate_stake_event(a, {}, last_update(a)))
  /\ \A a \in DOMAIN stake_list, b \in NewAccounts :
       DeactivateSplitStake(a, b) =>
         DeactivateStakeTold(deactivate_stake_event(a, {b},
           last_update(a) - stake_account_target(a, stake_accounts[a].voter)))
  /\ \A a \in DOMAIN stake_list \cap GoneAccounts :
       /\ UpdateDeactivated(a) =>
            UpdateDeactivatedTold(update_deactivated_event(a))
       /\ \A dst \in DOMAIN stake_list : MergeStakes(dst, a) =>
            MergeStakesTold(merge_stakes_event(dst, a))
  /\ \A v \in DOMAIN validator_list, a \in NewAccounts :
       StakeReserve(v, a) => StakeReserveTold(stake_reserve_event(v, a))
  /\ \A a \in DOMAIN stake_list, dst \in DOMAIN validator_list,
        c \in NewAccounts :
       /\ RedelegateWholeStake(a, dst, c) =>
            RedelegateTold(redelegate_event(a, dst, {}, c, last_update(a)))
       /\ \A b \in NewAccounts : RedelegateSplitStake(a, dst, b, c) =>
            RedelegateTold(redelegate_event(a, dst, {b}, c,
              redelegate_amount(a, stake_accounts[a].voter, dst)))

ManagementEventsTell ==
  /\ \A v \in Validator, score \in Scores : AddValidator(v, score) =>
       LET e == add_validator_event(v, score)
       IN  e \in AddValidatorEvent /\ ScoreTold(e.validator, e.score)
  /\ \A v \in DOMAIN validator_list : RemoveValidator(v) =>
       LET e == remove_validator_event(v)
       IN  /\ e \in RemoveValidatorEvent
           /\ scores_of_validators' =
                Without(scores_of_validators, e.validator)
  /\ \A v \in DOMAIN validator_list, score \in Scores :
       SetValidatorScore(v, score) =>
         LET e == set_validator_score_event(v, score)
         IN  /\ e \in SetValidatorScoreEvent
             /\ scores_of_validators[e.validator] = e.score_change.old
             /\ ScoreTold(e.validator, e.score_change.new)

AdminEventsTell ==
  /\ \A params \in ConfigMarinadeParams, enabled \in BOOLEAN :
       ConfigMarinade(params, enabled) =>
         LET e == config_marinade_event(params, enabled)
         IN  /\ e \in ConfigMarinadeEvent /\ ChangesTold(e.changes)
             /\ EnabledTold(e.withdraw_stake_account_enabled_change)
  /\ \A params \in ConfigLpParams : ConfigLp(params) =>
       config_lp_event(params) \in ConfigLpEvent
         /\ ChangesTold(config_lp_event(params))
  /\ \A ready \in BOOLEAN : ChangeAuthority(ready) =>
       LET change == change_authority_event(ready).treasury_msol_account_change
       IN  treasury_ready = change.old /\ treasury_ready' = change.new
  /\ \A capacity \in Capacities :
       /\ ReallocStakeList(capacity) =>
            CapacityTold(realloc_stake_list_event(capacity),
                         "stake_list_capacity")
       /\ ReallocValidatorList(capacity) =>
            CapacityTold(realloc_validator_list_event(capacity),
                         "validator_list_capacity")

\* An event tells what its instruction did.  It captures some balances before
\* the instruction's changes and some after them; these and the amounts it
\* names give every balance, ticket, delegation and parameter as the
\* instruction leaves it, unless a slash, a payment to the reserve or a burn
\* came in behind the program.
EventsTellTheBooks ==
  [][HolderEventsTell /\ CrankEventsTell /\ ManagementEventsTell
       /\ AdminEventsTell]_vars
=============================================================================
