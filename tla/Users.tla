------------------------------- MODULE Users -------------------------------
(***************************************************************************)
(* The instructions of mSOL holders: instructions/user and                 *)
(* instructions/delayed_unstake.  The holders are one purse of lamports,   *)
(* mSOL and stake accounts: the program never asks which user acts.        *)
(***************************************************************************)
EXTENDS MarinadeState

CONSTANT WAIT_EPOCHS     \* claim.rs; 0 in this code

ASSUME UsersAssumption == WAIT_EPOCHS \in Nat

\* deposit.rs.  The liquidity pool sells its mSOL first, the rest is minted.
msol_swapped(lamports) == Lesser(calc_msol_from_lamports(lamports), msol_leg)

\* A variant: the pool is paid in full for the part it sells
sol_swapped_in_full(lamports) ==
  IF msol_swapped(lamports) = 0 THEN 0 ELSE lamports

sol_swapped(lamports) ==
  LET swapped == msol_swapped(lamports)
  IN  IF swapped = 0 THEN 0
      ELSE IF swapped = calc_msol_from_lamports(lamports) THEN lamports
      ELSE msol_to_sol(swapped)

Deposit(lamports) ==
  LET order == calc_msol_from_lamports(lamports)
      sol_deposited == lamports - sol_swapped(lamports)
  IN /\ ~ paused
     /\ lamports >= config.min_deposit
     /\ lamports <= outside_sol
     /\ mint_supply <= msol_supply
     /\ sol_deposited >= 0
     /\ sol_deposited > 0 => check_staking_cap(sol_deposited)
     /\ outside_sol' = outside_sol - lamports
     /\ sol_leg_pda' = sol_leg_pda + sol_swapped(lamports)
     /\ msol_leg' = msol_leg - msol_swapped(lamports)
     /\ on_transfer_to_reserve(sol_deposited)
     /\ user_msol' = user_msol + order
     /\ msol_supply' = msol_supply + (order - msol_swapped(lamports))
     /\ UNCHANGED <<ticketVars, coolingVars, movedVars, deltaVars, stakeVars,
                    validatorVars, treasury_msol, lp_supply, user_lp,
                    adminVars, phase>>

\* A variant: without regard to the pause
DepositStakeAccountAllowed_paused(a) ==
  LET native == stake_accounts[a]
  IN /\ mint_supply <= msol_supply
     /\ is_active(a)
     /\ native.stake >= min_stake
     /\ native.balance = native.stake
     /\ check_staking_cap(native.stake)
     /\ native.voter \in DOMAIN validator_list
     /\ native.owner = "user"

\* deposit_stake_account.rs.  Whatever an account holds above its delegation
\* has to be withdrawn first.
DepositStakeAccountAllowed(a) ==
  LET native == stake_accounts[a]
  IN /\ ~ paused
     /\ mint_supply <= msol_supply
     /\ is_active(a)
     /\ native.stake >= min_stake
     /\ native.balance = native.stake
     /\ check_staking_cap(native.stake)
     /\ native.voter \in DOMAIN validator_list
     /\ native.owner = "user"

DepositStakeAccount(a) ==
  LET native == stake_accounts[a]
      v == native.voter
      msol_minted == calc_msol_from_lamports(native.stake)
  IN /\ DepositStakeAccountAllowed(a)
     /\ validator_list' =
          [validator_list EXCEPT ![v].active_balance = @ + native.stake]
     /\ stake_accounts' = [stake_accounts EXCEPT ![a].owner = "marinade"]
     /\ add_stake(a, native.stake, 0)
     /\ user_msol' = user_msol + msol_minted
     /\ msol_supply' = msol_supply + msol_minted
     /\ total_active_balance' = total_active_balance + native.stake
     /\ UNCHANGED <<reserveVars, ticketVars, coolingVars, movedVars,
                    deltaVars, total_validator_score, treasury_msol,
                    poolVars, adminVars, worldVars>>

\* withdraw_stake_account.rs: a part of stake account a leaves as the user's
\* stake account b.  The fee goes to the treasury as mSOL, if it takes any.
split_lamports(msol_amount) ==
  LET sol_value == msol_to_sol(msol_amount)
  IN  sol_value - FeeCentsApply(config.withdraw_stake_account_fee, sol_value)

withdraw_msol_fees(msol_amount) ==
  IF treasury_ready
    THEN Monus(msol_amount,
               calc_msol_from_lamports(split_lamports(msol_amount)))
    ELSE 0

WithdrawStakeAccountAllowed(a, msol_amount) ==
  LET v == stake_accounts[a].voter
      lamports == split_lamports(msol_amount)
  IN /\ ~ paused
     /\ withdraw_stake_account_enabled
     /\ msol_amount <= user_msol
     /\ stake_list[a].is_emergency_unstaking = 0
     /\ is_active(a)
     /\ v \in DOMAIN validator_list
     /\ check_stake_amount_and_validator(a, v)
     /\ msol_to_sol(msol_amount) >= config.min_withdraw
     /\ lamports >= min_stake
     /\ last_update(a) >= lamports + min_stake

WithdrawStakeAccount(a, b, msol_amount) ==
  LET v == stake_accounts[a].voter
      lamports == split_lamports(msol_amount)
      msol_fees == withdraw_msol_fees(msol_amount)
      msol_burned == msol_amount - msol_fees
  IN /\ WithdrawStakeAccountAllowed(a, msol_amount)
     /\ lamports <= validator_list[v].active_balance
     /\ lamports <= total_active_balance
     /\ msol_burned <= msol_supply
     /\ split(a, b, lamports,
              new_stake_account(v, lamports, stake_accounts[a].status,
                                "user"))
     /\ user_msol' = user_msol - msol_amount
     /\ treasury_msol' = treasury_msol + msol_fees
     /\ msol_supply' = msol_supply - msol_burned
     /\ stake_list' = reduced(a, lamports)
     /\ validator_list' =
          [validator_list EXCEPT ![v].active_balance = @ - lamports]
     /\ total_active_balance' = total_active_balance - lamports
     /\ UNCHANGED <<reserveVars, ticketVars, coolingVars, movedVars,
                    deltaVars, total_validator_score, poolVars, adminVars,
                    phase>>

---------------------------------------------------------------------------
(* delayed_unstake                                                         *)

\* A variant: the count is forgotten
issue_ticket_uncounted(t, lamports) ==
  /\ circulating_ticket_balance' = circulating_ticket_balance + lamports
  /\ UNCHANGED circulating_ticket_count
  /\ tickets' = Put(tickets, t,
       [lamports_amount |-> lamports, created_epoch |-> 0])

\* After stake-delta has run, the lamports for a ticket are unstaked in the
\* next epoch only.
issue_ticket(t, lamports) ==
  /\ circulating_ticket_balance' = circulating_ticket_balance + lamports
  /\ circulating_ticket_count' = circulating_ticket_count + 1
  /\ tickets' = Put(tickets, t,
       [lamports_amount |-> lamports,
        created_epoch |-> IF stake_delta_ran THEN 1 ELSE 0])

\* A variant: a ticket stays in the balance after it is paid
close_ticket_unbalanced(t, lamports) ==
  /\ circulating_ticket_count > 0
  /\ circulating_ticket_count' = circulating_ticket_count - 1
  /\ tickets' = Without(tickets, t)
  /\ UNCHANGED circulating_ticket_balance

close_ticket(t, lamports) ==
  /\ lamports <= circulating_ticket_balance
  /\ circulating_ticket_count > 0
  /\ circulating_ticket_balance' = circulating_ticket_balance - lamports
  /\ circulating_ticket_count' = circulating_ticket_count - 1
  /\ tickets' = Without(tickets, t)

\* order_unstake.rs
lamports_for_user(msol_amount) ==
  LET sol_value == msol_to_sol(msol_amount)
  IN  sol_value - FeeCentsApply(config.delayed_unstake_fee, sol_value)

OrderUnstake(t, msol_amount) ==
  /\ ~ paused
  /\ msol_amount <= user_msol
  /\ lamports_for_user(msol_amount) >= config.min_withdraw
  /\ t \notin DOMAIN tickets
  /\ msol_amount <= msol_supply
  /\ issue_ticket(t, lamports_for_user(msol_amount))
  /\ user_msol' = user_msol - msol_amount
  /\ msol_supply' = msol_supply - msol_amount
  /\ UNCHANGED <<reserveVars, coolingVars, movedVars, deltaVars, stakeVars,
                 validatorVars, treasury_msol, poolVars, adminVars,
                 worldVars>>

\* claim.rs, check_ticket_account
TicketReady(t) ==
  /\ tickets[t].lamports_amount # 0
  /\ tickets[t].created_epoch + WAIT_EPOCHS <= 0
  /\ tickets[t].created_epoch + WAIT_EPOCHS = 0 => phase # "start"

\* claim.rs.  The real reserve decides whether the ticket can be paid, the
\* virtual one is debited too; the ticket account is closed.
Claim(t) ==
  LET lamports == tickets[t].lamports_amount
  IN /\ ~ paused
     /\ TicketReady(t)
     /\ lamports <= reserve_pda - TokenRent
     /\ close_ticket(t, lamports)
     /\ on_transfer_from_reserve(lamports)
     /\ outside_sol' = outside_sol + lamports
     /\ UNCHANGED <<coolingVars, movedVars, deltaVars, stakeVars,
                    validatorVars, mintVars, poolVars, adminVars, phase>>
---------------------------------------------------------------------------

StakeAccountsNext ==
  \/ \E a \in DOMAIN stake_accounts : DepositStakeAccount(a)
  \/ \E a \in DOMAIN stake_list, b \in StakeAccount, m \in Lamports :
       WithdrawStakeAccount(a, b, m)

UsersNext ==
  \/ \E l \in Lamports : Deposit(l)
  \/ StakeAccountsNext
  \/ \E t \in Ticket, m \in Lamports : OrderUnstake(t, m)
  \/ \E t \in DOMAIN tickets : Claim(t)
===========================================================================
