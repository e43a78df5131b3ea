--------------------------- MODULE MarinadeState ---------------------------
(***************************************************************************)
(* The accounts of the program and the methods of its State account.       *)
(*                                                                         *)
(* An instruction is atomic: the runtime serialises transactions that      *)
(* write the State account, and rolls every effect back when a check fails *)
(* or checked arithmetic panics (Cargo.toml: overflow-checks).  So every   *)
(* instruction is one action of a module that extends this one, and a      *)
(* failure is a step that is not taken.                                    *)
(*                                                                         *)
(* The code compares an epoch only with the current one, so epochs are     *)
(* relative: last_stake_delta_epoch, for one, is the flag that it equals   *)
(* clock.epoch, and NextEpoch (Solana.tla) lowers the flags.               *)
(***************************************************************************)
EXTENDS Calc, Totals

CONSTANTS
  Validator,          \* vote accounts
  StakeAccount,       \* addresses of stake accounts
  Ticket,             \* addresses of delayed-unstake tickets
  TokenRent,          \* State.rent_exempt_for_token_acc
  StakeRent,          \* rent_exempt_reserve of a stake account
  MAX_REWARD_FEE, MAX_DELAYED_UNSTAKE_FEE, MAX_WITHDRAW_STAKE_ACCOUNT_FEE,
  MIN_STAKE_LOWER_LIMIT, MAX_WITHDRAW_ATOM,          \* limits of State
  MAX_FEE, MIN_LIQUIDITY_TARGET, MAX_TREASURY_CUT,   \* limits of LiqPool
  InitializeData,     \* the arguments of initialize: a set of records
  InitialSol,         \* the lamports users start with: a set of naturals
  Lamports            \* the amounts a caller names: a finite set

VARIABLES
  \* State: what config_marinade, config_lp and the realloc instructions set
  config, withdraw_stake_account_enabled,
  treasury_ready,             \* treasury_msol_account is a mSOL account
  paused,
  \* State: balances
  available_reserve_balance, msol_supply,
  circulating_ticket_count, circulating_ticket_balance,
  emergency_cooling_down,
  stake_moved, stake_move_is_current,    \* last_stake_move_epoch = epoch
  \* StakeSystem
  stake_list,                 \* address -> StakeRecord
  delayed_unstake_cooling_down,
  stake_delta_ran,            \* last_stake_delta_epoch = clock.epoch
  extra_stake_delta_runs,
  \* ValidatorSystem
  validator_list,             \* vote account -> ValidatorRecord
  total_validator_score, total_active_balance,
  \* LiqPool
  lp_supply,
  \* accounts of the chain the instructions read and write
  reserve_pda,                \* lamports, rent included
  sol_leg_pda,                \* lamports, rent included
  msol_leg, treasury_msol, user_msol, user_lp,       \* token amounts
  tickets,                    \* address -> TicketAccountData
  stake_accounts,             \* address -> native stake account
  outside_sol,                \* lamports users and the cluster can pay
  phase                       \* the part of the epoch the clock is in

reserveVars   == <<available_reserve_balance, reserve_pda>>
ticketVars    == <<circulating_ticket_count, circulating_ticket_balance,
                   tickets>>
coolingVars   == <<delayed_unstake_cooling_down, emergency_cooling_down>>
movedVars     == <<stake_moved, stake_move_is_current>>
deltaVars     == <<stake_delta_ran, extra_stake_delta_runs>>
stakeVars     == <<stake_list, stake_accounts>>
validatorVars == <<validator_list, total_validator_score,
                   total_active_balance>>
mintVars      == <<msol_supply, user_msol, treasury_msol>>
poolVars      == <<sol_leg_pda, msol_leg, lp_supply, user_lp>>
adminVars     == <<config, withdraw_stake_account_enabled, treasury_ready,
                   paused>>
worldVars     == <<outside_sol, phase>>

vars == <<reserveVars, ticketVars, coolingVars, movedVars, deltaVars,
          stakeVars, validatorVars, mintVars, poolVars, adminVars, worldVars>>

---------------------------------------------------------------------------
(* The records                                                             *)

Nothing == [x \in {} |-> 0]

Phases == {"start",      \* less than EXTRA_WAIT_SECONDS into the epoch
           "open",
           "window"}     \* the last slots_for_stake_delta slots

\* Whole delegations activate and deactivate at an epoch boundary.
Statuses == {"activating", "active", "deactivating", "inactive"}

\* stake and balance leave the rent reserve out; balance is what the account
\* holds, stake what is delegated.
NativeStake == [voter : Validator, stake : Nat, balance : Nat,
                status : Statuses, owner : {"marinade", "user"}]

StakeRecord == [last_update_delegated_lamports : Nat,
                is_emergency_unstaking : {0, 1}]

\* ran: last_stake_delta_epoch = clock.epoch
ValidatorRecord == [active_balance : Nat, score : Nat, ran : BOOLEAN]

\* created_epoch - clock.epoch: -1 stands for every earlier epoch
TicketAccountData == [lamports_amount : Nat, created_epoch : {-1, 0, 1}]

\* ValidatorRecord::new
new_validator(score) == [active_balance |-> 0, score |-> score, ran |-> FALSE]

ConfigFields == {"reward_fee", "min_stake", "min_deposit", "min_withdraw",
  "staking_sol_cap", "delayed_unstake_fee", "withdraw_stake_account_fee",
  "max_stake_moved_per_epoch", "liquidity_sol_cap", "lp_liquidity_target",
  "lp_max_fee", "lp_min_fee", "treasury_cut", "stake_list_capacity",
  "validator_list_capacity"}

Config == [ConfigFields -> Nat]

ASSUME StateAssumption ==
  /\ IsFiniteSet(Validator) /\ IsFiniteSet(StakeAccount)
  /\ IsFiniteSet(Ticket)
  /\ TokenRent \in Nat /\ StakeRent \in Nat
  /\ MIN_STAKE_LOWER_LIMIT \in Nat \ {0} /\ MAX_WITHDRAW_ATOM \in Nat \ {0}
  /\ {MAX_REWARD_FEE, MAX_DELAYED_UNSTAKE_FEE,
      MAX_WITHDRAW_STAKE_ACCOUNT_FEE, MAX_FEE, MIN_LIQUIDITY_TARGET,
      MAX_TREASURY_CUT} \subseteq Nat
  /\ MAX_REWARD_FEE <= MAX_BASIS_POINTS
  /\ MAX_DELAYED_UNSTAKE_FEE <= MAX_BP_CENTS
  /\ MAX_WITHDRAW_STAKE_ACCOUNT_FEE <= MAX_BP_CENTS
  /\ InitializeData \subseteq Config
  /\ InitialSol \subseteq Nat
  /\ Lamports \subseteq 0 .. U64 - 1      \* arguments of instructions: u64

---------------------------------------------------------------------------
(* initialize.rs.  The instruction's arguments and the sizes of the two    *)
(* list accounts are a record of InitializeData.                           *)

\* LiqPool::validate
ValidLiqPool(c) ==
  /\ FeeCheck(c.lp_min_fee) /\ FeeCheck(c.lp_max_fee)
  /\ FeeCheck(c.treasury_cut)
  /\ c.lp_max_fee <= MAX_FEE
  /\ c.lp_max_fee >= c.lp_min_fee
  /\ c.lp_liquidity_target >= MIN_LIQUIDITY_TARGET
  /\ c.treasury_cut <= MAX_TREASURY_CUT

InitialConfig(d) ==
  [f \in ConfigFields |->
     CASE f \in {"min_deposit", "min_withdraw"} -> 1
       [] f \in {"staking_sol_cap", "liquidity_sol_cap"} -> U64 - 1
       [] f \in {"delayed_unstake_fee", "withdraw_stake_account_fee"} -> 0
       [] f = "max_stake_moved_per_epoch" -> MAX_BASIS_POINTS
       [] OTHER -> d[f]]

\* The books before the first deposit, with the given configuration and
\* validators (vote account -> score)
EmptyBooks(c, scores) ==
  /\ config = c
  /\ treasury_ready = TRUE /\ paused = FALSE
  /\ available_reserve_balance = 0 /\ reserve_pda = TokenRent
  /\ msol_supply = 0 /\ user_msol = 0 /\ treasury_msol = 0
  /\ circulating_ticket_count = 0 /\ circulating_ticket_balance = 0
  /\ tickets = Nothing
  /\ emergency_cooling_down = 0 /\ delayed_unstake_cooling_down = 0
  /\ stake_moved = 0 /\ stake_move_is_current = FALSE
  /\ stake_delta_ran = FALSE /\ extra_stake_delta_runs = 0
  /\ stake_list = Nothing /\ stake_accounts = Nothing
  /\ validator_list = [v \in DOMAIN scores |-> new_validator(scores[v])]
  /\ total_validator_score = Total(scores) /\ total_active_balance = 0
  /\ lp_supply = 0 /\ user_lp = 0
  /\ sol_leg_pda = TokenRent /\ msol_leg = 0

Initialize(d) ==
  /\ d.reward_fee <= MAX_REWARD_FEE
  /\ d.min_stake >= MIN_STAKE_LOWER_LIMIT
  /\ ValidLiqPool(d)
  /\ EmptyBooks(InitialConfig(d), Nothing)
  /\ withdraw_stake_account_enabled = FALSE

Init ==
  /\ \E d \in InitializeData : Initialize(d)
  /\ phase = "start"
  /\ outside_sol \in InitialSol

---------------------------------------------------------------------------
(* The methods of State (state/mod.rs)                                     *)

total_cooling_down == delayed_unstake_cooling_down + emergency_cooling_down

total_lamports_under_control ==
  total_active_balance + total_cooling_down + available_reserve_balance

check_staking_cap(transfering_lamports) ==
  total_lamports_under_control + transfering_lamports
    <= config.staking_sol_cap

\* A variant: the tickets still count for the holders of mSOL
total_virtual_with_tickets == total_lamports_under_control

total_virtual_staked_lamports ==
  Monus(total_lamports_under_control, circulating_ticket_balance)

\* A variant: rounded up for the depositor
calc_msol_rounded_up(lamports) ==
  shares_from_value(lamports, total_virtual_staked_lamports, msol_supply) + 1

calc_msol_from_lamports(lamports) ==
  shares_from_value(lamports, total_virtual_staked_lamports, msol_supply)

msol_to_sol(msol_amount) ==
  value_from_shares(msol_amount, total_virtual_staked_lamports, msol_supply)

\* Two variants: the tickets are not put aside; what cools down for them is
\* unstaked again
stake_delta_ignoring_tickets ==
  Monus(reserve_pda, TokenRent) + delayed_unstake_cooling_down

stake_delta_ignoring_cooling ==
  Monus(reserve_pda, TokenRent) - circulating_ticket_balance

\* What is to be staked (positive) or unstaked (negative), seen from the real
\* reserve.  Emergency cooling may cover a shortage and never adds to stake.
stake_delta ==
  LET raw == Monus(reserve_pda, TokenRent) + delayed_unstake_cooling_down
               - circulating_ticket_balance
  IN  IF raw >= 0 THEN raw ELSE Lesser(raw + emergency_cooling_down, 0)

on_transfer_to_reserve(amount) ==
  /\ available_reserve_balance' = available_reserve_balance + amount
  /\ reserve_pda' = reserve_pda + amount

\* A variant: the books go below zero
on_transfer_unchecked(amount) ==
  /\ available_reserve_balance' = available_reserve_balance - amount
  /\ reserve_pda' = reserve_pda - amount

\* A variant: only the account pays
on_transfer_unbooked(amount) ==
  /\ amount <= reserve_pda
  /\ UNCHANGED available_reserve_balance
  /\ reserve_pda' = reserve_pda - amount

\* The account pays from its real balance, the books from the virtual one;
\* checked arithmetic refuses either underflow.
on_transfer_from_reserve(amount) ==
  /\ amount <= available_reserve_balance /\ amount <= reserve_pda
  /\ available_reserve_balance' = available_reserve_balance - amount
  /\ reserve_pda' = reserve_pda - amount

\* A variant: the count of an earlier epoch is never forgotten
on_stake_moved_for_good(amount) ==
  /\ stake_moved + amount <= FeeApply(config.max_stake_moved_per_epoch,
                                      total_lamports_under_control)
  /\ stake_moved' = stake_moved + amount
  /\ stake_move_is_current' = TRUE

\* The moved stake counts against the cap of the total under control before
\* the instruction updates its own counters.
on_stake_moved(amount) ==
  LET moved == (IF stake_move_is_current THEN stake_moved ELSE 0) + amount
  IN  /\ moved <= FeeApply(config.max_stake_moved_per_epoch,
                           total_lamports_under_control)
      /\ stake_moved' = moved
      /\ stake_move_is_current' = TRUE

\* The supply of the mSOL mint: msol_supply may be above it, for holders may
\* burn their tokens.
mint_supply == user_msol + treasury_msol + msol_leg

---------------------------------------------------------------------------
(* The two lists (state/stake_system.rs, state/validator_system.rs), keyed *)
(* by address: every lookup compares the address stored at the index the   *)
(* caller names with the account it passes (get_checked), and SwapList.tla *)
(* shows that a swap-remove keeps exactly the other addresses.             *)

min_stake == config.min_stake

new_stake_record(lamports, emergency) ==
  [last_update_delegated_lamports |-> lamports,
   is_emergency_unstaking |-> emergency]

\* StakeSystem::add, with a stake account that has just got its address
add_stake(account, lamports, emergency) ==
  /\ account \notin DOMAIN stake_list
  /\ Cardinality(DOMAIN stake_list) < config.stake_list_capacity
  /\ stake_list' = Put(stake_list, account,
                       new_stake_record(lamports, emergency))

\* A variant: the record of the account that is split stays as it was
not_reduced(a, lamports) == stake_list

\* The list after `lamports` have left account a, and after they have gone to
\* a new account b that is deactivated
reduced(a, lamports) ==
  [stake_list EXCEPT ![a].last_update_delegated_lamports = @ - lamports]

with_split(a, b, lamports, emergency) ==
  Put(reduced(a, lamports), b, new_stake_record(lamports, emergency))

validator_stake_target(v, total_stake_target) ==
  IF total_validator_score = 0
    THEN 0
    ELSE proportional(total_stake_target, validator_list[v].score,
                      total_validator_score)

\* The sum of a field over the validators, and of the delegations over a set
\* of stake records
balance_of_validators ==
  [v \in DOMAIN validator_list |-> validator_list[v].active_balance]

delegated(accounts) ==
  [a \in accounts |-> stake_list[a].last_update_delegated_lamports]

---------------------------------------------------------------------------
(* Native stake accounts (the stake program, external).                    *)

is_active(a)      == stake_accounts[a].status \in {"activating", "active"}
last_update(a)    == stake_list[a].last_update_delegated_lamports

\* A record of the list for which the account still is what it was at the
\* last update (checks.rs: check_stake_amount_and_validator)
check_stake_amount_and_validator(a, v) ==
  /\ stake_accounts[a].voter = v
  /\ stake_accounts[a].stake = last_update(a)

new_stake_account(v, lamports, status, owner) ==
  [voter |-> v, stake |-> lamports, balance |-> lamports,
   status |-> status, owner |-> owner]

\* Whoever sends a transaction pays the rent of the n stake accounts that it
\* creates.
pay_rent(n) ==
  /\ n * StakeRent <= outside_sol
  /\ outside_sol' = outside_sol - n * StakeRent

\* stake::instruction::split: `lamports` of account a, delegation included,
\* become the account b, whose state `native` is in the end.
split(a, b, lamports, native) ==
  /\ b \notin DOMAIN stake_accounts
  /\ lamports <= stake_accounts[a].balance
  /\ stake_accounts' =
       Put([stake_accounts EXCEPT ![a].stake = @ - lamports,
                                  ![a].balance = @ - lamports], b, native)
  /\ pay_rent(1)

\* stake::instruction::deactivate_stake: a delegation that never became
\* effective has nothing to cool down.
deactivated(native) ==
  [native EXCEPT !.status = IF @ = "activating" THEN "inactive"
                                                ELSE "deactivating"]
===========================================================================
