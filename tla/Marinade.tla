------------------------------ MODULE Marinade -----------------------------
(***************************************************************************)
(* The whole program: every instruction of lib.rs, with the chain around   *)
(* it, and the properties that make it correct.                            *)
(***************************************************************************)
EXTENDS Users, LiquidityPool, Crank, Management, Admin, Solana

\* The instructions, with the clock and the stakers around them
ProgramNext ==
  \/ UsersNext
  \/ LiquidityPoolNext
  \/ CrankNext
  \/ RedelegateNext
  \/ UnstakeNext
  \/ ValidatorsNext
  \/ AdminNext
  \/ ClockNext
  \/ StakersNext

\* and with whoever pays the reserve or burns tokens
UnslashedNext == ProgramNext \/ UnbookedNext

Next == UnslashedNext \/ SlashNext

Spec == Init /\ [][Next]_vars

\* Parts of it, for properties that a slash or an unbooked change may break
ProgramSpec == Init /\ [][ProgramNext]_vars
BookedSpec == Init /\ [][ProgramNext \/ SlashNext]_vars
UnslashedSpec == Init /\ [][UnslashedNext]_vars

---------------------------------------------------------------------------
(* Type invariant                                                          *)

AdminTypes ==
  /\ config \in Config
  /\ withdraw_stake_account_enabled \in BOOLEAN
  /\ treasury_ready \in BOOLEAN /\ paused \in BOOLEAN

ReserveTypes == available_reserve_balance \in Nat /\ reserve_pda \in Nat

MintTypes ==
  msol_supply \in Nat /\ user_msol \in Nat /\ treasury_msol \in Nat

TicketTypes ==
  /\ circulating_ticket_count \in Nat /\ circulating_ticket_balance \in Nat
  /\ DOMAIN tickets \subseteq Ticket
  /\ tickets \in [DOMAIN tickets -> TicketAccountData]

CoolingTypes ==
  delayed_unstake_cooling_down \in Nat /\ emergency_cooling_down \in Nat

MovedTypes == stake_moved \in Nat /\ stake_move_is_current \in BOOLEAN

DeltaTypes == stake_delta_ran \in BOOLEAN /\ extra_stake_delta_runs \in Nat

StakeTypes ==
  /\ DOMAIN stake_accounts \subseteq StakeAccount
  /\ stake_accounts \in [DOMAIN stake_accounts -> NativeStake]
  /\ DOMAIN stake_list \subseteq DOMAIN stake_accounts
  /\ stake_list \in [DOMAIN stake_list -> StakeRecord]

ValidatorTypes ==
  /\ DOMAIN validator_list \subseteq Validator
  /\ validator_list \in [DOMAIN validator_list -> ValidatorRecord]
  /\ total_validator_score \in Nat /\ total_active_balance \in Nat

PoolTypes ==
  /\ sol_leg_pda \in Nat /\ msol_leg \in Nat
  /\ lp_supply \in Nat /\ user_lp \in Nat

WorldTypes == outside_sol \in Nat /\ phase \in Phases

\* Every variable has its type; the keys of the maps are addresses, and a
\* stake record is of a stake account that exists.
TypeOK ==
  /\ AdminTypes /\ ReserveTypes /\ MintTypes /\ TicketTypes /\ CoolingTypes
  /\ MovedTypes /\ DeltaTypes /\ StakeTypes /\ ValidatorTypes /\ PoolTypes
  /\ WorldTypes

---------------------------------------------------------------------------
(* The counters of State agree with the records they summarise             *)

ticket_amounts == [t \in DOMAIN tickets |-> tickets[t].lamports_amount]

\* circulating_ticket_balance and circulating_ticket_count are the sum and
\* the number of the tickets that exist: claim.rs warns that "if
\* circulating_ticket_balance = sum(ticket.balance) is violated we can have a
\* problem", for stake_delta unstakes what the counter says.
TicketsAreCounted ==
  /\ circulating_ticket_balance = Total(ticket_amounts)
  /\ circulating_ticket_count = Cardinality(DOMAIN tickets)

ActiveRecords(v) ==
  {a \in DOMAIN stake_list : is_active(a) /\ stake_accounts[a].voter = v}

CoolingRecords(emergency) ==
  {a \in DOMAIN stake_list :
     /\ ~ is_active(a)
     /\ stake_list[a].is_emergency_unstaking = emergency}

ActiveStakeIsCounted ==
  /\ total_active_balance = Total(balance_of_validators)
  /\ \A v \in Validator :
       Total(delegated(ActiveRecords(v))) =
         IF v \in DOMAIN validator_list THEN validator_list[v].active_balance
                                        ELSE 0

CoolingIsCounted ==
  /\ delayed_unstake_cooling_down = Total(delegated(CoolingRecords(0)))
  /\ emergency_cooling_down = Total(delegated(CoolingRecords(1)))

\* A validator's active_balance is the sum of the delegations last seen in
\* its accounts that are not being deactivated, through every split, merge,
\* redelegation and update, and total_active_balance is the sum over the
\* validators: a validator is never removed with stake of the program.  The
\* two cooling counters are the sums over the deactivating accounts of the
\* two kinds, so that update_deactivated can always subtract its record.
StakeIsCounted == ActiveStakeIsCounted /\ CoolingIsCounted

scores_of_validators ==
  [v \in DOMAIN validator_list |-> validator_list[v].score]

\* total_validator_score is the sum of the scores: a validator's target is
\* its share of this sum.
ScoresAreCounted == total_validator_score = Total(scores_of_validators)

---------------------------------------------------------------------------
(* The books against what the accounts really hold                         *)

\* The virtual reserve is never above the real one and the virtual supplies
\* never below the real ones: the "impossible to happen" warnings of
\* update.rs, deposit.rs and add_liquidity.rs are impossible.
BooksAreConservative ==
  /\ available_reserve_balance + TokenRent <= reserve_pda
  /\ mint_supply <= msol_supply
  /\ user_lp <= lp_supply
  /\ sol_leg_pda >= TokenRent

\* As long as nobody pays the reserve or burns tokens behind the program, the
\* virtual reserve and the virtual supplies are the real ones in every state:
\* no instruction moves lamports or tokens on one side only, and an update
\* finds nothing to align.
BooksAreExact ==
  /\ available_reserve_balance + TokenRent = reserve_pda
  /\ mint_supply = msol_supply
  /\ user_lp = lp_supply

\* Unless a stake is slashed, an account holds the lamports that the books
\* count for it, whatever was split off, merged or redelegated.
StakeIsBacked ==
  \A a \in DOMAIN stake_list :
    /\ stake_accounts[a].owner = "marinade"
    /\ last_update(a) <= stake_accounts[a].balance

\* Unless a stake is slashed, the tickets never exceed what is under control,
\* so total_virtual_staked_lamports never saturates.
TicketsAreCovered ==
  circulating_ticket_balance <= total_lamports_under_control

---------------------------------------------------------------------------
(* What a step may never do                                                *)

\* How much the price falls in a step, in lamports times mSOL
price_loss ==
  total_virtual_staked_lamports * msol_supply'
    - total_virtual_staked_lamports' * msol_supply

\* Unless a stake is slashed, nothing lowers the price of mSOL while somebody
\* holds some: every rounding is in favour of the holders who stay, and burnt
\* tokens or lamports paid to the reserve only raise it.  The exception is a
\* withdrawn stake account, whose fee is rounded up for the treasury: the
\* holders then lose less than the value of one mSOL unit.
MsolPriceNeverFalls ==
  [][mint_supply > 0 /\ msol_supply' > 0 =>
       \/ price_loss <= 0
       \/ /\ total_active_balance' < total_active_balance
          /\ msol_supply' <= msol_supply
          /\ price_loss < total_virtual_staked_lamports]_vars

\* The holders' view of the program
Holders == INSTANCE Vault WITH
  value  <- total_virtual_staked_lamports,
  shares <- msol_supply,
  owed   <- circulating_ticket_balance

\* Unless a stake is slashed, or lamports are paid and tokens burnt behind the
\* program, every step is one of the vault or leaves it alone: what is promised
\* to one holder is taken from the value and later paid from it, and no step but
\* a rounded withdrawal costs the others.
ImplementsVault == Holders!VaultSpec

\* Of what a stake account has earned, the treasury mints itself no more than
\* the reward fee at the price before, although it charges the lamports and
\* the growth of the delegation one after the other at two prices.
TheTreasuryTakesItsShare ==
  [][treasury_msol' > treasury_msol /\ user_msol' = user_msol
        /\ mint_supply > 0 =>
       LET fees == treasury_msol' - treasury_msol
           gain == total_virtual_staked_lamports'
                     - total_virtual_staked_lamports
       IN  fees * total_virtual_staked_lamports * MAX_BASIS_POINTS
             <= config.reward_fee * gain * mint_supply]_vars

\* The tickets are what is unstaked for: after a deactivate_stake command the
\* reserve and what cools down for it exceed them by less than two min_stake,
\* the account that may not be left behind, however many commands were run.
UnstakesLittleTooMuch ==
  [][delayed_unstake_cooling_down' > delayed_unstake_cooling_down =>
       Monus(reserve_pda', TokenRent) + delayed_unstake_cooling_down'
         < circulating_ticket_balance' + 2 * min_stake]_vars

\* stake_reserve takes nothing that the tickets need: what stays in the
\* reserve or is cooling down for them covers them all.
StakesOnlyTheSurplus ==
  [][total_active_balance' > total_active_balance /\ reserve_pda' < reserve_pda
       => circulating_ticket_balance' <=
            Monus(reserve_pda', TokenRent) + delayed_unstake_cooling_down']_vars

\* A step that stakes from the reserve, redelegates, or unstakes for the manager
StakeIsPlaced ==
  \/ reserve_pda' < reserve_pda /\ total_active_balance' > total_active_balance
  \/ stake_move_is_current' /\ movedVars' # movedVars

\* stake_reserve, redelegate and the two unstake instructions of the manager
\* move a validator towards its target, and past it by less than min_stake:
\* the remainder they may not leave behind.
StaysNearTarget ==
  [][StakeIsPlaced =>
       \A v \in DOMAIN validator_list :
         LET target ==
               validator_stake_target(v, total_active_balance + stake_delta)
             before == validator_list[v].active_balance
             after == validator_list'[v].active_balance
         IN  /\ after > before => after < target + min_stake
             /\ after < before => after > target - min_stake]_vars

\* Lamports that leave a validator without a ticket or a user to ask for them:
\* they go to another validator or to the emergency cooling.
MovedFrom(v) ==
  IF /\ v \in DOMAIN validator_list'
     /\ total_active_balance' + emergency_cooling_down'
          = total_active_balance + emergency_cooling_down
    THEN Monus(validator_list[v].active_balance,
               validator_list'[v].active_balance)
    ELSE 0

\* Whatever redelegate and the unstake instructions really take from a
\* validator, whole accounts with the remainder that may not be left behind
\* included, is counted for the epoch it is taken in, and what is counted
\* never passes the cap of that moment; within the epoch nothing is forgotten.
MovesAreCapped ==
  [][/\ \A v \in DOMAIN validator_list : MovedFrom(v) > 0 =>
          /\ stake_move_is_current'
          /\ stake_moved' = MovedFrom(v)
               + (IF stake_move_is_current THEN stake_moved ELSE 0)
          /\ stake_moved' <= FeeApply(config.max_stake_moved_per_epoch,
                                     total_lamports_under_control)
     /\ stake_move_is_current' => stake_moved' >= stake_moved
          \/ ~ stake_move_is_current]_vars

\* The liquidity of one LP token, in lamports, never falls: those who add,
\* remove or use liquidity pay for every rounding, up to the lamport that the
\* value of the mSOL leg is rounded by when some of it leaves.  Where the price
\* of mSOL falls, by the rounding that MsolPriceNeverFalls allows, the pool
\* loses no more than one mSOL unit is worth, rounded up.
LpPriceNeverFalls ==
  [][user_lp > 0 /\ user_lp' > 0 =>
       LET loss == total_liq_pool_value * user_lp'
                     - total_liq_pool_value' * user_lp
       IN  \/ loss <= 0
           \/ /\ msol_leg' < msol_leg /\ user_lp' < user_lp
              /\ loss < user_lp
           \/ /\ price_loss > 0 /\ UNCHANGED poolVars
              /\ total_liq_pool_value - total_liq_pool_value'
                   <= msol_to_sol(1) + 1]_vars

\* The pool pays for an instant unstake no more than a delayed one is worth
\* less the minimum fee, wherever on the slope of the fee the pool is left.
UnstakeNowCostsTheFee ==
  [][sol_leg_pda' < sol_leg_pda /\ user_msol' < user_msol =>
       LET msol_amount == user_msol - user_msol'
           msol_fee == FeeApply(config.lp_min_fee, msol_amount)
       IN  sol_leg_pda - sol_leg_pda' <= msol_to_sol(msol_amount - msol_fee)
      ]_vars

\* However the admin combines the optional arguments of the two config
\* instructions, the fees stay under the limits of State and LiqPool.
ConfigWithinLimits ==
  /\ ValidLiqPool(config)
  /\ config.reward_fee <= MAX_REWARD_FEE
  /\ config.min_stake >= MIN_STAKE_LOWER_LIMIT
  /\ config.min_withdraw <= MAX_WITHDRAW_ATOM
  /\ config.delayed_unstake_fee <= MAX_DELAYED_UNSTAKE_FEE
  /\ config.withdraw_stake_account_fee <= MAX_WITHDRAW_STAKE_ACCOUNT_FEE

\* While the program is paused no instruction touches a balance, a ticket, a
\* record or a token; only the chain goes on.
PauseStopsTheBooks ==
  [][paused => UNCHANGED
       <<available_reserve_balance, circulating_ticket_balance,
         circulating_ticket_count, coolingVars, stake_list,
         total_active_balance, total_validator_score, msol_supply, lp_supply,
         sol_leg_pda, msol_leg, treasury_msol, stake_moved>>]_vars

===========================================================================
