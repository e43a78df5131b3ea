--------------------------- MODULE MarinadeProofs --------------------------
(***************************************************************************)
(* The type invariant of Marinade, the limits of its configuration and the *)
(* order between its books and the accounts, for all constants.            *)
(*                                                                         *)
(* The three need each other: an amount that is subtracted is a natural    *)
(* number because the fees are within their limits and because the pool    *)
(* keeps its rent.  IInv is their conjunction, and it is inductive: there  *)
(* is one lemma for each instruction, and in it one step for each group of *)
(* variables that the instruction writes.                                  *)
(***************************************************************************)
EXTENDS Marinade, TotalsProofs, CalcProofs

IInv == TypeOK /\ ConfigWithinLimits /\ BooksAreConservative

---------------------------------------------------------------------------
(* What an instruction leaves alone keeps its type.                        *)

LEMMA Untouched ==
  ASSUME IInv
  PROVE  /\ UNCHANGED adminVars => AdminTypes' /\ ConfigWithinLimits'
         /\ UNCHANGED reserveVars => ReserveTypes'
         /\ UNCHANGED mintVars => MintTypes'
         /\ UNCHANGED ticketVars => TicketTypes'
         /\ UNCHANGED coolingVars => CoolingTypes'
         /\ UNCHANGED movedVars => MovedTypes'
         /\ UNCHANGED deltaVars => DeltaTypes'
         /\ UNCHANGED stakeVars => StakeTypes'
         /\ UNCHANGED validatorVars => ValidatorTypes'
         /\ UNCHANGED poolVars => PoolTypes'
         /\ UNCHANGED worldVars => WorldTypes'
         /\ UNCHANGED <<reserveVars, mintVars, poolVars>>
              => BooksAreConservative'
<1> USE DEF IInv, TypeOK
<1>1. UNCHANGED adminVars => AdminTypes' /\ ConfigWithinLimits'
  BY DEF adminVars, AdminTypes, ConfigWithinLimits, ValidLiqPool
<1>2. UNCHANGED reserveVars => ReserveTypes'
  BY DEF reserveVars, ReserveTypes
<1>3. UNCHANGED mintVars => MintTypes'
  BY DEF mintVars, MintTypes
<1>4. UNCHANGED ticketVars => TicketTypes'
  BY DEF ticketVars, TicketTypes
<1>5. UNCHANGED coolingVars => CoolingTypes'
  BY DEF coolingVars, CoolingTypes
<1>6. UNCHANGED movedVars => MovedTypes'
  BY DEF movedVars, MovedTypes
<1>7. UNCHANGED deltaVars => DeltaTypes'
  BY DEF deltaVars, DeltaTypes
<1>8. UNCHANGED stakeVars => StakeTypes'
  BY DEF stakeVars, StakeTypes
<1>9. UNCHANGED validatorVars => ValidatorTypes'
  BY DEF validatorVars, ValidatorTypes
<1>10. UNCHANGED poolVars => PoolTypes'
  BY DEF poolVars, PoolTypes
<1>11. UNCHANGED worldVars => WorldTypes'
  BY DEF worldVars, WorldTypes
<1>12. UNCHANGED <<reserveVars, mintVars, poolVars>> => BooksAreConservative'
  BY DEF reserveVars, mintVars, poolVars, BooksAreConservative, mint_supply
<1> QED BY <1>1, <1>2, <1>3, <1>4, <1>5, <1>6, <1>7, <1>8, <1>9, <1>10,
           <1>11, <1>12

---------------------------------------------------------------------------
(* The operators of MarinadeState have the types one expects.              *)

LEMMA ConstantTypes ==
  /\ TokenRent \in Nat /\ StakeRent \in Nat
  /\ MIN_STAKE_LOWER_LIMIT \in Nat /\ MIN_STAKE_LOWER_LIMIT > 0
  /\ InitialSol \subseteq Nat /\ Lamports \subseteq Nat
BY StateAssumption

LEMMA ConfigTypes ==
  ASSUME IInv
  PROVE  /\ config.min_stake \in Nat /\ config.min_stake > 0
         /\ config.min_deposit \in Nat /\ config.min_withdraw \in Nat
         /\ config.staking_sol_cap \in Nat /\ config.liquidity_sol_cap \in Nat
         /\ config.reward_fee \in Nat
         /\ config.delayed_unstake_fee \in Nat
         /\ config.withdraw_stake_account_fee \in Nat
         /\ config.max_stake_moved_per_epoch \in Nat
         /\ config.lp_liquidity_target \in Nat
         /\ config.lp_max_fee \in Nat /\ config.lp_min_fee \in Nat
         /\ config.treasury_cut \in Nat
         /\ config.stake_list_capacity \in Nat
BY StateAssumption
   DEF IInv, TypeOK, AdminTypes, Config, ConfigFields, ConfigWithinLimits

LEMMA StateTypes ==
  ASSUME IInv
  PROVE  /\ total_cooling_down \in Nat
         /\ total_lamports_under_control \in Nat
         /\ total_virtual_staked_lamports \in Nat
         /\ stake_delta \in Int
         /\ mint_supply \in Nat
<1> USE DEF IInv, TypeOK
<1>1. total_cooling_down \in Nat
  BY DEF total_cooling_down, CoolingTypes
<1>2. total_lamports_under_control \in Nat
  BY <1>1 DEF total_lamports_under_control, ReserveTypes, ValidatorTypes
<1>3. total_virtual_staked_lamports \in Nat
  BY <1>2, MonusIsNat DEF total_virtual_staked_lamports, TicketTypes
<1>4. stake_delta \in Int
  <2>1. Monus(reserve_pda, TokenRent) \in Nat
    BY MonusIsNat, ConstantTypes DEF ReserveTypes
  <2> QED BY <2>1 DEF stake_delta, Lesser, CoolingTypes, TicketTypes
<1>5. mint_supply \in Nat
  BY DEF mint_supply, MintTypes, PoolTypes
<1> QED BY <1>1, <1>2, <1>3, <1>4, <1>5

LEMMA PriceTypes ==
  ASSUME IInv, NEW n \in Nat
  PROVE  /\ calc_msol_from_lamports(n) \in Nat
         /\ msol_to_sol(n) \in Nat
<1>1. total_virtual_staked_lamports \in Nat /\ msol_supply \in Nat
  BY StateTypes DEF IInv, TypeOK, MintTypes
<1> QED BY <1>1, ProportionalIsNat DEF calc_msol_from_lamports, msol_to_sol

LEMMA TargetTypes ==
  ASSUME IInv, NEW v \in DOMAIN validator_list, NEW n \in Nat
  PROVE  validator_stake_target(v, n) \in Nat
<1>1. validator_list[v].score \in Nat /\ total_validator_score \in Nat
  BY DEF IInv, TypeOK, ValidatorTypes, ValidatorRecord
<1> QED BY <1>1, ProportionalIsNat DEF validator_stake_target

LEMMA PutTypes ==
  ASSUME NEW S, NEW f, f \in [DOMAIN f -> S], NEW x, NEW y \in S
  PROVE  /\ Put(f, x, y) \in [DOMAIN Put(f, x, y) -> S]
         /\ DOMAIN Put(f, x, y) = DOMAIN f \cup {x}
BY DEF Put

LEMMA WithoutTypes ==
  ASSUME NEW S, NEW f, f \in [DOMAIN f -> S], NEW x
  PROVE  /\ Without(f, x) \in [DOMAIN Without(f, x) -> S]
         /\ DOMAIN Without(f, x) = DOMAIN f \ {x}
BY DEF Without

LEMMA StakesAreTyped ==
  ASSUME IInv, NEW a \in DOMAIN stake_accounts
  PROVE  /\ stake_accounts[a] \in NativeStake
         /\ stake_accounts[a].stake \in Nat
         /\ stake_accounts[a].balance \in Nat
         /\ stake_accounts[a].voter \in Validator
         /\ stake_accounts[a].status \in Statuses
         /\ a \in DOMAIN stake_list =>
              /\ stake_list[a] \in StakeRecord
              /\ last_update(a) \in Nat
BY DEF IInv, TypeOK, StakeTypes, NativeStake, StakeRecord, last_update

LEMMA PayRentTypes ==
  ASSUME IInv, NEW n \in Nat, pay_rent(n)
  PROVE  outside_sol' \in Nat
<1>1. n * StakeRent \in Nat
  BY ConstantTypes, ProductIsNat
<1> QED BY <1>1 DEF pay_rent, IInv, TypeOK, WorldTypes

LEMMA SplitTypes ==
  ASSUME IInv, NEW a \in DOMAIN stake_accounts, NEW b \in StakeAccount,
         NEW n \in Nat, n <= stake_accounts[a].stake,
         NEW native \in NativeStake, split(a, b, n, native)
  PROVE  /\ DOMAIN stake_accounts' = DOMAIN stake_accounts \cup {b}
         /\ b \notin DOMAIN stake_accounts
         /\ stake_accounts' \in [DOMAIN stake_accounts' -> NativeStake]
         /\ DOMAIN stake_accounts' \subseteq StakeAccount
         /\ outside_sol' \in Nat
<1> DEFINE less == [stake_accounts EXCEPT ![a].stake = @ - n,
                                          ![a].balance = @ - n]
<1>1. /\ less \in [DOMAIN less -> NativeStake]
      /\ DOMAIN less = DOMAIN stake_accounts
  <2>1. /\ stake_accounts[a].stake - n \in Nat
        /\ stake_accounts[a].balance - n \in Nat
    BY StakesAreTyped DEF split
  <2>2. stake_accounts \in [DOMAIN stake_accounts -> NativeStake]
    BY DEF IInv, TypeOK, StakeTypes
  <2> QED BY <2>1, <2>2 DEF NativeStake
<1>2. stake_accounts' = Put(less, b, native) /\ b \notin DOMAIN stake_accounts
  BY DEF split
<1> HIDE DEF less
<1>3. /\ DOMAIN stake_accounts' = DOMAIN stake_accounts \cup {b}
      /\ stake_accounts' \in [DOMAIN stake_accounts' -> NativeStake]
  BY <1>1, <1>2 DEF Put
<1>4. outside_sol' \in Nat
  BY PayRentTypes DEF split
<1> QED BY <1>2, <1>3, <1>4 DEF IInv, TypeOK, StakeTypes

LEMMA ReducedTypes ==
  ASSUME IInv, NEW a \in DOMAIN stake_list, NEW n \in Nat,
         n <= last_update(a)
  PROVE  /\ reduced(a, n) \in [DOMAIN stake_list -> StakeRecord]
         /\ DOMAIN reduced(a, n) = DOMAIN stake_list
BY DEF IInv, TypeOK, StakeTypes, StakeRecord, last_update, reduced

LEMMA WithSplitTypes ==
  ASSUME IInv, NEW a \in DOMAIN stake_list, NEW b, NEW n \in Nat,
         n <= last_update(a), NEW e \in {0, 1}
  PROVE  /\ DOMAIN with_split(a, b, n, e) = DOMAIN stake_list \cup {b}
         /\ with_split(a, b, n, e)
              \in [DOMAIN stake_list \cup {b} -> StakeRecord]
<1>1. new_stake_record(n, e) \in StakeRecord
  BY DEF new_stake_record, StakeRecord
<1>2. reduced(a, n) \in [DOMAIN stake_list -> StakeRecord]
  BY ReducedTypes
<1> QED BY <1>1, <1>2 DEF with_split, Put

LEMMA NewAccountTypes ==
  ASSUME NEW v \in Validator, NEW n \in Nat, NEW status \in Statuses,
         NEW owner \in {"marinade", "user"}
  PROVE  /\ new_stake_account(v, n, status, owner) \in NativeStake
         /\ deactivated(new_stake_account(v, n, status, owner)) \in NativeStake
BY DEF new_stake_account, deactivated, NativeStake, Statuses

---------------------------------------------------------------------------
(* Users                                                                   *)

LEMMA DepositKeeps ==
  ASSUME IInv, NEW l \in Nat, Deposit(l)
  PROVE  IInv'
<1> DEFINE order == calc_msol_from_lamports(l)
           swapped == msol_swapped(l)
           sol == sol_swapped(l)
<1> USE DEF MintTypes, PoolTypes, ReserveTypes, WorldTypes
<1>1. MintTypes /\ PoolTypes /\ ReserveTypes /\ WorldTypes
  BY DEF IInv, TypeOK
<1>2. order \in Nat /\ swapped \in Nat /\ swapped <= msol_leg
        /\ swapped <= order
  BY <1>1, PriceTypes DEF msol_swapped, Lesser
<1>3. sol \in Nat
  BY <1>2, PriceTypes DEF sol_swapped
<1> HIDE DEF order, swapped, sol
<1>4. /\ l - sol >= 0 /\ l <= outside_sol
      /\ outside_sol' = outside_sol - l
      /\ sol_leg_pda' = sol_leg_pda + sol
      /\ msol_leg' = msol_leg - swapped
      /\ available_reserve_balance' = available_reserve_balance + (l - sol)
      /\ reserve_pda' = reserve_pda + (l - sol)
      /\ user_msol' = user_msol + order
      /\ msol_supply' = msol_supply + (order - swapped)
      /\ UNCHANGED <<treasury_msol, lp_supply, user_lp, phase>>
  BY DEF Deposit, on_transfer_to_reserve, order, swapped, sol
<1>5. MintTypes' /\ PoolTypes' /\ ReserveTypes' /\ WorldTypes'
  BY <1>1, <1>2, <1>3, <1>4
<1>6. BooksAreConservative'
  BY <1>1, <1>2, <1>3, <1>4, ConstantTypes
     DEF IInv, BooksAreConservative, mint_supply
<1> QED BY <1>5, <1>6, Untouched DEF Deposit, IInv, TypeOK

LEMMA DepositStakeAccountKeeps ==
  ASSUME IInv, NEW a \in DOMAIN stake_accounts, DepositStakeAccount(a)
  PROVE  IInv'
<1> DEFINE native == stake_accounts[a]
           minted == calc_msol_from_lamports(native.stake)
<1>1. native \in NativeStake /\ native.stake \in Nat
  BY DEF IInv, TypeOK, StakeTypes, NativeStake
<1>2. minted \in Nat
  BY <1>1, PriceTypes
<1>3. /\ stake_accounts' = [stake_accounts EXCEPT ![a].owner = "marinade"]
      /\ stake_list' = Put(stake_list, a, new_stake_record(native.stake, 0))
      /\ native.voter \in DOMAIN validator_list
      /\ validator_list' = [validator_list EXCEPT
           ![native.voter].active_balance = @ + native.stake]
      /\ total_active_balance' = total_active_balance + native.stake
      /\ user_msol' = user_msol + minted
      /\ msol_supply' = msol_supply + minted
  BY DEF DepositStakeAccount, DepositStakeAccountAllowed, add_stake
<1>4. StakeTypes'
  <2>1. new_stake_record(native.stake, 0) \in StakeRecord
    BY <1>1 DEF new_stake_record, StakeRecord
  <2>2. /\ DOMAIN stake_accounts' = DOMAIN stake_accounts
        /\ stake_accounts' \in [DOMAIN stake_accounts' -> NativeStake]
    BY <1>1, <1>3 DEF IInv, TypeOK, StakeTypes, NativeStake
  <2>3. /\ DOMAIN stake_list' = DOMAIN stake_list \cup {a}
        /\ stake_list' \in [DOMAIN stake_list' -> StakeRecord]
    <3> HIDE DEF native
    <3>1. stake_list \in [DOMAIN stake_list -> StakeRecord]
      BY DEF IInv, TypeOK, StakeTypes
    <3>2. stake_list' = Put(stake_list, a, new_stake_record(native.stake, 0))
      BY <1>3
    <3> QED BY <2>1, <3>1, <3>2 DEF Put
  <2> QED BY <2>2, <2>3 DEF IInv, TypeOK, StakeTypes
<1> HIDE DEF minted
<1>5. ValidatorTypes'
  BY <1>1, <1>3
     DEF IInv, TypeOK, ValidatorTypes, ValidatorRecord, DepositStakeAccount,
         DepositStakeAccountAllowed
<1>6. MintTypes' /\ BooksAreConservative'
  BY <1>2, <1>3
     DEF IInv, TypeOK, MintTypes, PoolTypes, BooksAreConservative, mint_supply,
         DepositStakeAccount, DepositStakeAccountAllowed, reserveVars, poolVars
<1> QED BY <1>4, <1>5, <1>6, Untouched DEF DepositStakeAccount,
DepositStakeAccountAllowed, IInv, TypeOK

LEMMA WithdrawStakeAccountKeeps ==
  ASSUME IInv, NEW a \in DOMAIN stake_list, NEW b \in StakeAccount,
         NEW m \in Nat, WithdrawStakeAccount(a, b, m)
  PROVE  IInv'
<1> DEFINE v == stake_accounts[a].voter
           value == msol_to_sol(m)
           n == split_lamports(m)
           fees == withdraw_msol_fees(m)
<1>1. a \in DOMAIN stake_accounts
  BY DEF IInv, TypeOK, StakeTypes
<1>2. n \in Nat
  <2>1. value \in Nat
    BY PriceTypes
  <2> HIDE DEF value
  <2>2. FeeCentsApply(config.withdraw_stake_account_fee, value) \in Nat
    BY <2>1, FeeCentsIsBounded, ConfigTypes
  <2>3. n >= config.min_stake
    BY DEF WithdrawStakeAccount, WithdrawStakeAccountAllowed, min_stake
  <2>4. n = value - FeeCentsApply(config.withdraw_stake_account_fee, value)
    BY DEF split_lamports, value
  <2> QED BY <2>1, <2>2, <2>3, <2>4, ConfigTypes
<1> HIDE DEF n
<1>3. fees \in Nat /\ fees <= m
  <2>1. calc_msol_from_lamports(n) \in Nat
    BY <1>2, PriceTypes
  <2>2. fees = IF treasury_ready
                 THEN Monus(m, calc_msol_from_lamports(n)) ELSE 0
    BY DEF withdraw_msol_fees, n
  <2> QED BY <2>1, <2>2, MonusIsNat
<1> HIDE DEF fees
<1>4. /\ last_update(a) >= n + config.min_stake
      /\ v \in DOMAIN validator_list
      /\ n <= validator_list[v].active_balance
      /\ n <= total_active_balance
      /\ split(a, b, n,
               new_stake_account(v, n, stake_accounts[a].status, "user"))
      /\ stake_list' = reduced(a, n)
      /\ validator_list' = [validator_list EXCEPT ![v].active_balance = @ - n]
      /\ total_active_balance' = total_active_balance - n
      /\ m <= user_msol
      /\ m - fees <= msol_supply
      /\ user_msol' = user_msol - m
      /\ treasury_msol' = treasury_msol + fees
      /\ msol_supply' = msol_supply - (m - fees)
      /\ stake_accounts[a].stake = last_update(a)
  BY DEF WithdrawStakeAccount, WithdrawStakeAccountAllowed,
     check_stake_amount_and_validator, min_stake, n,
         fees
<1>5. n <= last_update(a)
  BY <1>1, <1>2, <1>4, StakesAreTyped, ConfigTypes
<1>6. StakeTypes' /\ outside_sol' \in Nat
  <2>1. new_stake_account(v, n, stake_accounts[a].status, "user") \in NativeStake
    BY <1>1, <1>2, StakesAreTyped, NewAccountTypes
  <2>2. /\ DOMAIN stake_accounts' = DOMAIN stake_accounts \cup {b}
        /\ stake_accounts' \in [DOMAIN stake_accounts' -> NativeStake]
        /\ DOMAIN stake_accounts' \subseteq StakeAccount
        /\ outside_sol' \in Nat
    BY <2>1, <1>1, <1>2, <1>4, <1>5, SplitTypes
  <2>3. /\ stake_list' \in [DOMAIN stake_list -> StakeRecord]
        /\ DOMAIN stake_list' = DOMAIN stake_list
    BY <1>2, <1>4, <1>5, ReducedTypes
  <2> QED BY <2>2, <2>3 DEF IInv, TypeOK, StakeTypes
<1>7. ValidatorTypes'
  BY <1>2, <1>4
     DEF IInv, TypeOK, ValidatorTypes, ValidatorRecord, WithdrawStakeAccount,
         WithdrawStakeAccountAllowed
<1>8. MintTypes' /\ BooksAreConservative'
  BY <1>3, <1>4
     DEF IInv, TypeOK, MintTypes, PoolTypes, BooksAreConservative, mint_supply,
         WithdrawStakeAccount, WithdrawStakeAccountAllowed, reserveVars,
         poolVars
<1> QED BY <1>6, <1>7, <1>8, Untouched
        DEF WithdrawStakeAccount, WithdrawStakeAccountAllowed, IInv, TypeOK,
            WorldTypes

LEMMA OrderUnstakeKeeps ==
  ASSUME IInv, NEW t \in Ticket, NEW m \in Nat, OrderUnstake(t, m)
  PROVE  IInv'
<1> DEFINE value == msol_to_sol(m)
           n == lamports_for_user(m)
<1>1. n \in Nat
  <2>1. value \in Nat
    BY PriceTypes
  <2> HIDE DEF value
  <2>2. FeeCentsApply(config.delayed_unstake_fee, value) \in Nat
    BY <2>1, FeeCentsIsBounded, ConfigTypes
  <2>3. n >= config.min_withdraw
    BY DEF OrderUnstake
  <2>4. n = value - FeeCentsApply(config.delayed_unstake_fee, value)
    BY DEF lamports_for_user, value
  <2> QED BY <2>1, <2>2, <2>3, <2>4, ConfigTypes
<1> HIDE DEF n
<1>2. issue_ticket(t, n) /\ m <= user_msol /\ m <= msol_supply
        /\ user_msol' = user_msol - m /\ msol_supply' = msol_supply - m
        /\ UNCHANGED treasury_msol
  BY DEF OrderUnstake, n
<1>3. TicketTypes'
  <2> DEFINE data == [lamports_amount |-> n,
                      created_epoch |-> IF stake_delta_ran THEN 1 ELSE 0]
  <2>1. data \in TicketAccountData
    BY <1>1 DEF TicketAccountData
  <2>2. tickets' = Put(tickets, t, data)
    BY <1>2 DEF issue_ticket
  <2> HIDE DEF data
  <2>3. /\ DOMAIN tickets' \subseteq Ticket
        /\ tickets' \in [DOMAIN tickets' -> TicketAccountData]
    BY <2>1, <2>2 DEF Put, IInv, TypeOK, TicketTypes
  <2> QED BY <1>1, <1>2, <2>3 DEF issue_ticket, IInv, TypeOK, TicketTypes
<1>4. MintTypes' /\ BooksAreConservative'
  BY <1>2
     DEF IInv, TypeOK, MintTypes, PoolTypes, BooksAreConservative, mint_supply,
         OrderUnstake, reserveVars, poolVars
<1> QED BY <1>3, <1>4, Untouched DEF OrderUnstake, IInv, TypeOK

LEMMA ClaimKeeps ==
  ASSUME IInv, NEW t \in DOMAIN tickets, Claim(t)
  PROVE  IInv'
<1> DEFINE n == tickets[t].lamports_amount
<1>1. n \in Nat
  BY DEF IInv, TypeOK, TicketTypes, TicketAccountData
<1> HIDE DEF n
<1>2. /\ close_ticket(t, n) /\ on_transfer_from_reserve(n)
      /\ outside_sol' = outside_sol + n
  BY DEF Claim, n
<1>3. TicketTypes'
  BY <1>1, <1>2 DEF close_ticket, Without, IInv, TypeOK, TicketTypes
<1>4. ReserveTypes' /\ BooksAreConservative'
  BY <1>1, <1>2, ConstantTypes
     DEF on_transfer_from_reserve, IInv, TypeOK, ReserveTypes, MintTypes,
         PoolTypes, BooksAreConservative, mint_supply, Claim, mintVars,
         poolVars
<1>5. WorldTypes'
  BY <1>1, <1>2 DEF Claim, IInv, TypeOK, WorldTypes
<1> QED BY <1>3, <1>4, <1>5, Untouched DEF Claim, IInv, TypeOK

---------------------------------------------------------------------------
(* LiquidityPool                                                           *)

LEMMA SolLegTypes ==
  ASSUME IInv
  PROVE  sol_leg_available \in Nat /\ total_liq_pool_value \in Nat
<1>1. sol_leg_available \in Nat
  BY ConstantTypes
     DEF IInv, TypeOK, PoolTypes, BooksAreConservative, sol_leg_available
<1>2. msol_to_sol(msol_leg) \in Nat
  BY PriceTypes DEF IInv, TypeOK, PoolTypes
<1> QED BY <1>1, <1>2 DEF total_liq_pool_value

LEMMA AddLiquidityKeeps ==
  ASSUME IInv, NEW l \in Nat, AddLiquidity(l)
  PROVE  IInv'
<1> DEFINE shares == lp_shares(l)
<1>1. shares \in Nat
  BY SolLegTypes, ProportionalIsNat
     DEF lp_shares, lp_mint_supply, IInv, TypeOK, PoolTypes
<1> HIDE DEF shares
<1>2. /\ l <= outside_sol /\ outside_sol' = outside_sol - l
      /\ sol_leg_pda' = sol_leg_pda + l
      /\ user_lp' = user_lp + shares
      /\ lp_supply' = user_lp + shares
      /\ UNCHANGED <<reserveVars, mintVars, msol_leg, phase>>
  BY DEF AddLiquidity, lp_mint_supply, shares
<1>3. PoolTypes' /\ WorldTypes'
  BY <1>1, <1>2 DEF IInv, TypeOK, PoolTypes, WorldTypes
<1>4. BooksAreConservative'
  BY <1>1, <1>2, ConstantTypes
     DEF IInv, TypeOK, PoolTypes, BooksAreConservative, mint_supply,
         reserveVars, mintVars
<1> QED BY <1>3, <1>4, Untouched DEF AddLiquidity, IInv, TypeOK

LEMMA RemoveLiquidityKeeps ==
  ASSUME IInv, NEW n \in Nat, RemoveLiquidity(n)
  PROVE  IInv'
<1> DEFINE supply == lp_supply_used
           sol_out == sol_out_amount(n)
           msol_out == msol_out_amount(n)
<1> USE DEF IInv, TypeOK, PoolTypes
<1>1. supply = user_lp /\ supply \in Nat
  BY DEF BooksAreConservative, lp_mint_supply, lp_supply_used, Lesser
<1> HIDE DEF supply
<1>2. sol_out \in Nat /\ msol_out \in Nat
  BY <1>1, SolLegTypes, ProportionalIsNat
     DEF supply, sol_out_amount, msol_out_amount
<1> HIDE DEF sol_out, msol_out
<1>3. /\ n <= user_lp /\ sol_out <= sol_leg_pda - TokenRent
      /\ msol_out <= msol_leg
      /\ sol_leg_pda' = sol_leg_pda - sol_out
      /\ msol_leg' = msol_leg - msol_out
      /\ outside_sol' = outside_sol + sol_out
      /\ user_msol' = user_msol + msol_out
      /\ user_lp' = user_lp - n
      /\ lp_supply' = user_lp - n
      /\ UNCHANGED <<reserveVars, msol_supply, treasury_msol, phase>>
  BY <1>1 DEF RemoveLiquidity, sol_leg_available, supply, sol_out, msol_out
<1>4. PoolTypes' /\ WorldTypes' /\ MintTypes'
  BY <1>2, <1>3, ConstantTypes DEF WorldTypes, MintTypes
<1>5. BooksAreConservative'
  BY <1>2, <1>3, ConstantTypes
     DEF BooksAreConservative, mint_supply, MintTypes, reserveVars
<1> QED BY <1>4, <1>5, Untouched DEF RemoveLiquidity

\* The fee is between the limits of the pool, wherever the liquidity ends.
LEMMA LiquidUnstakeFeeTypes ==
  ASSUME IInv, NEW m \in Nat
  PROVE  /\ liquid_unstake_fee(m) \in Nat
         /\ FeeCheck(liquid_unstake_fee(m))
<1>1. /\ config.lp_max_fee \in Nat /\ config.lp_min_fee \in Nat
      /\ config.lp_liquidity_target \in Nat
      /\ config.lp_min_fee <= config.lp_max_fee
      /\ config.lp_max_fee <= MAX_BASIS_POINTS
      /\ MAX_BASIS_POINTS \in Nat
  BY ConfigTypes, CalcAssumption
     DEF IInv, ConfigWithinLimits, ValidLiqPool, FeeCheck
<1>2. CASE msol_to_sol(m) >= sol_leg_available
  BY <1>1, <1>2 DEF liquid_unstake_fee, FeeCheck
<1>3. CASE ~ (msol_to_sol(m) >= sol_leg_available)
  <2> DEFINE rest == sol_leg_available - msol_to_sol(m)
  <2>1. rest \in Nat
    BY <1>3, SolLegTypes, PriceTypes
  <2>2. liquid_unstake_fee(m) =
          linear_fee(rest, config.lp_liquidity_target, config.lp_max_fee,
                     config.lp_min_fee)
    BY <1>3 DEF liquid_unstake_fee
  <2> HIDE DEF rest
  <2>3. /\ linear_fee(rest, config.lp_liquidity_target, config.lp_max_fee,
                      config.lp_min_fee) \in Nat
        /\ linear_fee(rest, config.lp_liquidity_target, config.lp_max_fee,
                      config.lp_min_fee) <= config.lp_max_fee
    BY <1>1, <2>1, LinearFeeIsBetween
  <2> HIDE <1>3
  <2> QED BY <1>1, <2>2, <2>3 DEF FeeCheck
<1> QED BY <1>2, <1>3

LEMMA LiquidUnstakeKeeps ==
  ASSUME IInv, NEW m \in Nat, LiquidUnstake(m)
  PROVE  IInv'
<1> DEFINE fee == liquid_unstake_msol_fee(m)
           paid == working_lamports_value(m)
           cut == treasury_msol_cut(m)
<1> USE DEF IInv, TypeOK, PoolTypes
<1>1. fee \in Nat /\ fee <= m
  BY LiquidUnstakeFeeTypes, FeeIsBounded DEF liquid_unstake_msol_fee
<1> HIDE DEF fee
<1>2. paid \in Nat
  BY <1>1, PriceTypes DEF working_lamports_value, fee
<1>3. cut \in Nat /\ cut <= fee
  <2>1. config.treasury_cut \in Nat /\ FeeCheck(config.treasury_cut)
    BY ConfigTypes DEF ConfigWithinLimits, ValidLiqPool
  <2>2. /\ FeeApply(config.treasury_cut, fee) \in Nat
        /\ FeeApply(config.treasury_cut, fee) <= fee
    BY <1>1, <2>1, FeeIsBounded
  <2> QED BY <1>1, <2>2 DEF treasury_msol_cut, fee
<1> HIDE DEF paid, cut
<1>4. /\ m <= user_msol /\ paid <= sol_leg_pda - TokenRent
      /\ sol_leg_pda' = sol_leg_pda - paid
      /\ outside_sol' = outside_sol + paid
      /\ msol_leg' = msol_leg + m - cut
      /\ treasury_msol' = treasury_msol + cut
      /\ user_msol' = user_msol - m
      /\ UNCHANGED <<reserveVars, msol_supply, lp_supply, user_lp, phase>>
  BY DEF LiquidUnstake, sol_leg_available, fee, paid, cut
<1>5. PoolTypes' /\ WorldTypes' /\ MintTypes'
  BY <1>1, <1>2, <1>3, <1>4, ConstantTypes DEF WorldTypes, MintTypes
<1>6. BooksAreConservative'
  BY <1>1, <1>2, <1>3, <1>4, ConstantTypes
     DEF BooksAreConservative, mint_supply, MintTypes, reserveVars
<1> QED BY <1>5, <1>6, Untouched DEF LiquidUnstake

---------------------------------------------------------------------------
(* Crank                                                                   *)

LEMMA ProtocolFeesTypes ==
  ASSUME IInv, NEW lamports \in Nat, NEW available \in Nat, NEW supply \in Nat
  PROVE  protocol_fees(lamports, available, supply) \in Nat
<1> DEFINE fee == FeeApply(config.reward_fee, lamports)
           value == Monus(total_active_balance + total_cooling_down + available,
                          circulating_ticket_balance)
<1>1. fee \in Nat
  BY ConfigTypes, FeeIsBounded
<1>2. value \in Nat
  BY StateTypes, MonusIsNat
     DEF IInv, TypeOK, ValidatorTypes, TicketTypes
<1> HIDE DEF fee, value
<1>3. shares_from_value(fee, value, supply) \in Nat
  BY <1>1, <1>2, ProportionalIsNat
<1> QED BY <1>3 DEF protocol_fees, fee, value

\* Only the cap on deposits may change, and only to 0.
LEMMA BeginKeeps ==
  ASSUME IInv, begin,
         UNCHANGED <<withdraw_stake_account_enabled, treasury_ready, paused>>
  PROVE  AdminTypes' /\ ConfigWithinLimits'
<1>1. config' \in Config
  BY DEF IInv, TypeOK, AdminTypes, Config, ConfigFields, begin
<1>2. \A f \in ConfigFields \ {"staking_sol_cap"} : config'[f] = config[f]
  BY DEF IInv, TypeOK, AdminTypes, Config, ConfigFields, begin
<1>3. AdminTypes'
  BY <1>1 DEF IInv, TypeOK, AdminTypes
<1>4. ConfigWithinLimits'
  BY <1>2 DEF IInv, ConfigWithinLimits, ValidLiqPool, ConfigFields
<1> QED BY <1>3, <1>4

LEMMA AlignedReserveTypes ==
  ASSUME IInv
  PROVE  /\ aligned_reserve \in Nat
         /\ aligned_reserve + TokenRent = reserve_pda
BY ConstantTypes
   DEF IInv, TypeOK, ReserveTypes, BooksAreConservative, aligned_reserve, Monus

LEMMA UpdateActiveKeeps ==
  ASSUME IInv, NEW a \in DOMAIN stake_list, UpdateActive(a)
  PROVE  IInv'
<1> DEFINE native == stake_accounts[a]
           v == native.voter
           extra == extra_lamports(a)
           available == aligned_reserve + extra
           extra_fees == extra_msol_fees(a)
           growth_fees == delegation_growth_msol_fees(a)
           fees == extra_fees + growth_fees
<1>1. /\ a \in DOMAIN stake_accounts
      /\ native.stake \in Nat /\ native.balance \in Nat
      /\ last_update(a) \in Nat
  BY StakesAreTyped DEF IInv, TypeOK, StakeTypes
<1>2. extra \in Nat /\ rewards(a) \in Nat /\ slashed(a) \in Nat
  BY <1>1 DEF extra_lamports, rewards, slashed, Monus
<1> HIDE DEF extra
<1>3. available \in Nat
  BY <1>2, AlignedReserveTypes
<1> HIDE DEF available
<1>4. extra_fees \in Nat
  BY <1>2, <1>3, StateTypes, ProtocolFeesTypes
     DEF extra_msol_fees, extra, available
<1> HIDE DEF extra_fees
<1>5. growth_fees \in Nat
  <2>1. mint_supply + extra_fees \in Nat
    BY <1>4, StateTypes
  <2> QED BY <1>2, <1>3, <2>1, ProtocolFeesTypes
          DEF delegation_growth_msol_fees, extra, available, extra_fees
<1> HIDE DEF growth_fees
<1>6. fees \in Nat
  BY <1>4, <1>5
<1>7. /\ available_reserve_balance' = available
      /\ reserve_pda' = reserve_pda + extra
      /\ treasury_msol' = treasury_msol + fees
      /\ msol_supply' = mint_supply + fees
      /\ UNCHANGED <<user_msol, poolVars>>
  <2>1. /\ treasury_msol' = treasury_msol + (extra_fees + growth_fees)
        /\ msol_supply' = mint_supply + (extra_fees + growth_fees)
    BY DEF UpdateActive, extra_fees, growth_fees
  <2>2. treasury_msol \in Nat /\ mint_supply \in Nat
    BY StateTypes DEF IInv, TypeOK, MintTypes
  <2>3. /\ available_reserve_balance' = available
        /\ reserve_pda' = reserve_pda + extra
        /\ UNCHANGED <<user_msol, poolVars>>
    BY DEF UpdateActive, extra, available
  <2> QED BY <1>4, <1>5, <2>1, <2>2, <2>3
<1> HIDE DEF fees
<1>8. ReserveTypes' /\ MintTypes' /\ BooksAreConservative'
  BY <1>2, <1>3, <1>6, <1>7, AlignedReserveTypes, ConstantTypes
     DEF IInv, TypeOK, ReserveTypes, MintTypes, PoolTypes,
         BooksAreConservative, mint_supply, available, poolVars
<1>9. AdminTypes' /\ ConfigWithinLimits'
  BY BeginKeeps DEF UpdateActive
<1>10. ValidatorTypes'
  <2> DEFINE balance ==
        Monus(validator_list[v].active_balance + rewards(a), slashed(a))
      total == Monus(total_active_balance + rewards(a), slashed(a))
  <2>1. v \in DOMAIN validator_list
    BY DEF UpdateActive
  <2>2. balance \in Nat /\ total \in Nat
    <3>1. /\ validator_list[v].active_balance \in Nat
          /\ total_active_balance \in Nat
      BY <2>1 DEF IInv, TypeOK, ValidatorTypes, ValidatorRecord
    <3> QED BY <1>2, <3>1 DEF Monus
  <2>3. /\ validator_list' = [validator_list EXCEPT ![v].active_balance = balance]
        /\ total_active_balance' = total
        /\ UNCHANGED total_validator_score
    BY DEF UpdateActive
  <2> HIDE DEF balance, total, v
  <2> QED BY <2>1, <2>2, <2>3
          DEF IInv, TypeOK, ValidatorTypes, ValidatorRecord
<1>11. StakeTypes'
  <2>1. /\ stake_list' = [stake_list EXCEPT
             ![a].last_update_delegated_lamports = native.stake]
        /\ stake_accounts' = [stake_accounts EXCEPT ![a].balance = native.stake]
    BY DEF UpdateActive
  <2>2. /\ stake_list' \in [DOMAIN stake_list -> StakeRecord]
        /\ stake_accounts' \in [DOMAIN stake_accounts -> NativeStake]
    BY <1>1, <2>1 DEF IInv, TypeOK, StakeTypes, StakeRecord, NativeStake
  <2> QED BY <2>2 DEF IInv, TypeOK, StakeTypes
<1> QED BY <1>8, <1>9, <1>10, <1>11, Untouched DEF UpdateActive, IInv, TypeOK

LEMMA UpdateDeactivatedKeeps ==
  ASSUME IInv, NEW a \in DOMAIN stake_list, UpdateDeactivated(a)
  PROVE  IInv'
<1> DEFINE balance == stake_accounts[a].balance
           gain == Monus(balance, last_update(a))
           fees == deactivated_msol_fees(a)
<1>1. /\ a \in DOMAIN stake_accounts /\ balance \in Nat
      /\ last_update(a) \in Nat
      /\ stake_list[a].is_emergency_unstaking \in {0, 1}
  BY StakesAreTyped DEF IInv, TypeOK, StakeTypes, StakeRecord
<1>2. gain \in Nat
  BY <1>1, MonusIsNat
<1> HIDE DEF gain
<1>3. fees \in Nat
  BY <1>2, AlignedReserveTypes, StateTypes, ProtocolFeesTypes
     DEF deactivated_msol_fees, gain
<1> HIDE DEF fees
<1>4. /\ available_reserve_balance' = aligned_reserve + balance
      /\ reserve_pda' = reserve_pda + balance
      /\ treasury_msol' = treasury_msol + fees
      /\ msol_supply' = mint_supply + fees
      /\ UNCHANGED <<user_msol, poolVars>>
  BY DEF UpdateDeactivated, fees
<1>5. ReserveTypes' /\ MintTypes' /\ BooksAreConservative'
  BY <1>1, <1>3, <1>4, AlignedReserveTypes, ConstantTypes
     DEF IInv, TypeOK, ReserveTypes, MintTypes, PoolTypes,
         BooksAreConservative, mint_supply, poolVars
<1>6. AdminTypes' /\ ConfigWithinLimits'
  BY BeginKeeps DEF UpdateDeactivated
<1>7. CoolingTypes'
  BY <1>1 DEF UpdateDeactivated, cooled_down, IInv, TypeOK, CoolingTypes
<1>8. StakeTypes'
  <2>1. stake_list' = Without(stake_list, a)
        /\ stake_accounts' = Without(stake_accounts, a)
    BY DEF UpdateDeactivated
  <2> QED BY <2>1 DEF Without, IInv, TypeOK, StakeTypes
<1>9. WorldTypes'
  BY ConstantTypes DEF UpdateDeactivated, IInv, TypeOK, WorldTypes
<1> QED BY <1>5, <1>6, <1>7, <1>8, <1>9, Untouched
        DEF UpdateDeactivated, IInv, TypeOK

LEMMA ReserveTargetTypes ==
  ASSUME IInv, NEW v \in DOMAIN validator_list, stake_delta > 0
  PROVE  reserve_stake_target(v) \in Nat
<1>1. /\ total_active_balance + stake_delta \in Nat /\ stake_delta \in Nat
      /\ validator_list[v].active_balance \in Nat
  BY StateTypes DEF IInv, TypeOK, ValidatorTypes, ValidatorRecord
<1>2. validator_stake_target(v, total_active_balance + stake_delta) \in Nat
  BY <1>1, TargetTypes
<1> QED BY <1>1, <1>2 DEF reserve_stake_target, Lesser, Monus

LEMMA TakeStakeRunTypes ==
  ASSUME IInv, NEW v \in DOMAIN validator_list, TakeStakeRun(v)
  PROVE  extra_stake_delta_runs' \in Nat
BY DEF IInv, TypeOK, DeltaTypes, ValidatorTypes, ValidatorRecord, TakeStakeRun

LEMMA StakeReserveKeeps ==
  ASSUME IInv, NEW v \in DOMAIN validator_list, NEW a \in StakeAccount,
         StakeReserve(v, a)
  PROVE  IInv'
<1> DEFINE n == reserve_stake_target(v)
           native == new_stake_account(v, n, "activating", "marinade")
<1>1. n \in Nat /\ extra_stake_delta_runs' \in Nat
  BY ReserveTargetTypes, TakeStakeRunTypes DEF StakeReserve, TakeStakeRun
<1>2. /\ on_transfer_from_reserve(n) /\ pay_rent(1)
      /\ a \notin DOMAIN stake_accounts
      /\ stake_accounts' = Put(stake_accounts, a, native)
      /\ stake_list' = Put(stake_list, a, new_stake_record(n, 0))
      /\ validator_list' = [validator_list EXCEPT
           ![v].active_balance = @ + n, ![v].ran = TRUE]
      /\ total_active_balance' = total_active_balance + n
      /\ stake_delta_ran' = TRUE
  BY DEF StakeReserve, add_stake
<1> HIDE DEF n
<1>3. StakeTypes'
  <2>1. v \in Validator
    BY DEF IInv, TypeOK, ValidatorTypes
  <2>2. native \in NativeStake /\ new_stake_record(n, 0) \in StakeRecord
    BY <1>1, <2>1 DEF new_stake_account, NativeStake, Statuses,
                      new_stake_record, StakeRecord
  <2> HIDE DEF native
  <2> QED BY <1>2, <2>2 DEF Put, IInv, TypeOK, StakeTypes
<1>4. ValidatorTypes' /\ DeltaTypes'
  <2>1. validator_list[v].active_balance + n \in Nat
          /\ total_active_balance + n \in Nat
    BY <1>1 DEF IInv, TypeOK, ValidatorTypes, ValidatorRecord
  <2>2. validator_list \in [DOMAIN validator_list -> ValidatorRecord]
    BY DEF IInv, TypeOK, ValidatorTypes
  <2>3. /\ validator_list' \in [DOMAIN validator_list -> ValidatorRecord]
        /\ DOMAIN validator_list' = DOMAIN validator_list
    BY <1>2, <2>1, <2>2 DEF ValidatorRecord
  <2>4. ValidatorTypes'
    BY <1>2, <2>1, <2>3 DEF StakeReserve, IInv, TypeOK, ValidatorTypes
  <2>5. DeltaTypes'
    BY <1>1, <1>2 DEF DeltaTypes
  <2> QED BY <2>4, <2>5
<1>5. ReserveTypes' /\ BooksAreConservative'
  BY <1>1, <1>2, ConstantTypes
     DEF StakeReserve, on_transfer_from_reserve, IInv, TypeOK, ReserveTypes,
         MintTypes, PoolTypes, BooksAreConservative, mint_supply, mintVars,
         poolVars
<1>6. WorldTypes'
  BY <1>2, PayRentTypes DEF StakeReserve, IInv, TypeOK, WorldTypes
<1> QED BY <1>3, <1>4, <1>5, <1>6, Untouched DEF StakeReserve, IInv, TypeOK

LEMMA StakeReserveReturnsEarlyKeeps ==
  ASSUME IInv, NEW v \in DOMAIN validator_list, StakeReserveReturnsEarly(v)
  PROVE  IInv'
<1>1. DeltaTypes'
  BY TakeStakeRunTypes DEF StakeReserveReturnsEarly, IInv, TypeOK, DeltaTypes
<1> QED BY <1>1, Untouched DEF StakeReserveReturnsEarly, IInv, TypeOK

LEMMA StartDelayedUnstakeKeeps ==
  ASSUME IInv, NEW v \in DOMAIN validator_list, NEW n \in Nat,
         NEW ran \in BOOLEAN, StartDelayedUnstake(v, n, ran),
         StakeTypes', outside_sol' \in Nat
  PROVE  IInv'
<1>1. ValidatorTypes'
  <2>1. validator_list[v].active_balance - n \in Nat
          /\ total_active_balance - n \in Nat
    BY DEF StartDelayedUnstake, IInv, TypeOK, ValidatorTypes, ValidatorRecord
  <2>2. validator_list \in [DOMAIN validator_list -> ValidatorRecord]
    BY DEF IInv, TypeOK, ValidatorTypes
  <2>3. /\ validator_list' \in [DOMAIN validator_list -> ValidatorRecord]
        /\ DOMAIN validator_list' = DOMAIN validator_list
    BY <2>1, <2>2 DEF StartDelayedUnstake, ValidatorRecord
  <2> QED BY <2>1, <2>3 DEF StartDelayedUnstake, IInv, TypeOK, ValidatorTypes
<1>2. CoolingTypes' /\ DeltaTypes' /\ WorldTypes'
  BY DEF StartDelayedUnstake, IInv, TypeOK, CoolingTypes, DeltaTypes,
     WorldTypes
<1> QED BY <1>1, <1>2, Untouched DEF StartDelayedUnstake, IInv, TypeOK

LEMMA DeactivatedTypes ==
  ASSUME IInv, NEW a \in DOMAIN stake_accounts
  PROVE  /\ deactivated(stake_accounts[a]) \in NativeStake
         /\ [stake_accounts EXCEPT ![a] = deactivated(stake_accounts[a])]
              \in [DOMAIN stake_accounts -> NativeStake]
<1>1. deactivated(stake_accounts[a]) \in NativeStake
  BY StakesAreTyped DEF deactivated, NativeStake, Statuses
<1> QED BY <1>1 DEF IInv, TypeOK, StakeTypes

LEMMA DeactivateWholeStakeKeeps ==
  ASSUME IInv, NEW a \in DOMAIN stake_list, DeactivateWholeStake(a)
  PROVE  IInv'
<1> DEFINE v == stake_accounts[a].voter
<1>1. a \in DOMAIN stake_accounts
  BY DEF IInv, TypeOK, StakeTypes
<1>2. /\ v \in DOMAIN validator_list
      /\ stake_accounts' =
           [stake_accounts EXCEPT ![a] = deactivated(stake_accounts[a])]
      /\ stake_list' = stake_list
      /\ pay_rent(0)
      /\ StartDelayedUnstake(v, last_update(a), validator_list[v].ran)
  BY DEF DeactivateWholeStake, DeactivateStakeAllowed
<1>3. StakeTypes'
  BY <1>1, <1>2, DeactivatedTypes DEF IInv, TypeOK, StakeTypes
<1>4. last_update(a) \in Nat /\ validator_list[v].ran \in BOOLEAN
  BY <1>1, <1>2, StakesAreTyped
     DEF IInv, TypeOK, ValidatorTypes, ValidatorRecord
<1>5. outside_sol' \in Nat
  BY <1>2, PayRentTypes
<1> HIDE DEF v
<1> QED BY <1>2, <1>3, <1>4, <1>5, StartDelayedUnstakeKeeps

\* What is split off lies between nothing and the whole account.
LEMMA StakeAccountTargetTypes ==
  ASSUME IInv, NEW a \in DOMAIN stake_list, NEW v \in DOMAIN validator_list,
         stake_delta < 0
  PROVE  /\ stake_account_target(a, v) \in Nat
         /\ stake_account_target(a, v) <= last_update(a)
<1>1. a \in DOMAIN stake_accounts
  BY DEF IInv, TypeOK, StakeTypes
<1>2. last_update(a) \in Nat
  BY <1>1, StakesAreTyped
<1>3. stake_delta \in Int /\ total_active_balance \in Int
      /\ validator_list[v].active_balance \in Nat
  BY StateTypes DEF IInv, TypeOK, ValidatorTypes, ValidatorRecord
<1>4. Monus(total_active_balance, - stake_delta) \in Nat
  BY <1>3 DEF Monus
<1>5. validator_stake_target(v, Monus(total_active_balance, - stake_delta))
        \in Nat
  BY <1>4, TargetTypes
<1>6. unstake_from_validator(v) \in Nat
  BY <1>3, <1>5 DEF unstake_from_validator, Monus
<1> QED BY <1>2, <1>3, <1>6 DEF stake_account_target, Lesser, Monus

LEMMA DeactivateSplitStakeKeeps ==
  ASSUME IInv, NEW a \in DOMAIN stake_list, NEW b \in StakeAccount,
         DeactivateSplitStake(a, b)
  PROVE  IInv'
<1> DEFINE v == stake_accounts[a].voter
           n == last_update(a) - stake_account_target(a, v)
           native == deactivated(new_stake_account(v, n,
                       stake_accounts[a].status, "marinade"))
<1>1. /\ a \in DOMAIN stake_accounts /\ v \in DOMAIN validator_list
      /\ stake_delta < 0 /\ stake_accounts[a].stake = last_update(a)
  BY DEF IInv, TypeOK, StakeTypes, DeactivateSplitStake,
         DeactivateStakeAllowed, check_stake_amount_and_validator
<1>2. n \in Nat /\ n <= last_update(a) /\ n <= stake_accounts[a].stake
  BY <1>1, StakeAccountTargetTypes, StakesAreTyped
<1> HIDE DEF n
<1>3. /\ split(a, b, n, native)
      /\ stake_list' = with_split(a, b, n, 0)
      /\ StartDelayedUnstake(v, n, TRUE)
  BY DEF DeactivateSplitStake, n
<1>4. native \in NativeStake
  BY <1>1, <1>2, StakesAreTyped, NewAccountTypes
<1> HIDE DEF native
<1>5. /\ DOMAIN stake_accounts' = DOMAIN stake_accounts \cup {b}
      /\ stake_accounts' \in [DOMAIN stake_accounts' -> NativeStake]
      /\ DOMAIN stake_accounts' \subseteq StakeAccount
      /\ outside_sol' \in Nat
  BY <1>1, <1>2, <1>3, <1>4, SplitTypes
<1>6. /\ DOMAIN stake_list' = DOMAIN stake_list \cup {b}
      /\ stake_list' \in [DOMAIN stake_list' -> StakeRecord]
  BY <1>2, <1>3, WithSplitTypes
<1>7. StakeTypes'
  BY <1>5, <1>6 DEF IInv, TypeOK, StakeTypes
<1> HIDE DEF v
<1> QED BY <1>1, <1>2, <1>3, <1>5, <1>7, StartDelayedUnstakeKeeps

LEMMA MergeStakesKeeps ==
  ASSUME IInv, NEW dst \in DOMAIN stake_list, NEW src \in DOMAIN stake_list,
         MergeStakes(dst, src)
  PROVE  IInv'
<1> DEFINE v == stake_accounts[dst].voter
           extra == extra_delegated(dst)
           added == last_update(src) + extra
           more == [stake_accounts EXCEPT ![dst].stake = @ + added,
                                          ![dst].balance = @ + added]
           taller == [stake_list EXCEPT
                        ![dst].last_update_delegated_lamports = @ + added]
<1>1. {dst, src} \subseteq DOMAIN stake_accounts
  BY DEF IInv, TypeOK, StakeTypes
<1>2. extra \in Nat /\ extra <= StakeRent /\ StakeRent \in Nat
  BY ConstantTypes DEF extra_delegated
<1> HIDE DEF extra
<1>3. added \in Nat
  BY <1>1, <1>2, StakesAreTyped
<1> HIDE DEF added
<1>4. /\ dst # src /\ v \in DOMAIN validator_list
      /\ stake_accounts' = Without(more, src)
      /\ stake_list' = Without(taller, src)
      /\ validator_list' = [validator_list EXCEPT ![v].active_balance = @ + extra]
      /\ total_active_balance' = total_active_balance + extra
      /\ outside_sol' = outside_sol + (StakeRent - extra)
  BY DEF MergeStakes, extra, added
<1>5. StakeTypes'
  <2>1. more \in [DOMAIN stake_accounts -> NativeStake]
    <3>1. /\ stake_accounts[dst].stake + added \in Nat
          /\ stake_accounts[dst].balance + added \in Nat
      BY <1>1, <1>3, StakesAreTyped
    <3>2. stake_accounts \in [DOMAIN stake_accounts -> NativeStake]
      BY DEF IInv, TypeOK, StakeTypes
    <3> QED BY <1>1, <3>1, <3>2 DEF NativeStake
  <2>2. taller \in [DOMAIN stake_list -> StakeRecord]
    BY <1>3 DEF IInv, TypeOK, StakeTypes, StakeRecord
  <2> HIDE DEF more, taller
  <2> QED BY <1>4, <2>1, <2>2 DEF Without, IInv, TypeOK, StakeTypes
<1>6. ValidatorTypes' /\ WorldTypes'
  BY <1>2, <1>4 DEF MergeStakes, IInv, TypeOK, ValidatorTypes,
                    ValidatorRecord, WorldTypes
<1> QED BY <1>5, <1>6, Untouched DEF MergeStakes, IInv, TypeOK

LEMMA OnStakeMovedTypes ==
  ASSUME IInv, NEW n \in Nat, on_stake_moved(n)
  PROVE  MovedTypes'
BY DEF on_stake_moved, IInv, TypeOK, MovedTypes

\* A redelegation is worth at least min_stake, to its source and to its
\* destination.
LEMMA RedelegateAmountTypes ==
  ASSUME IInv, NEW a \in DOMAIN stake_list, NEW src, NEW dst,
         RedelegateAllowed(a, src, dst)
  PROVE  /\ redelegate_amount(a, src, dst) \in Nat
         /\ redelegate_amount(a, src, dst) <= last_update(a)
<1>1. /\ src \in DOMAIN validator_list /\ dst \in DOMAIN validator_list
      /\ a \in DOMAIN stake_accounts /\ last_update(a) \in Nat
  BY StakesAreTyped DEF RedelegateAllowed, IInv, TypeOK, StakeTypes
<1>2. total_active_balance + stake_delta \in Nat
  BY StateTypes DEF RedelegateAllowed, IInv, TypeOK, ValidatorTypes
<1>3. stake_target_of(src) \in Nat /\ stake_target_of(dst) \in Nat
  BY <1>1, <1>2, TargetTypes DEF stake_target_of
<1>4. /\ validator_list[src].active_balance \in Nat
      /\ validator_list[dst].active_balance \in Nat
  BY <1>1 DEF IInv, TypeOK, ValidatorTypes, ValidatorRecord
<1>5. /\ validator_list[src].active_balance
           >= stake_target_of(src) + config.min_stake
      /\ validator_list[dst].active_balance + config.min_stake
           <= stake_target_of(dst)
  BY DEF RedelegateAllowed, min_stake
<1>6. config.min_stake \in Nat
  BY ConfigTypes
<1> QED BY <1>1, <1>3, <1>4, <1>5, <1>6 DEF redelegate_amount, Lesser

LEMMA MoveStakeKeeps ==
  ASSUME IInv, NEW src \in DOMAIN validator_list,
         NEW dst \in DOMAIN validator_list, NEW n \in Nat, src # dst,
         MoveStake(src, dst, n), StakeTypes', outside_sol' \in Nat
  PROVE  IInv'
<1>1. ValidatorTypes'
  <2>1. /\ validator_list[src].active_balance - n \in Nat
        /\ validator_list[dst].active_balance + n \in Nat
    BY DEF MoveStake, IInv, TypeOK, ValidatorTypes, ValidatorRecord
  <2>2. validator_list \in [DOMAIN validator_list -> ValidatorRecord]
    BY DEF IInv, TypeOK, ValidatorTypes
  <2>3. /\ validator_list' \in [DOMAIN validator_list -> ValidatorRecord]
        /\ DOMAIN validator_list' = DOMAIN validator_list
    BY <2>1, <2>2 DEF MoveStake, ValidatorRecord
  <2> QED BY <2>3 DEF MoveStake, IInv, TypeOK, ValidatorTypes
<1>2. MovedTypes' /\ WorldTypes'
  BY OnStakeMovedTypes DEF MoveStake, IInv, TypeOK, WorldTypes
<1> QED BY <1>1, <1>2, Untouched DEF MoveStake, IInv, TypeOK

LEMMA RedelegateWholeStakeKeeps ==
  ASSUME IInv, NEW a \in DOMAIN stake_list, NEW dst \in DOMAIN validator_list,
         NEW c \in StakeAccount, RedelegateWholeStake(a, dst, c)
  PROVE  IInv'
<1> DEFINE src == stake_accounts[a].voter
           n == last_update(a)
           emptied == [deactivated(stake_accounts[a]) EXCEPT !.balance = @ - n]
           native == new_stake_account(dst, n, "activating", "marinade")
<1>1. /\ a \in DOMAIN stake_accounts /\ n \in Nat
      /\ src \in DOMAIN validator_list /\ src # dst
      /\ n <= stake_accounts[a].balance /\ dst \in Validator
      /\ stake_accounts[a].balance \in Nat
  BY StakesAreTyped
     DEF IInv, TypeOK, StakeTypes, ValidatorTypes, RedelegateWholeStake,
         RedelegateAllowed
<1>2. /\ stake_accounts' =
           Put([stake_accounts EXCEPT ![a] = emptied], c, native)
      /\ stake_list' = Put([stake_list EXCEPT ![a] = new_stake_record(0, 0)],
                           c, new_stake_record(n, 0))
      /\ pay_rent(1)
      /\ MoveStake(src, dst, n)
  BY DEF RedelegateWholeStake
<1>3. emptied \in NativeStake
  <2>1. deactivated(stake_accounts[a]) \in NativeStake
    BY <1>1, DeactivatedTypes
  <2>2. deactivated(stake_accounts[a]).balance = stake_accounts[a].balance
    BY <1>1, StakesAreTyped DEF deactivated, NativeStake
  <2>3. deactivated(stake_accounts[a]).balance - n \in Nat
    BY <1>1, <2>2
  <2> QED BY <2>1, <2>3 DEF NativeStake
<1>4. /\ native \in NativeStake
      /\ new_stake_record(0, 0) \in StakeRecord
      /\ new_stake_record(n, 0) \in StakeRecord
  BY <1>1, NewAccountTypes DEF Statuses, new_stake_record, StakeRecord
<1>5. StakeTypes'
  <2>1. stake_accounts \in [DOMAIN stake_accounts -> NativeStake]
        /\ stake_list \in [DOMAIN stake_list -> StakeRecord]
    BY DEF IInv, TypeOK, StakeTypes
  <2> HIDE DEF emptied, native, n
  <2>2. /\ DOMAIN stake_accounts' = DOMAIN stake_accounts \cup {c}
        /\ stake_accounts' \in [DOMAIN stake_accounts' -> NativeStake]
    BY <1>2, <1>3, <1>4, <2>1 DEF Put
  <2>3. /\ DOMAIN stake_list' = DOMAIN stake_list \cup {c}
        /\ stake_list' \in [DOMAIN stake_list' -> StakeRecord]
    BY <1>2, <1>4, <2>1 DEF Put
  <2> QED BY <2>2, <2>3 DEF IInv, TypeOK, StakeTypes
<1>6. outside_sol' \in Nat
  BY <1>2, PayRentTypes
<1> HIDE DEF src, n
<1> QED BY <1>1, <1>2, <1>5, <1>6, MoveStakeKeeps

LEMMA RedelegateSplitStakeKeeps ==
  ASSUME IInv, NEW a \in DOMAIN stake_list, NEW dst \in DOMAIN validator_list,
         NEW b \in StakeAccount, NEW c \in StakeAccount,
         RedelegateSplitStake(a, dst, b, c)
  PROVE  IInv'
<1> DEFINE src == stake_accounts[a].voter
           n == redelegate_amount(a, src, dst)
           less == [stake_accounts EXCEPT ![a].stake = @ - n,
                                          ![a].balance = @ - n]
           gone == [new_stake_account(src, n, "deactivating", "marinade")
                      EXCEPT !.balance = 0]
           native == new_stake_account(dst, n, "activating", "marinade")
<1>1. /\ a \in DOMAIN stake_accounts
      /\ RedelegateAllowed(a, src, dst)
      /\ src \in DOMAIN validator_list /\ src # dst
      /\ dst \in Validator /\ src \in Validator
      /\ stake_accounts[a].stake = last_update(a)
  BY DEF IInv, TypeOK, StakeTypes, ValidatorTypes, RedelegateSplitStake,
         RedelegateAllowed, check_stake_amount_and_validator
<1>2. n \in Nat /\ n <= last_update(a)
  BY <1>1, RedelegateAmountTypes
<1> HIDE DEF n
<1>3. /\ n <= stake_accounts[a].balance
      /\ stake_accounts' = Put(Put(less, b, gone), c, native)
      /\ stake_list' = Put(Put(reduced(a, n), b, new_stake_record(0, 0)),
                           c, new_stake_record(n, 0))
      /\ pay_rent(2)
      /\ MoveStake(src, dst, n)
  BY DEF RedelegateSplitStake, n
<1>4. less \in [DOMAIN stake_accounts -> NativeStake]
  <2>1. /\ stake_accounts[a].stake - n \in Nat
        /\ stake_accounts[a].balance - n \in Nat
    BY <1>1, <1>2, <1>3, StakesAreTyped
  <2>2. stake_accounts \in [DOMAIN stake_accounts -> NativeStake]
    BY DEF IInv, TypeOK, StakeTypes
  <2> QED BY <2>1, <2>2 DEF NativeStake
<1>5. /\ native \in NativeStake /\ gone \in NativeStake
      /\ new_stake_record(0, 0) \in StakeRecord
      /\ new_stake_record(n, 0) \in StakeRecord
  BY <1>1, <1>2
     DEF Statuses, new_stake_account, NativeStake, new_stake_record,
         StakeRecord
<1>6. reduced(a, n) \in [DOMAIN stake_list -> StakeRecord]
  BY <1>2, ReducedTypes
<1>7. StakeTypes'
  <2> HIDE DEF less, gone, native, src
  <2>1. /\ DOMAIN stake_accounts' = DOMAIN stake_accounts \cup {b, c}
        /\ stake_accounts' \in [DOMAIN stake_accounts' -> NativeStake]
    BY <1>3, <1>4, <1>5 DEF Put
  <2>2. /\ DOMAIN stake_list' = DOMAIN stake_list \cup {b, c}
        /\ stake_list' \in [DOMAIN stake_list' -> StakeRecord]
    BY <1>3, <1>5, <1>6 DEF Put
  <2> QED BY <2>1, <2>2 DEF IInv, TypeOK, StakeTypes
<1>8. outside_sol' \in Nat
  BY <1>3, PayRentTypes
<1> HIDE DEF src
<1> QED BY <1>1, <1>2, <1>3, <1>7, <1>8, MoveStakeKeeps

---------------------------------------------------------------------------
(* Management                                                              *)

LEMMA AddValidatorKeeps ==
  ASSUME IInv, NEW v \in Validator, NEW score \in Nat, AddValidator(v, score)
  PROVE  IInv'
<1>1. ValidatorTypes'
  <2>1. new_validator(score) \in ValidatorRecord
    BY DEF new_validator, ValidatorRecord
  <2>2. validator_list' = Put(validator_list, v, new_validator(score))
    BY DEF AddValidator
  <2>3. /\ DOMAIN validator_list' \subseteq Validator
        /\ validator_list' \in [DOMAIN validator_list' -> ValidatorRecord]
    BY <2>1, <2>2 DEF Put, IInv, TypeOK, ValidatorTypes
  <2> QED BY <2>3 DEF AddValidator, IInv, TypeOK, ValidatorTypes
<1> QED BY <1>1, Untouched DEF AddValidator, IInv, TypeOK

LEMMA RemoveValidatorKeeps ==
  ASSUME IInv, NEW v \in DOMAIN validator_list, RemoveValidator(v)
  PROVE  IInv'
<1>1. ValidatorTypes'
  BY DEF RemoveValidator, Without, IInv, TypeOK, ValidatorTypes,
     ValidatorRecord
<1> QED BY <1>1, Untouched DEF RemoveValidator, IInv, TypeOK

LEMMA SetValidatorScoreKeeps ==
  ASSUME IInv, NEW v \in DOMAIN validator_list, NEW score \in Nat,
         SetValidatorScore(v, score)
  PROVE  IInv'
<1>1. ValidatorTypes'
  BY DEF SetValidatorScore, IInv, TypeOK, ValidatorTypes, ValidatorRecord
<1> QED BY <1>1, Untouched DEF SetValidatorScore, IInv, TypeOK

LEMMA ConfigValidatorSystemKeeps ==
  ASSUME IInv, NEW runs \in Nat, ConfigValidatorSystem(runs)
  PROVE  IInv'
<1>1. DeltaTypes'
  BY DEF ConfigValidatorSystem, IInv, TypeOK, DeltaTypes
<1> QED BY <1>1, Untouched DEF ConfigValidatorSystem, IInv, TypeOK

LEMMA StartEmergencyUnstakeKeeps ==
  ASSUME IInv, NEW v \in DOMAIN validator_list, NEW n \in Nat,
         StartEmergencyUnstake(v, n), StakeTypes', outside_sol' \in Nat
  PROVE  IInv'
<1>1. ValidatorTypes' /\ CoolingTypes' /\ WorldTypes'
  BY DEF StartEmergencyUnstake, IInv, TypeOK, ValidatorTypes, ValidatorRecord,
         CoolingTypes, WorldTypes
<1>2. MovedTypes'
  BY OnStakeMovedTypes DEF StartEmergencyUnstake
<1> QED BY <1>1, <1>2, Untouched DEF StartEmergencyUnstake, IInv, TypeOK

LEMMA UnstakeWholeAccountTypes ==
  ASSUME IInv, NEW a \in DOMAIN stake_list, UnstakeWholeAccount(a)
  PROVE  StakeTypes' /\ outside_sol' \in Nat
<1>1. a \in DOMAIN stake_accounts
  BY DEF IInv, TypeOK, StakeTypes
<1>2. stake_list' \in [DOMAIN stake_list -> StakeRecord]
  BY DEF UnstakeWholeAccount, IInv, TypeOK, StakeTypes, StakeRecord
<1>3. stake_accounts' \in [DOMAIN stake_accounts -> NativeStake]
  BY <1>1, DeactivatedTypes DEF UnstakeWholeAccount
<1>4. outside_sol' \in Nat
  BY PayRentTypes DEF UnstakeWholeAccount
<1> QED BY <1>2, <1>3, <1>4 DEF IInv, TypeOK, StakeTypes

LEMMA EmergencyUnstakeKeeps ==
  ASSUME IInv, NEW a \in DOMAIN stake_list, EmergencyUnstake(a)
  PROVE  IInv'
<1> DEFINE v == stake_accounts[a].voter
<1>1. /\ v \in DOMAIN validator_list
      /\ UnstakeWholeAccount(a)
      /\ StartEmergencyUnstake(v, last_update(a))
  BY DEF EmergencyUnstake
<1>2. last_update(a) \in Nat
  BY StakesAreTyped DEF IInv, TypeOK, StakeTypes
<1> HIDE DEF v
<1> QED BY <1>1, <1>2, UnstakeWholeAccountTypes, StartEmergencyUnstakeKeeps

LEMMA PartialUnstakeWholeKeeps ==
  ASSUME IInv, NEW a \in DOMAIN stake_list, NEW l \in Nat,
         PartialUnstakeWhole(a, l)
  PROVE  IInv'
<1> DEFINE v == stake_accounts[a].voter
<1>1. /\ v \in DOMAIN validator_list
      /\ UnstakeWholeAccount(a)
      /\ StartEmergencyUnstake(v, last_update(a))
  BY DEF PartialUnstakeWhole, PartialUnstakeAllowed
<1>2. last_update(a) \in Nat
  BY StakesAreTyped DEF IInv, TypeOK, StakeTypes
<1> HIDE DEF v
<1> QED BY <1>1, <1>2, UnstakeWholeAccountTypes, StartEmergencyUnstakeKeeps

\* What is split off is no more than the account: at least min_stake, which
\* is not 0, stays behind.
LEMMA PartialUnstakeSplitKeeps ==
  ASSUME IInv, NEW a \in DOMAIN stake_list, NEW b \in StakeAccount,
         NEW l \in Nat, PartialUnstakeSplit(a, b, l)
  PROVE  IInv'
<1> DEFINE v == stake_accounts[a].voter
           n == Lesser(l, over_target(v))
           native == deactivated(new_stake_account(v, n,
                       stake_accounts[a].status, "marinade"))
<1>1. /\ a \in DOMAIN stake_accounts /\ v \in DOMAIN validator_list
      /\ PartialUnstakeAllowed(a, v, l)
      /\ stake_accounts[a].stake = last_update(a)
  BY DEF IInv, TypeOK, StakeTypes, PartialUnstakeSplit, PartialUnstakeAllowed,
         check_stake_amount_and_validator
<1>2. n \in Nat
  <2>1. total_active_balance + stake_delta \in Nat
    BY <1>1, StateTypes DEF PartialUnstakeAllowed, IInv, TypeOK, ValidatorTypes
  <2>2. validator_stake_target(v, total_active_balance + stake_delta) \in Nat
    BY <1>1, <2>1, TargetTypes
  <2>3. over_target(v) \in Int
    BY <1>1, <2>2
       DEF over_target, IInv, TypeOK, ValidatorTypes, ValidatorRecord
  <2>4. over_target(v) > config.min_stake /\ config.min_stake \in Nat
    BY <1>1, ConfigTypes DEF PartialUnstakeAllowed, min_stake
  <2> QED BY <2>3, <2>4 DEF Lesser
<1> HIDE DEF n
<1>3. /\ Monus(last_update(a), n) >= config.min_stake
      /\ split(a, b, n, native)
      /\ stake_list' = with_split(a, b, n, 1)
      /\ StartEmergencyUnstake(v, n)
  BY DEF PartialUnstakeSplit, min_stake, n
<1>4. n <= last_update(a) /\ n <= stake_accounts[a].stake
  <2>1. last_update(a) \in Nat /\ config.min_stake \in Nat
          /\ config.min_stake > 0
    BY <1>1, StakesAreTyped, ConfigTypes
  <2> QED BY <1>1, <1>2, <1>3, <2>1 DEF Monus
<1>5. native \in NativeStake
  BY <1>1, <1>2, StakesAreTyped, NewAccountTypes
<1> HIDE DEF native
<1>6. /\ DOMAIN stake_accounts' = DOMAIN stake_accounts \cup {b}
      /\ stake_accounts' \in [DOMAIN stake_accounts' -> NativeStake]
      /\ DOMAIN stake_accounts' \subseteq StakeAccount
      /\ outside_sol' \in Nat
  BY <1>1, <1>2, <1>3, <1>4, <1>5, SplitTypes
<1>7. /\ DOMAIN stake_list' = DOMAIN stake_list \cup {b}
      /\ stake_list' \in [DOMAIN stake_list' -> StakeRecord]
  BY <1>2, <1>3, <1>4, WithSplitTypes
<1>8. StakeTypes'
  BY <1>6, <1>7 DEF IInv, TypeOK, StakeTypes
<1> HIDE DEF v
<1> QED BY <1>1, <1>2, <1>3, <1>6, <1>8, StartEmergencyUnstakeKeeps

---------------------------------------------------------------------------
(* Admin                                                                   *)

LEMMA ConfigMarinadeKeeps ==
  ASSUME IInv, NEW params \in ConfigMarinadeParams, NEW enabled \in BOOLEAN,
         ConfigMarinade(params, enabled)
  PROVE  IInv'
<1> DEFINE new == [f \in ConfigFields |->
                     IF f \in DOMAIN params THEN params[f] ELSE config[f]]
<1>1. config' = new
  BY DEF ConfigMarinade
<1>2. config' \in Config
  <2>1. \A f \in DOMAIN params : params[f] \in Nat
    BY AdminAssumption
  <2> QED BY <1>1, <2>1 DEF Config, IInv, TypeOK, AdminTypes
<1>3. AdminTypes'
  BY <1>2 DEF ConfigMarinade, IInv, TypeOK, AdminTypes
<1>4. ConfigWithinLimits'
  <2>1. \A f \in ConfigFields : f \notin DOMAIN params => config'[f] = config[f]
    BY <1>1
  <2>2. ValidLiqPool(config)'
    <3>1. \A f \in {"lp_min_fee", "lp_max_fee", "treasury_cut",
                    "lp_liquidity_target"} : config'[f] = config[f]
      BY <2>1 DEF ConfigMarinade, ConfigMarinadeFields, ConfigFields
    <3> QED BY <3>1 DEF IInv, ConfigWithinLimits, ValidLiqPool
  <2>3. config'.reward_fee <= MAX_REWARD_FEE
    BY <1>1, <2>1 DEF ConfigMarinade, ConfigFields, IInv, ConfigWithinLimits
  <2>4. config'.min_stake >= MIN_STAKE_LOWER_LIMIT
    BY <1>1, <2>1 DEF ConfigMarinade, ConfigFields, IInv, ConfigWithinLimits
  <2>5. config'.min_withdraw <= MAX_WITHDRAW_ATOM
    BY <1>1, <2>1 DEF ConfigMarinade, ConfigFields, IInv, ConfigWithinLimits
  <2>6. config'.delayed_unstake_fee <= MAX_DELAYED_UNSTAKE_FEE
    BY <1>1, <2>1 DEF ConfigMarinade, ConfigFields, IInv, ConfigWithinLimits
  <2>7. config'.withdraw_stake_account_fee <= MAX_WITHDRAW_STAKE_ACCOUNT_FEE
    BY <1>1, <2>1 DEF ConfigMarinade, ConfigFields, IInv, ConfigWithinLimits
  <2> QED BY <2>2, <2>3, <2>4, <2>5, <2>6, <2>7 DEF ConfigWithinLimits
<1> QED BY <1>3, <1>4, Untouched DEF ConfigMarinade, Books, IInv, TypeOK

LEMMA ConfigLpKeeps ==
  ASSUME IInv, NEW params \in ConfigLpParams, ConfigLp(params)
  PROVE  IInv'
<1> DEFINE new == [f \in ConfigFields |->
                     IF f \in DOMAIN params THEN params[f] ELSE config[f]]
<1>1. config' = new /\ ValidLiqPool(new)
  BY DEF ConfigLp
<1>2. config' \in Config
  <2>1. \A f \in DOMAIN params : params[f] \in Nat
    BY AdminAssumption
  <2> QED BY <1>1, <2>1 DEF Config, IInv, TypeOK, AdminTypes
<1>3. AdminTypes'
  BY <1>2 DEF ConfigLp, IInv, TypeOK, AdminTypes
<1>4. ConfigWithinLimits'
  <2>1. \A f \in {"reward_fee", "min_stake", "min_withdraw",
                  "delayed_unstake_fee", "withdraw_stake_account_fee"} :
          config'[f] = config[f]
    BY <1>1 DEF ConfigLp, ConfigLpFields, ConfigFields
  <2>2. ValidLiqPool(config)'
    BY <1>1 DEF ValidLiqPool
  <2> QED BY <2>1, <2>2 DEF IInv, ConfigWithinLimits
<1> QED BY <1>3, <1>4, Untouched DEF ConfigLp, Books, IInv, TypeOK

LEMMA ReallocStakeListKeeps ==
  ASSUME IInv, NEW n \in Nat, ReallocStakeList(n)
  PROVE  IInv'
<1>1. config' = [config EXCEPT !["stake_list_capacity"] = n]
  BY DEF ReallocStakeList
<1>2. AdminTypes'
  BY <1>1 DEF ReallocStakeList, IInv, TypeOK, AdminTypes, Config
<1>3. ConfigWithinLimits'
  BY <1>1 DEF IInv, TypeOK, AdminTypes, Config, ConfigFields,
              ConfigWithinLimits, ValidLiqPool
<1> QED BY <1>2, <1>3, Untouched DEF ReallocStakeList, Books, IInv, TypeOK

LEMMA ReallocValidatorListKeeps ==
  ASSUME IInv, NEW n \in Nat, ReallocValidatorList(n)
  PROVE  IInv'
<1>1. config' = [config EXCEPT !["validator_list_capacity"] = n]
  BY DEF ReallocValidatorList
<1>2. AdminTypes'
  BY <1>1 DEF ReallocValidatorList, IInv, TypeOK, AdminTypes, Config
<1>3. ConfigWithinLimits'
  BY <1>1 DEF IInv, TypeOK, AdminTypes, Config, ConfigFields,
              ConfigWithinLimits, ValidLiqPool
<1> QED BY <1>2, <1>3, Untouched DEF ReallocValidatorList, Books, IInv, TypeOK

LEMMA AdminKeeps ==
  ASSUME IInv, AdminNext
  PROVE  IInv'
<1>1. ASSUME Pause PROVE IInv'
  <2>1. AdminTypes' /\ ConfigWithinLimits'
    BY <1>1 DEF Pause, IInv, TypeOK, AdminTypes, ConfigWithinLimits,
       ValidLiqPool
  <2> QED BY <1>1, <2>1, Untouched DEF Pause, Books, IInv, TypeOK
<1>2. ASSUME Resume PROVE IInv'
  <2>1. AdminTypes' /\ ConfigWithinLimits'
    BY <1>2 DEF Resume, IInv, TypeOK, AdminTypes, ConfigWithinLimits,
       ValidLiqPool
  <2> QED BY <1>2, <2>1, Untouched DEF Resume, Books, IInv, TypeOK
<1>3. ASSUME NEW ready \in BOOLEAN, ChangeAuthority(ready) PROVE IInv'
  <2>1. AdminTypes' /\ ConfigWithinLimits'
    BY <1>3 DEF ChangeAuthority, IInv, TypeOK, AdminTypes, ConfigWithinLimits,
                ValidLiqPool
  <2> QED BY <1>3, <2>1, Untouched DEF ChangeAuthority, Books, IInv, TypeOK
<1>4. Capacities \subseteq Nat
  BY AdminAssumption
<1> QED BY <1>1, <1>2, <1>3, <1>4, ConfigMarinadeKeeps, ConfigLpKeeps,
           ReallocStakeListKeeps, ReallocValidatorListKeeps DEF AdminNext

---------------------------------------------------------------------------
(* The chain                                                               *)

LEMMA TickKeeps ==
  ASSUME IInv, Tick
  PROVE  IInv'
<1>1. WorldTypes'
  BY DEF Tick, IInv, TypeOK, WorldTypes, Phases
<1> QED BY <1>1, Untouched DEF Tick, Nobody, IInv, TypeOK

LEMMA NextEpochKeeps ==
  ASSUME IInv, NEW rewarded \in SUBSET DOMAIN stake_accounts,
         NextEpoch(rewarded)
  PROVE  IInv'
<1> DEFINE reward(a) == IF a \in rewarded THEN 1 ELSE 0
<1>1. WorldTypes'
  <2>1. IsFiniteSet(StakeAccount)
    BY StateAssumption
  <2>2. rewarded \in SUBSET StakeAccount
    BY DEF IInv, TypeOK, StakeTypes
  <2>3. Cardinality(rewarded) \in Nat
    BY <2>1, <2>2, FS_Subset, FS_CardinalityType
  <2> QED BY <2>3 DEF NextEpoch, IInv, TypeOK, WorldTypes, Phases
<1>2. StakeTypes'
  <2>1. stake_accounts' = [a \in DOMAIN stake_accounts |->
                             AtEpochEnd(stake_accounts[a], reward(a))]
    BY DEF NextEpoch
  <2>2. ASSUME NEW native \in NativeStake, NEW n \in {0, 1}
        PROVE  AtEpochEnd(native, n) \in NativeStake
    <3> DEFINE status == CASE native.status = "activating"   -> "active"
                           [] native.status = "deactivating" -> "inactive"
                           [] OTHER                          -> native.status
    <3>1. native.stake + n \in Nat /\ native.balance + n \in Nat
      BY DEF NativeStake
    <3>2. status \in Statuses
      BY DEF NativeStake, Statuses
    <3>3. AtEpochEnd(native, n) =
            [native EXCEPT !.status = status, !.stake = native.stake + n,
                           !.balance = native.balance + n]
      BY DEF AtEpochEnd
    <3> HIDE DEF status
    <3> QED BY <3>1, <3>2, <3>3 DEF NativeStake
  <2>3. stake_accounts' \in [DOMAIN stake_accounts -> NativeStake]
    BY <2>1, <2>2 DEF IInv, TypeOK, StakeTypes
  <2> QED BY <2>3 DEF NextEpoch, IInv, TypeOK, StakeTypes
<1>3. TicketTypes'
  BY DEF NextEpoch, IInv, TypeOK, TicketTypes, TicketAccountData
<1>4. ValidatorTypes'
  BY DEF NextEpoch, IInv, TypeOK, ValidatorTypes, ValidatorRecord
<1>5. DeltaTypes' /\ MovedTypes'
  BY DEF NextEpoch, IInv, TypeOK, DeltaTypes, MovedTypes
<1> QED BY <1>1, <1>2, <1>3, <1>4, <1>5, Untouched DEF NextEpoch, IInv, TypeOK

LEMMA UserStakesKeeps ==
  ASSUME IInv, NEW a \in StakeAccount, NEW v \in Validator, NEW l \in Nat,
         UserStakes(a, v, l)
  PROVE  IInv'
<1> DEFINE native == new_stake_account(v, l, "activating", "user")
<1>1. native \in NativeStake
  BY NewAccountTypes DEF Statuses
<1> HIDE DEF native
<1>2. stake_accounts' = Put(stake_accounts, a, native)
  BY DEF UserStakes, native
<1>3. StakeTypes'
  BY <1>1, <1>2 DEF UserStakes, Put, IInv, TypeOK, StakeTypes
<1>4. WorldTypes'
  BY ConstantTypes
     DEF UserStakes, ClockUnchanged, IInv, TypeOK, WorldTypes
<1> QED BY <1>3, <1>4, Untouched
        DEF UserStakes, ClockUnchanged, Nobody, IInv, TypeOK

LEMMA PayStakeAccountKeeps ==
  ASSUME IInv, NEW a \in DOMAIN stake_accounts, NEW l \in Nat,
         PayStakeAccount(a, l)
  PROVE  IInv'
<1>1. StakeTypes'
  BY DEF PayStakeAccount, IInv, TypeOK, StakeTypes, NativeStake
<1>2. WorldTypes'
  BY DEF PayStakeAccount, ClockUnchanged, IInv, TypeOK, WorldTypes
<1> QED BY <1>1, <1>2, Untouched
        DEF PayStakeAccount, ClockUnchanged, Nobody, IInv, TypeOK

LEMMA SlashKeeps ==
  ASSUME IInv, NEW a \in DOMAIN stake_accounts, NEW l \in Nat, Slash(a, l)
  PROVE  IInv'
<1>1. /\ stake_accounts[a].stake - l \in Nat
      /\ stake_accounts[a].balance - l \in Nat
  BY StakesAreTyped DEF Slash
<1>2. stake_accounts \in [DOMAIN stake_accounts -> NativeStake]
  BY DEF IInv, TypeOK, StakeTypes
<1>3. stake_accounts' \in [DOMAIN stake_accounts -> NativeStake]
  BY <1>1, <1>2 DEF Slash, NativeStake
<1>4. StakeTypes'
  BY <1>3 DEF Slash, IInv, TypeOK, StakeTypes
<1>5. WorldTypes'
  BY DEF Slash, ClockUnchanged, IInv, TypeOK, WorldTypes
<1> QED BY <1>4, <1>5, Untouched DEF Slash, ClockUnchanged, Nobody, IInv,
TypeOK

LEMMA PayReserveKeeps ==
  ASSUME IInv, NEW l \in Nat, PayReserve(l)
  PROVE  IInv'
<1>1. ReserveTypes' /\ WorldTypes'
  BY DEF PayReserve, ClockUnchanged, IInv, TypeOK, ReserveTypes, WorldTypes
<1>2. BooksAreConservative'
  BY ConstantTypes
     DEF PayReserve, IInv, TypeOK, ReserveTypes, BooksAreConservative,
         mint_supply, mintVars, poolVars
<1> QED BY <1>1, <1>2, Untouched
        DEF PayReserve, ClockUnchanged, Nobody, stakeVars, IInv, TypeOK

LEMMA BurnsKeep ==
  ASSUME IInv, NEW n \in Nat, BurnMsol(n) \/ BurnLp(n)
  PROVE  IInv'
<1>1. MintTypes' /\ PoolTypes' /\ WorldTypes'
  BY DEF BurnMsol, BurnLp, ClockUnchanged, IInv, TypeOK, MintTypes, PoolTypes,
         WorldTypes, mintVars, poolVars
<1>2. BooksAreConservative'
  BY DEF BurnMsol, BurnLp, IInv, TypeOK, MintTypes, PoolTypes,
         BooksAreConservative, mint_supply, mintVars, poolVars, reserveVars
<1> QED BY <1>1, <1>2, Untouched
        DEF BurnMsol, BurnLp, ClockUnchanged, Nobody, IInv, TypeOK

---------------------------------------------------------------------------
(* The whole program                                                       *)

LEMMA InitKeeps == Init => IInv
<1> SUFFICES ASSUME NEW d \in InitializeData, Initialize(d),
                    phase = "start", outside_sol \in InitialSol
             PROVE  IInv
  BY DEF Init
<1>1. d \in Config
  BY StateAssumption
<1>2. \A f \in ConfigFields : d[f] \in Nat
  BY <1>1 DEF Config
<1>3. config = InitialConfig(d)
  BY DEF Initialize, EmptyBooks
<1>4. U64 - 1 \in Nat /\ MAX_BASIS_POINTS \in Nat
  BY CalcAssumption
<1>5. config \in Config
  BY <1>2, <1>3, <1>4 DEF InitialConfig, Config
<1>6. ConfigWithinLimits
  <2>1. \A f \in {"reward_fee", "min_stake", "lp_liquidity_target",
                  "lp_max_fee", "lp_min_fee", "treasury_cut"} :
          config[f] = d[f]
    BY <1>3 DEF InitialConfig, ConfigFields
  <2>2. ValidLiqPool(config) /\ config.reward_fee <= MAX_REWARD_FEE
          /\ config.min_stake >= MIN_STAKE_LOWER_LIMIT
    BY <2>1 DEF Initialize, ValidLiqPool
  <2>3. config.delayed_unstake_fee = 0 /\ config.withdraw_stake_account_fee = 0
          /\ config.min_withdraw = 1
    BY <1>3 DEF InitialConfig, ConfigFields
  <2>4. 1 <= MAX_WITHDRAW_ATOM /\ 0 <= MAX_DELAYED_UNSTAKE_FEE
          /\ 0 <= MAX_WITHDRAW_STAKE_ACCOUNT_FEE
    BY StateAssumption
  <2> QED BY <2>2, <2>3, <2>4 DEF ConfigWithinLimits
<1>7. AdminTypes
  BY <1>5 DEF Initialize, EmptyBooks, AdminTypes
<1>8. /\ ReserveTypes /\ MintTypes /\ CoolingTypes /\ MovedTypes
      /\ DeltaTypes /\ PoolTypes /\ BooksAreConservative
  <2>1. /\ available_reserve_balance = 0 /\ reserve_pda = TokenRent
        /\ msol_supply = 0 /\ user_msol = 0 /\ treasury_msol = 0
        /\ emergency_cooling_down = 0 /\ delayed_unstake_cooling_down = 0
        /\ stake_moved = 0 /\ stake_move_is_current = FALSE
        /\ stake_delta_ran = FALSE /\ extra_stake_delta_runs = 0
        /\ lp_supply = 0 /\ user_lp = 0
        /\ sol_leg_pda = TokenRent /\ msol_leg = 0
    BY DEF Initialize, EmptyBooks
  <2>2. MovedTypes /\ DeltaTypes
    BY <2>1 DEF MovedTypes, DeltaTypes
  <2>3. ReserveTypes /\ MintTypes /\ CoolingTypes /\ PoolTypes
    BY <2>1, ConstantTypes DEF ReserveTypes, MintTypes, CoolingTypes, PoolTypes
  <2>4. BooksAreConservative
    BY <2>1, ConstantTypes DEF BooksAreConservative, mint_supply
  <2> QED BY <2>2, <2>3, <2>4
<1>9. TicketTypes /\ StakeTypes
  BY DEF Initialize, EmptyBooks, Nothing, TicketTypes, StakeTypes
<1>10. ValidatorTypes
  <2>1. Total(Nothing) = 0 /\ DOMAIN Nothing = {}
    BY TotalOfNothing DEF Nothing
  <2>2. validator_list = [v \in {} |-> new_validator(Nothing[v])]
    BY <2>1 DEF Initialize, EmptyBooks
  <2>3. DOMAIN validator_list = {}
    BY <2>2
  <2>4. total_validator_score = 0 /\ total_active_balance = 0
    BY <2>1 DEF Initialize, EmptyBooks
  <2> QED BY <2>2, <2>3, <2>4 DEF ValidatorTypes
<1>11. WorldTypes
  BY ConstantTypes DEF WorldTypes, Phases
<1> QED BY <1>6, <1>7, <1>8, <1>9, <1>10, <1>11 DEF IInv, TypeOK

LEMMA NextKeeps == IInv /\ [Next]_vars => IInv'
<1> SUFFICES ASSUME IInv, [Next]_vars PROVE IInv'
  OBVIOUS
<1>0. Lamports \subseteq Nat /\ DOMAIN stake_list \subseteq DOMAIN stake_accounts
  BY ConstantTypes DEF IInv, TypeOK, StakeTypes
<1>1. CASE UsersNext
  BY <1>0, <1>1, DepositKeeps, DepositStakeAccountKeeps,
     WithdrawStakeAccountKeeps, OrderUnstakeKeeps, ClaimKeeps
     DEF UsersNext, StakeAccountsNext
<1>2. CASE LiquidityPoolNext
  BY <1>0, <1>2, AddLiquidityKeeps, RemoveLiquidityKeeps, LiquidUnstakeKeeps
     DEF LiquidityPoolNext
<1>3. CASE CrankNext
  BY <1>3, UpdateActiveKeeps, UpdateDeactivatedKeeps, StakeReserveKeeps,
     StakeReserveReturnsEarlyKeeps, DeactivateWholeStakeKeeps,
     DeactivateSplitStakeKeeps, MergeStakesKeeps DEF CrankNext
<1>4. CASE RedelegateNext
  BY <1>4, RedelegateWholeStakeKeeps, RedelegateSplitStakeKeeps
     DEF RedelegateNext
<1>5. CASE UnstakeNext
  BY <1>0, <1>5, EmergencyUnstakeKeeps, PartialUnstakeWholeKeeps,
     PartialUnstakeSplitKeeps DEF UnstakeNext
<1>6. CASE ValidatorsNext
  <2>1. Scores \subseteq Nat /\ ExtraRuns \subseteq Nat
    BY ManagementAssumption
  <2> QED BY <1>6, <2>1, AddValidatorKeeps, RemoveValidatorKeeps,
             SetValidatorScoreKeeps, ConfigValidatorSystemKeeps
          DEF ValidatorsNext
<1>7. CASE AdminNext
  BY <1>7, AdminKeeps
<1>8. CASE ClockNext
  BY <1>8, TickKeeps, NextEpochKeeps DEF ClockNext
<1>9. CASE StakersNext \/ UnbookedNext
  BY <1>0, <1>9, UserStakesKeeps, PayStakeAccountKeeps, PayReserveKeeps,
     BurnsKeep DEF StakersNext, UnbookedNext
<1>10. CASE SlashNext
  BY <1>0, <1>10, SlashKeeps DEF SlashNext
<1>11. CASE UNCHANGED vars
  BY <1>11, Untouched DEF vars, IInv, TypeOK
<1> QED BY <1>1, <1>2, <1>3, <1>4, <1>5, <1>6, <1>7, <1>8, <1>9, <1>10, <1>11
        DEF Next, UnslashedNext, ProgramNext

\* The invariant that everything else rests on.
THEOREM Invariance == Spec => []IInv
BY InitKeeps, NextKeeps, PTL DEF Spec

\* Every instruction of lib.rs, in any order, leaves every field of State,
\* every record and every account with a value of its type: no amount ever
\* falls below zero and no record is left without its stake account.
THEOREM TypesAreKept == Spec => []TypeOK
<1>1. IInv => TypeOK
  BY DEF IInv
<1> QED BY <1>1, Invariance, PTL

\* config_marinade.rs, config_lp.rs: no combination of optional arguments
\* takes a fee over its limit.
THEOREM ConfigStaysWithinLimits == Spec => []ConfigWithinLimits
<1>1. IInv => ConfigWithinLimits
  BY DEF IInv
<1> QED BY <1>1, Invariance, PTL

\* The virtual reserve is covered by the real one and the virtual supplies
\* cover the real ones, whatever is paid in or burnt behind their back: the
\* warnings "impossible to happen" of the code are unreachable.
THEOREM BooksStayConservative == Spec => []BooksAreConservative
<1>1. IInv => BooksAreConservative
  BY DEF IInv
<1> QED BY <1>1, Invariance, PTL
===========================================================================
