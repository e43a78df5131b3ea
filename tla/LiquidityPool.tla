--------------------------- MODULE LiquidityPool ---------------------------
(***************************************************************************)
(* The SOL-mSOL pool that pays for instant unstaking                       *)
(* (instructions/liq_pool, state/liq_pool.rs).                             *)
(***************************************************************************)
EXTENDS MarinadeState

\* supply of the LP mint: lp_supply may be above it, for holders may burn
lp_mint_supply == user_lp

\* A variant: the rent is paid out
sol_leg_with_rent == sol_leg_pda

sol_leg_available == sol_leg_pda - TokenRent

check_liquidity_cap(transfering_lamports) ==
  sol_leg_pda + transfering_lamports <= config.liquidity_sol_cap

total_liq_pool_value == sol_leg_available + msol_to_sol(msol_leg)

\* A variant: the mSOL leg is left out of the value
lp_shares_of_sol(lamports) ==
  shares_from_value(lamports, sol_leg_available, lp_mint_supply)

\* add_liquidity.rs
lp_shares(lamports) ==
  shares_from_value(lamports, total_liq_pool_value, lp_mint_supply)

AddLiquidity(lamports) ==
  LET shares_for_user == lp_shares(lamports)
  IN /\ ~ paused
     /\ lamports >= config.min_deposit
     /\ lamports <= outside_sol
     /\ check_liquidity_cap(lamports)
     /\ lp_mint_supply <= lp_supply
     /\ outside_sol' = outside_sol - lamports
     /\ sol_leg_pda' = sol_leg_pda + lamports
     /\ user_lp' = user_lp + shares_for_user
     /\ lp_supply' = lp_mint_supply + shares_for_user
     /\ UNCHANGED <<reserveVars, ticketVars, coolingVars, movedVars,
                    deltaVars, stakeVars, validatorVars, mintVars, msol_leg,
                    adminVars, phase>>

\* remove_liquidity.rs
lp_supply_used == Lesser(lp_mint_supply, lp_supply)

sol_out_amount(tokens) ==
  proportional(tokens, sol_leg_available, lp_supply_used)

msol_out_amount(tokens) == proportional(tokens, msol_leg, lp_supply_used)

RemoveLiquidity(tokens) ==
  LET sol_out == sol_out_amount(tokens)
      msol_out == msol_out_amount(tokens)
  IN /\ ~ paused
     /\ tokens <= user_lp
     /\ sol_out + msol_to_sol(msol_out) >= config.min_withdraw
     /\ sol_out <= sol_leg_available /\ msol_out <= msol_leg
     /\ tokens <= lp_supply_used
     /\ sol_leg_pda' = sol_leg_pda - sol_out
     /\ msol_leg' = msol_leg - msol_out
     /\ outside_sol' = outside_sol + sol_out
     /\ user_msol' = user_msol + msol_out
     /\ user_lp' = user_lp - tokens
     /\ lp_supply' = lp_supply_used - tokens
     /\ UNCHANGED <<reserveVars, ticketVars, coolingVars, movedVars,
                    deltaVars, stakeVars, validatorVars, msol_supply,
                    treasury_msol, adminVars, phase>>

\* liquid_unstake.rs.  The fee follows the liquidity that is left after the
\* user is paid.
liquid_unstake_fee(msol_amount) ==
  LET user_remove_lamports == msol_to_sol(msol_amount)
  IN  IF user_remove_lamports >= sol_leg_available
        THEN config.lp_max_fee
        ELSE linear_fee(sol_leg_available - user_remove_lamports,
                        config.lp_liquidity_target, config.lp_max_fee,
                        config.lp_min_fee)

liquid_unstake_msol_fee(msol_amount) ==
  FeeApply(liquid_unstake_fee(msol_amount), msol_amount)

working_lamports_value(msol_amount) ==
  msol_to_sol(msol_amount - liquid_unstake_msol_fee(msol_amount))

treasury_msol_cut(msol_amount) ==
  IF treasury_ready
    THEN FeeApply(config.treasury_cut, liquid_unstake_msol_fee(msol_amount))
    ELSE 0

LiquidUnstake(msol_amount) ==
  LET lamports == working_lamports_value(msol_amount)
      cut == treasury_msol_cut(msol_amount)
  IN /\ ~ paused
     /\ msol_amount <= user_msol
     /\ lamports <= sol_leg_available
     /\ lamports >= config.min_withdraw
     /\ sol_leg_pda' = sol_leg_pda - lamports
     /\ outside_sol' = outside_sol + lamports
     /\ msol_leg' = msol_leg + msol_amount - cut
     /\ treasury_msol' = treasury_msol + cut
     /\ user_msol' = user_msol - msol_amount
     /\ UNCHANGED <<reserveVars, ticketVars, coolingVars, movedVars,
                    deltaVars, stakeVars, validatorVars, msol_supply,
                    lp_supply, user_lp, adminVars, phase>>
---------------------------------------------------------------------------

LiquidityPoolNext ==
  \/ \E l \in Lamports : AddLiquidity(l)
  \/ \E l \in Lamports : RemoveLiquidity(l)
  \/ \E m \in Lamports : LiquidUnstake(m)
===========================================================================
