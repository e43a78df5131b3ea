------------------------------- MODULE Solana ------------------------------
(***************************************************************************)
(* What happens around the program: the clock, the stake program's epoch   *)
(* boundary, and the transfers and burns anybody may do with accounts the  *)
(* program reads.  None of it is in the repository; it is modelled from    *)
(* what the instructions have to cope with.                                *)
(***************************************************************************)
EXTENDS MarinadeState

ClockUnchanged ==
  UNCHANGED <<deltaVars, movedVars, phase>>

Nobody == <<coolingVars, ticketVars, validatorVars, adminVars>>

\* The clock moves through the epoch.
Tick ==
  /\ \/ phase = "start" /\ phase' = "open"
     \/ phase = "open" /\ phase' = "window"
  /\ UNCHANGED <<Nobody, reserveVars, stakeVars, mintVars, poolVars,
                 deltaVars, movedVars, outside_sol>>

\* The epoch ends: delegations become effective or are released, and every
\* account that was effective earns the reward reward[a].
AtEpochEnd(native, reward) ==
  [native EXCEPT
     !.status = CASE @ = "activating"   -> "active"
                  [] @ = "deactivating" -> "inactive"
                  [] OTHER              -> @,
     !.stake = @ + reward,
     !.balance = @ + reward]

NextEpoch(rewarded) ==
  LET reward(a) == IF a \in rewarded THEN 1 ELSE 0
  IN /\ phase = "window"
     /\ phase' = "start"
     /\ \A a \in rewarded :
          stake_accounts[a].status \in {"active", "deactivating"}
     /\ Cardinality(rewarded) <= outside_sol
     /\ outside_sol' = outside_sol - Cardinality(rewarded)
     /\ stake_accounts' = [a \in DOMAIN stake_accounts |->
                             AtEpochEnd(stake_accounts[a], reward(a))]
     /\ tickets' = [t \in DOMAIN tickets |->
          [tickets[t] EXCEPT !.created_epoch = IF @ = 1 THEN 0 ELSE -1]]
     /\ validator_list' = [v \in DOMAIN validator_list |->
          [validator_list[v] EXCEPT !.ran = FALSE]]
     /\ stake_delta_ran' = FALSE
     /\ stake_move_is_current' = FALSE
     /\ UNCHANGED <<reserveVars, circulating_ticket_count,
                    circulating_ticket_balance, coolingVars, stake_moved,
                    extra_stake_delta_runs, stake_list, total_validator_score,
                    total_active_balance, mintVars, poolVars, adminVars>>

\* A user delegates lamports of his own.
UserStakes(a, v, lamports) ==
  /\ a \notin DOMAIN stake_accounts
  /\ lamports + StakeRent <= outside_sol
  /\ outside_sol' = outside_sol - lamports - StakeRent
  /\ stake_accounts' = Put(stake_accounts, a,
       new_stake_account(v, lamports, "activating", "user"))
  /\ UNCHANGED <<Nobody, reserveVars, mintVars, poolVars, stake_list>>
  /\ ClockUnchanged

\* Lamports sent to a stake account: MEV rewards, or anybody's.
PayStakeAccount(a, lamports) ==
  /\ lamports <= outside_sol
  /\ outside_sol' = outside_sol - lamports
  /\ stake_accounts' = [stake_accounts EXCEPT ![a].balance = @ + lamports]
  /\ UNCHANGED <<Nobody, reserveVars, mintVars, poolVars, stake_list>>
  /\ ClockUnchanged

\* A delegation loses lamports.
Slash(a, lamports) ==
  /\ stake_accounts[a].status \in {"active", "deactivating"}
  /\ lamports <= stake_accounts[a].stake
  /\ lamports <= stake_accounts[a].balance
  /\ stake_accounts' = [stake_accounts EXCEPT
       ![a].stake = @ - lamports, ![a].balance = @ - lamports]
  /\ UNCHANGED <<Nobody, reserveVars, mintVars, poolVars, stake_list,
                 outside_sol>>
  /\ ClockUnchanged

\* Lamports sent to the reserve, which the books do not see yet
PayReserve(lamports) ==
  /\ lamports <= outside_sol
  /\ outside_sol' = outside_sol - lamports
  /\ reserve_pda' = reserve_pda + lamports
  /\ UNCHANGED <<Nobody, available_reserve_balance, stakeVars, mintVars,
                 poolVars>>
  /\ ClockUnchanged

\* A holder burns mSOL or LP tokens, which the books do not see yet.
BurnMsol(amount) ==
  /\ amount <= user_msol
  /\ user_msol' = user_msol - amount
  /\ UNCHANGED <<Nobody, reserveVars, stakeVars, msol_supply, treasury_msol,
                 poolVars, outside_sol>>
  /\ ClockUnchanged

BurnLp(amount) ==
  /\ amount <= user_lp
  /\ user_lp' = user_lp - amount
  /\ UNCHANGED <<Nobody, reserveVars, stakeVars, mintVars, sol_leg_pda,
                 msol_leg, lp_supply, outside_sol>>
  /\ ClockUnchanged
---------------------------------------------------------------------------

ClockNext ==
  \/ Tick
  \/ \E rewarded \in SUBSET DOMAIN stake_accounts : NextEpoch(rewarded)

\* What stakers do with stake accounts
StakersNext ==
  \/ \E a \in StakeAccount, v \in Validator, l \in Lamports :
       UserStakes(a, v, l)
  \/ \E a \in DOMAIN stake_accounts, l \in Lamports : PayStakeAccount(a, l)

\* What changes a balance that the program keeps books of, behind its back
UnbookedNext ==
  \/ \E l \in Lamports : PayReserve(l)
  \/ \E m \in Lamports : BurnMsol(m)
  \/ \E m \in Lamports : BurnLp(m)

SlashNext ==
  \E a \in DOMAIN stake_accounts, l \in Lamports : Slash(a, l)
===========================================================================
