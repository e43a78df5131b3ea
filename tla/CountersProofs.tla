--------------------------- MODULE CountersProofs --------------------------
(***************************************************************************)
(* The counters of Marinade that sum up records: the tickets and the       *)
(* scores of the validators, for all constants.  And the pause.            *)
(***************************************************************************)
EXTENDS MarinadeProofs

---------------------------------------------------------------------------
(* Tickets                                                                 *)

\* Only three steps touch a ticket or the counters of tickets.
LEMMA TicketSteps ==
  ASSUME [Next]_vars
  PROVE  \/ UNCHANGED ticketVars
         \/ \E t \in Ticket, m \in Lamports : OrderUnstake(t, m)
         \/ \E t \in DOMAIN tickets : Claim(t)
         \/ \E rewarded \in SUBSET DOMAIN stake_accounts : NextEpoch(rewarded)
<1>1. CASE UsersNext
  BY <1>1 DEF UsersNext, StakeAccountsNext, Deposit, DepositStakeAccount,
     DepositStakeAccountAllowed,
              WithdrawStakeAccount, WithdrawStakeAccountAllowed
<1>2. CASE LiquidityPoolNext
  BY <1>2 DEF LiquidityPoolNext, AddLiquidity, RemoveLiquidity, LiquidUnstake
<1>3. CASE CrankNext
  BY <1>3 DEF CrankNext, UpdateActive, UpdateDeactivated, StakeReserve,
              StakeReserveReturnsEarly, DeactivateWholeStake,
              DeactivateSplitStake, StartDelayedUnstake, MergeStakes
<1>4. CASE RedelegateNext
  <2>1. ASSUME NEW a, NEW dst, NEW c, RedelegateWholeStake(a, dst, c)
        PROVE  UNCHANGED ticketVars
    BY <2>1 DEF RedelegateWholeStake, MoveStake
  <2>2. ASSUME NEW a, NEW dst, NEW b, NEW c, RedelegateSplitStake(a, dst, b, c)
        PROVE  UNCHANGED ticketVars
    BY <2>2 DEF RedelegateSplitStake, MoveStake
  <2> QED BY <1>4, <2>1, <2>2 DEF RedelegateNext
<1>5. CASE UnstakeNext
  BY <1>5 DEF UnstakeNext, EmergencyUnstake, PartialUnstakeWhole,
              PartialUnstakeSplit, StartEmergencyUnstake
<1>6. CASE ValidatorsNext
  BY <1>6 DEF ValidatorsNext, AddValidator, RemoveValidator,
              SetValidatorScore, ConfigValidatorSystem
<1>7. CASE AdminNext
  BY <1>7 DEF AdminNext, Pause, Resume, ConfigMarinade, ConfigLp,
              ChangeAuthority, ReallocStakeList, ReallocValidatorList, Books
<1>8. CASE ClockNext
  BY <1>8 DEF ClockNext, Tick, Nobody
<1>9. CASE StakersNext \/ UnbookedNext
  BY <1>9 DEF StakersNext, UnbookedNext, UserStakes, PayStakeAccount,
              PayReserve, BurnMsol, BurnLp, Nobody
<1>10. CASE SlashNext
  BY <1>10 DEF SlashNext, Slash, Nobody
<1>11. CASE UNCHANGED vars
  BY <1>11 DEF vars
<1> QED BY <1>1, <1>2, <1>3, <1>4, <1>5, <1>6, <1>7, <1>8, <1>9, <1>10, <1>11
        DEF Next, UnslashedNext, ProgramNext

LEMMA TicketAmountsTypes ==
  ASSUME IInv
  PROVE  /\ ticket_amounts \in [DOMAIN tickets -> Nat]
         /\ DOMAIN ticket_amounts = DOMAIN tickets
         /\ IsFiniteSet(DOMAIN tickets)
         /\ Cardinality(DOMAIN tickets) \in Nat
<1>1. ticket_amounts \in [DOMAIN tickets -> Nat]
  BY DEF ticket_amounts, IInv, TypeOK, TicketTypes, TicketAccountData
<1>2. IsFiniteSet(DOMAIN tickets)
  <2>1. IsFiniteSet(Ticket)
    BY StateAssumption
  <2> QED BY <2>1, FS_Subset DEF IInv, TypeOK, TicketTypes
<1> QED BY <1>1, <1>2, FS_CardinalityType DEF ticket_amounts

LEMMA OrderUnstakeCounts ==
  ASSUME IInv, TicketsAreCounted, NEW t \in Ticket, NEW m \in Nat,
         OrderUnstake(t, m)
  PROVE  TicketsAreCounted'
<1> DEFINE value == msol_to_sol(m)
           n == lamports_for_user(m)
<1>1. n \in Nat
  <2>1. value \in Nat
    BY PriceTypes
  <2> HIDE DEF value
  <2>2. FeeCentsApply(config.delayed_unstake_fee, value) \in Nat
    BY <2>1, FeeCentsIsBounded, ConfigTypes
  <2>3. n >= config.min_withdraw
    BY DEF OrderUnstake
  <2>4. n = value - FeeCentsApply(config.delayed_unstake_fee, value)
    BY DEF lamports_for_user, value
  <2> QED BY <2>1, <2>2, <2>3, <2>4, ConfigTypes
<1> HIDE DEF n
<1>2. issue_ticket(t, n) /\ t \notin DOMAIN tickets
  BY DEF OrderUnstake, n
<1>3. ticket_amounts' = Put(ticket_amounts, t, n)
  BY <1>2 DEF issue_ticket, ticket_amounts, Put
<1>4. Total(ticket_amounts') = Total(ticket_amounts) + n
  BY <1>1, <1>2, <1>3, TicketAmountsTypes, TotalOfPut
<1>5. Cardinality(DOMAIN tickets') = Cardinality(DOMAIN tickets) + 1
  <2>1. DOMAIN tickets' = DOMAIN tickets \cup {t}
    BY <1>2 DEF issue_ticket, Put
  <2> QED BY <1>2, <2>1, TicketAmountsTypes, FS_AddElement
<1> QED BY <1>2, <1>4, <1>5 DEF issue_ticket, TicketsAreCounted

LEMMA ClaimCounts ==
  ASSUME IInv, TicketsAreCounted, NEW t \in DOMAIN tickets, Claim(t)
  PROVE  TicketsAreCounted'
<1> DEFINE n == tickets[t].lamports_amount
<1>1. n \in Nat /\ ticket_amounts[t] = n
  BY DEF ticket_amounts, IInv, TypeOK, TicketTypes, TicketAccountData
<1>2. close_ticket(t, n)
  BY DEF Claim
<1> HIDE DEF n
<1>3. ticket_amounts' = Without(ticket_amounts, t)
  BY <1>2 DEF close_ticket, ticket_amounts, Without
<1>4. /\ Total(ticket_amounts') \in Nat
      /\ Total(ticket_amounts) = Total(ticket_amounts') + n
  BY <1>1, <1>3, TicketAmountsTypes, TotalSplits
<1>5. Cardinality(DOMAIN tickets') = Cardinality(DOMAIN tickets) - 1
  <2>1. DOMAIN tickets' = DOMAIN tickets \ {t}
    BY <1>2 DEF close_ticket, Without
  <2> QED BY <2>1, TicketAmountsTypes, FS_RemoveElement
<1> QED BY <1>1, <1>2, <1>4, <1>5 DEF close_ticket, TicketsAreCounted

LEMMA NextEpochCounts ==
  ASSUME IInv, TicketsAreCounted,
         NEW rewarded \in SUBSET DOMAIN stake_accounts, NextEpoch(rewarded)
  PROVE  TicketsAreCounted'
<1>1. DOMAIN tickets' = DOMAIN tickets
  BY DEF NextEpoch
<1>2. ticket_amounts' = ticket_amounts
  BY DEF NextEpoch, ticket_amounts, IInv, TypeOK, TicketTypes,
         TicketAccountData
<1> QED BY <1>1, <1>2 DEF NextEpoch, TicketsAreCounted

\* circulating_ticket_balance and circulating_ticket_count are always the sum
\* and the number of the tickets: order_unstake and claim keep what stake_delta
\* relies on, for any number of tickets and any amounts.
THEOREM TicketsStayCounted == Spec => []TicketsAreCounted
<1>1. Init => TicketsAreCounted
  <2> SUFFICES ASSUME NEW d \in InitializeData, Initialize(d)
               PROVE  TicketsAreCounted
    BY DEF Init
  <2>1. /\ tickets = Nothing /\ circulating_ticket_count = 0
        /\ circulating_ticket_balance = 0
    BY DEF Initialize, EmptyBooks
  <2>2. DOMAIN tickets = {} /\ DOMAIN ticket_amounts = {}
    BY <2>1 DEF Nothing, ticket_amounts
  <2> QED BY <2>1, <2>2, TotalOfNothing, FS_EmptySet DEF TicketsAreCounted
<1>2. IInv /\ TicketsAreCounted /\ [Next]_vars => TicketsAreCounted'
  <2> SUFFICES ASSUME IInv, TicketsAreCounted, [Next]_vars
               PROVE  TicketsAreCounted'
    OBVIOUS
  <2>1. CASE UNCHANGED ticketVars
    BY <2>1 DEF ticketVars, TicketsAreCounted, ticket_amounts
  <2>2. Lamports \subseteq Nat
    BY ConstantTypes
  <2> QED BY <2>1, <2>2, TicketSteps, OrderUnstakeCounts, ClaimCounts,
             NextEpochCounts
<1> QED BY <1>1, <1>2, Invariance, PTL DEF Spec

---------------------------------------------------------------------------
(* Scores                                                                  *)

\* What happens to a validator's balance leaves its score alone.
LEMMA ScoreSurvivesBalance ==
  ASSUME IInv, NEW v \in DOMAIN validator_list, NEW n, NEW ran,
         validator_list' =
           [validator_list EXCEPT ![v].active_balance = n, ![v].ran = ran]
  PROVE  scores_of_validators' = scores_of_validators
BY DEF scores_of_validators, IInv, TypeOK, ValidatorTypes, ValidatorRecord

LEMMA ScoreSurvivesBalanceOnly ==
  ASSUME IInv, NEW v \in DOMAIN validator_list, NEW n,
         validator_list' = [validator_list EXCEPT ![v].active_balance = n]
  PROVE  scores_of_validators' = scores_of_validators
BY DEF scores_of_validators, IInv, TypeOK, ValidatorTypes, ValidatorRecord

ScoresUnchanged ==
  UNCHANGED <<total_validator_score, scores_of_validators>>

LEMMA UsersKeepScores ==
  ASSUME IInv, UsersNext
  PROVE  ScoresUnchanged
<1> USE DEF ScoresUnchanged
<1>1. UNCHANGED validatorVars => ScoresUnchanged
  BY DEF validatorVars, scores_of_validators
<1>2. ASSUME NEW a, DepositStakeAccount(a) PROVE ScoresUnchanged
  <2>1. UNCHANGED total_validator_score
    BY <1>2 DEF DepositStakeAccount, DepositStakeAccountAllowed
  <2> QED BY <1>2, <2>1, ScoreSurvivesBalanceOnly DEF DepositStakeAccount,
  DepositStakeAccountAllowed
<1>3. ASSUME NEW a, NEW b, NEW m, WithdrawStakeAccount(a, b, m)
      PROVE  ScoresUnchanged
  <2>1. UNCHANGED total_validator_score
    BY <1>3 DEF WithdrawStakeAccount, WithdrawStakeAccountAllowed
  <2> QED BY <1>3, <2>1, ScoreSurvivesBalanceOnly DEF WithdrawStakeAccount,
  WithdrawStakeAccountAllowed
<1> HIDE DEF ScoresUnchanged
<1> QED BY <1>1, <1>2, <1>3
           DEF UsersNext, StakeAccountsNext, Deposit, OrderUnstake, Claim

LEMMA CrankKeepsScores ==
  ASSUME IInv, CrankNext
  PROVE  ScoresUnchanged
<1> USE DEF ScoresUnchanged
<1>1. UNCHANGED validatorVars => ScoresUnchanged
  BY DEF validatorVars, scores_of_validators
<1>2. ASSUME NEW a, UpdateActive(a) PROVE ScoresUnchanged
  <2>1. UNCHANGED total_validator_score
    BY <1>2 DEF UpdateActive
  <2> QED BY <1>2, <2>1, ScoreSurvivesBalanceOnly DEF UpdateActive
<1>3. ASSUME NEW v \in DOMAIN validator_list, NEW a, StakeReserve(v, a)
      PROVE  ScoresUnchanged
  <2>1. UNCHANGED total_validator_score
    BY <1>3 DEF StakeReserve
  <2> QED BY <1>3, <2>1, ScoreSurvivesBalance DEF StakeReserve
<1>4. ASSUME NEW v \in DOMAIN validator_list, NEW n, NEW ran,
             StartDelayedUnstake(v, n, ran)
      PROVE  ScoresUnchanged
  <2>1. UNCHANGED total_validator_score
    BY <1>4 DEF StartDelayedUnstake
  <2> QED BY <1>4, <2>1, ScoreSurvivesBalance DEF StartDelayedUnstake
<1>5. ASSUME NEW dst, NEW src, MergeStakes(dst, src) PROVE ScoresUnchanged
  <2>1. UNCHANGED total_validator_score
    BY <1>5 DEF MergeStakes
  <2> QED BY <1>5, <2>1, ScoreSurvivesBalanceOnly DEF MergeStakes
<1> HIDE DEF ScoresUnchanged
<1>6. ASSUME NEW a, UpdateDeactivated(a) PROVE ScoresUnchanged
  BY <1>1, <1>6 DEF UpdateDeactivated
<1>7. ASSUME NEW v, StakeReserveReturnsEarly(v) PROVE ScoresUnchanged
  BY <1>1, <1>7 DEF StakeReserveReturnsEarly
<1>8. ASSUME NEW a, DeactivateWholeStake(a) PROVE ScoresUnchanged
  BY <1>4, <1>8 DEF DeactivateWholeStake, DeactivateStakeAllowed
<1>9. ASSUME NEW a, NEW b, DeactivateSplitStake(a, b) PROVE ScoresUnchanged
  BY <1>4, <1>9 DEF DeactivateSplitStake, DeactivateStakeAllowed
<1> QED BY <1>2, <1>3, <1>5, <1>6, <1>7, <1>8, <1>9 DEF CrankNext

LEMMA RedelegateKeepsScores ==
  ASSUME IInv, RedelegateNext
  PROVE  ScoresUnchanged
<1>1. ASSUME NEW src \in DOMAIN validator_list,
             NEW dst \in DOMAIN validator_list,
             NEW n, MoveStake(src, dst, n)
      PROVE  ScoresUnchanged
  <2>1. scores_of_validators' = scores_of_validators
    BY <1>1 DEF MoveStake, scores_of_validators, IInv, TypeOK, ValidatorTypes,
                ValidatorRecord
  <2> QED BY <1>1, <2>1 DEF MoveStake, ScoresUnchanged
<1>2. ASSUME NEW a, NEW dst \in DOMAIN validator_list, NEW c,
             RedelegateWholeStake(a, dst, c)
      PROVE  ScoresUnchanged
  BY <1>1, <1>2 DEF RedelegateWholeStake, RedelegateAllowed
<1>3. ASSUME NEW a, NEW dst \in DOMAIN validator_list, NEW b, NEW c,
             RedelegateSplitStake(a, dst, b, c)
      PROVE  ScoresUnchanged
  BY <1>1, <1>3 DEF RedelegateSplitStake, RedelegateAllowed
<1> QED BY <1>2, <1>3 DEF RedelegateNext

LEMMA UnstakeKeepsScores ==
  ASSUME IInv, UnstakeNext
  PROVE  ScoresUnchanged
<1>1. ASSUME NEW v \in DOMAIN validator_list, NEW n, StartEmergencyUnstake(v, n)
      PROVE  ScoresUnchanged
  <2>1. UNCHANGED total_validator_score
    BY <1>1 DEF StartEmergencyUnstake
  <2> QED BY <1>1, <2>1, ScoreSurvivesBalanceOnly
          DEF StartEmergencyUnstake, ScoresUnchanged
<1>2. ASSUME NEW a, EmergencyUnstake(a) PROVE ScoresUnchanged
  BY <1>1, <1>2 DEF EmergencyUnstake
<1>3. ASSUME NEW a, NEW l, PartialUnstakeWhole(a, l) PROVE ScoresUnchanged
  BY <1>1, <1>3 DEF PartialUnstakeWhole, PartialUnstakeAllowed
<1>4. ASSUME NEW a, NEW b, NEW l, PartialUnstakeSplit(a, b, l)
      PROVE  ScoresUnchanged
  BY <1>1, <1>4 DEF PartialUnstakeSplit, PartialUnstakeAllowed
<1> QED BY <1>2, <1>3, <1>4 DEF UnstakeNext

LEMMA ScoresTypes ==
  ASSUME IInv
  PROVE  /\ scores_of_validators \in [DOMAIN validator_list -> Nat]
         /\ IsFiniteSet(DOMAIN validator_list)
<1>1. IsFiniteSet(Validator)
  BY StateAssumption
<1> QED BY <1>1, FS_Subset
        DEF IInv, TypeOK, ValidatorTypes, ValidatorRecord, scores_of_validators

\* add_validator.rs, remove_validator.rs, set_validator_score.rs
LEMMA ValidatorsCountScores ==
  ASSUME IInv, ScoresAreCounted, ValidatorsNext
  PROVE  ScoresAreCounted'
<1>1. ASSUME NEW v \in Validator, NEW score \in Scores, AddValidator(v, score)
      PROVE  ScoresAreCounted'
  <2>1. score \in Nat
    BY ManagementAssumption
  <2>2. v \notin DOMAIN validator_list
    BY <1>1 DEF AddValidator
  <2>3. scores_of_validators' = Put(scores_of_validators, v, score)
    BY <1>1, <2>2
       DEF AddValidator, scores_of_validators, Put, new_validator
  <2>4. Total(scores_of_validators') = Total(scores_of_validators) + score
    BY <2>1, <2>2, <2>3, ScoresTypes, TotalOfPut
  <2> QED BY <1>1, <2>4 DEF AddValidator, ScoresAreCounted
<1>2. ASSUME NEW v \in DOMAIN validator_list, RemoveValidator(v)
      PROVE  ScoresAreCounted'
  <2>1. scores_of_validators' = Without(scores_of_validators, v)
    BY <1>2 DEF RemoveValidator, scores_of_validators, Without
  <2>2. /\ Total(scores_of_validators') \in Nat
        /\ Total(scores_of_validators)
             = Total(scores_of_validators') + scores_of_validators[v]
    BY <2>1, ScoresTypes, TotalSplits
  <2>3. scores_of_validators[v] = validator_list[v].score
          /\ scores_of_validators[v] \in Nat
    BY ScoresTypes DEF scores_of_validators
  <2> QED BY <1>2, <2>2, <2>3 DEF RemoveValidator, ScoresAreCounted
<1>3. ASSUME NEW v \in DOMAIN validator_list, NEW score \in Scores,
             SetValidatorScore(v, score)
      PROVE  ScoresAreCounted'
  <2>1. score \in Nat
    BY ManagementAssumption
  <2>2. scores_of_validators' = Put(scores_of_validators, v, score)
    BY <1>3 DEF SetValidatorScore, scores_of_validators, Put, IInv, TypeOK,
                ValidatorTypes, ValidatorRecord
  <2>3. Total(scores_of_validators')
          = Total(scores_of_validators) - scores_of_validators[v] + score
    BY <2>1, <2>2, ScoresTypes, TotalOfPut
  <2>4. scores_of_validators[v] = validator_list[v].score
    BY DEF scores_of_validators
  <2> QED BY <1>3, <2>3, <2>4 DEF SetValidatorScore, ScoresAreCounted
<1>4. ASSUME NEW runs, ConfigValidatorSystem(runs) PROVE ScoresAreCounted'
  BY <1>4 DEF ConfigValidatorSystem, validatorVars, ScoresAreCounted,
              scores_of_validators
<1> QED BY <1>1, <1>2, <1>3, <1>4 DEF ValidatorsNext

\* total_validator_score is always the sum of the scores in the list: a
\* validator's target is its share of the stake and no more is promised.
THEOREM ScoresStayCounted == Spec => []ScoresAreCounted
<1>1. Init => ScoresAreCounted
  <2> SUFFICES ASSUME NEW d \in InitializeData, Initialize(d)
               PROVE  ScoresAreCounted
    BY DEF Init
  <2>1. DOMAIN Nothing = {} /\ Total(Nothing) = 0
    BY TotalOfNothing DEF Nothing
  <2>2. /\ validator_list = [v \in {} |-> new_validator(Nothing[v])]
        /\ total_validator_score = 0
    BY <2>1 DEF Initialize, EmptyBooks
  <2>3. DOMAIN scores_of_validators = {}
    BY <2>2 DEF scores_of_validators
  <2> QED BY <2>2, <2>3, TotalOfNothing DEF ScoresAreCounted
<1>2. IInv /\ ScoresAreCounted /\ [Next]_vars => ScoresAreCounted'
  <2> SUFFICES ASSUME IInv, ScoresAreCounted, [Next]_vars
               PROVE  ScoresAreCounted'
    OBVIOUS
  <2>1. ScoresUnchanged => ScoresAreCounted'
    BY DEF ScoresUnchanged, ScoresAreCounted
  <2>2. UNCHANGED validatorVars => ScoresUnchanged
    BY DEF validatorVars, ScoresUnchanged, scores_of_validators
  <2>3. CASE LiquidityPoolNext
    BY <2>1, <2>2, <2>3
       DEF LiquidityPoolNext, AddLiquidity, RemoveLiquidity, LiquidUnstake
  <2>4. CASE AdminNext
    BY <2>1, <2>2, <2>4
       DEF AdminNext, Pause, Resume, ConfigMarinade, ConfigLp,
           ChangeAuthority, ReallocStakeList, ReallocValidatorList, Books
  <2>5. CASE ClockNext
    <3>1. ASSUME NEW rewarded, NextEpoch(rewarded) PROVE ScoresUnchanged
      BY <3>1 DEF NextEpoch, ScoresUnchanged, scores_of_validators, IInv,
                  TypeOK, ValidatorTypes, ValidatorRecord
    <3> QED BY <2>1, <2>2, <2>5, <3>1 DEF ClockNext, Tick, Nobody
  <2>6. CASE StakersNext \/ UnbookedNext \/ SlashNext
    BY <2>1, <2>2, <2>6
       DEF StakersNext, UnbookedNext, SlashNext, UserStakes, PayStakeAccount,
           PayReserve, BurnMsol, BurnLp, Slash, Nobody
  <2>7. CASE UNCHANGED vars
    BY <2>1, <2>2, <2>7 DEF vars
  <2> QED BY <2>1, <2>3, <2>4, <2>5, <2>6, <2>7, UsersKeepScores,
             CrankKeepsScores, RedelegateKeepsScores, UnstakeKeepsScores,
             ValidatorsCountScores DEF Next, UnslashedNext, ProgramNext
<1> QED BY <1>1, <1>2, Invariance, PTL DEF Spec

---------------------------------------------------------------------------
(* The pause                                                               *)

PausedBooks ==
  <<available_reserve_balance, circulating_ticket_balance,
    circulating_ticket_count, coolingVars, stake_list, total_active_balance,
    total_validator_score, msol_supply, lp_supply, sol_leg_pda, msol_leg,
    treasury_msol, stake_moved>>

\* Every instruction that writes a balance, a record or a token checks the
\* pause: while it lasts, only the clock, the owners of accounts and the
\* admin's own instructions do anything.
THEOREM PauseStopsEverything == Spec => PauseStopsTheBooks
<1>1. ASSUME paused, [Next]_vars PROVE UNCHANGED PausedBooks
  <2> USE <1>1 DEF PausedBooks
  <2>1. ~ UsersNext
    BY DEF UsersNext, StakeAccountsNext, Deposit, DepositStakeAccount,
       DepositStakeAccountAllowed,
           WithdrawStakeAccount, WithdrawStakeAccountAllowed, OrderUnstake,
           Claim
  <2>2. ~ LiquidityPoolNext
    BY DEF LiquidityPoolNext, AddLiquidity, RemoveLiquidity, LiquidUnstake
  <2>3. ~ CrankNext
    BY DEF CrankNext, UpdateActive, UpdateDeactivated, StakeReserve,
           StakeReserveReturnsEarly, TakeStakeRun, DeactivateWholeStake,
           DeactivateSplitStake, DeactivateStakeAllowed, MergeStakes
  <2>4. ~ RedelegateNext
    BY DEF RedelegateNext, RedelegateWholeStake, RedelegateSplitStake,
           RedelegateAllowed
  <2>5. ~ UnstakeNext
    BY DEF UnstakeNext, EmergencyUnstake, PartialUnstakeWhole,
           PartialUnstakeSplit, PartialUnstakeAllowed
  <2>6. CASE ValidatorsNext
    BY <2>6 DEF ValidatorsNext, AddValidator, RemoveValidator,
                SetValidatorScore, ConfigValidatorSystem, reserveVars,
                ticketVars, movedVars, stakeVars, validatorVars, mintVars,
                poolVars
  <2>7. CASE AdminNext
    <3>1. UNCHANGED Books
      BY <2>7 DEF AdminNext, Pause, Resume, ConfigMarinade, ConfigLp,
                  ChangeAuthority, ReallocStakeList, ReallocValidatorList
    <3> QED BY <3>1 DEF Books, reserveVars, ticketVars, movedVars, stakeVars,
                        validatorVars, mintVars, poolVars
  <2>8. CASE ClockNext
    BY <2>8 DEF ClockNext, Tick, NextEpoch, Nobody, reserveVars, ticketVars,
                movedVars, stakeVars, validatorVars, mintVars, poolVars
  <2>9. CASE StakersNext \/ UnbookedNext
    BY <2>9 DEF StakersNext, UnbookedNext, UserStakes, PayStakeAccount,
                PayReserve, BurnMsol, BurnLp, ClockUnchanged, Nobody,
                reserveVars, ticketVars, movedVars, stakeVars, validatorVars, mintVars, poolVars
  <2>10. CASE SlashNext
    BY <2>10 DEF SlashNext, Slash, ClockUnchanged, Nobody, reserveVars,
                 ticketVars, movedVars, stakeVars, validatorVars, mintVars,
                 poolVars
  <2>11. CASE UNCHANGED vars
    BY <2>11 DEF vars, reserveVars, ticketVars, movedVars, stakeVars,
                 validatorVars, mintVars, poolVars
  <2> QED BY <2>1, <2>2, <2>3, <2>4, <2>5, <2>6, <2>7, <2>8, <2>9, <2>10,
             <2>11 DEF Next, UnslashedNext, ProgramNext
<1>2. [Next]_vars => [paused => UNCHANGED PausedBooks]_vars
  BY <1>1
<1>3. PauseStopsTheBooks <=> [][paused => UNCHANGED PausedBooks]_vars
  BY PTL DEF PauseStopsTheBooks, PausedBooks
<1> QED BY <1>2, <1>3, PTL DEF Spec
===========================================================================
