---------------------------- MODULE HoldersProofs --------------------------
(***************************************************************************)
(* What the holders of mSOL and of tickets can rely on, proved for every   *)
(* value of the constants: their tickets are covered, the books are the    *)
(* real balances, the price never falls, and the program is the vault of   *)
(* Vault.tla.  The first part is the arithmetic of shares; the second says *)
(* what each instruction does to the value, the supply and the tickets,    *)
(* and that everything else leaves the three alone.                        *)
(***************************************************************************)
EXTENDS StakeProofs

---------------------------------------------------------------------------
(* Shares and their value                                                  *)

LEMMA TimesIsMonotone ==
  ASSUME NEW a \in Nat, NEW b \in Nat, NEW c \in Nat, a <= b
  PROVE  a * c <= b * c /\ c * a <= c * b
OBVIOUS

LEMMA TimesDistributes ==
  ASSUME NEW a \in Int, NEW b \in Int, NEW c \in Int
  PROVE  /\ (a + b) * c = a * c + b * c
         /\ (a - b) * c = a * c - b * c
         /\ c * (a + b) = c * a + c * b
         /\ c * (a - b) = c * a - c * b
OBVIOUS

LEMMA ThreeTimes ==
  ASSUME NEW a \in Int, NEW b \in Int, NEW c \in Int
  PROVE  /\ (a * b) * c = (a * c) * b
         /\ (a * b) * c = a * (b * c)
         /\ a * b = b * a
         /\ a * b \in Int
OBVIOUS

\* Shares for a value are worth no more than it, and one share more is worth
\* more, at a price there is.
LEMMA SharesAreWorthLess ==
  ASSUME NEW x \in Nat, NEW value \in Nat, NEW supply \in Nat, supply > 0
  PROVE  /\ shares_from_value(x, value, supply) * value <= x * supply
         /\ value > 0 =>
              x * supply < (shares_from_value(x, value, supply) + 1) * value
<1> DEFINE s == shares_from_value(x, value, supply)
<1>1. s \in Nat /\ x * supply \in Nat
  BY ProportionalIsNat, ProductIsNat
<1>2. CASE value = 0
  <2>1. s * value = 0
    BY <1>1, <1>2
  <2> QED BY <1>1, <1>2, <2>1
<1>3. CASE value > 0
  <2>1. s = (x * supply) \div value
    BY <1>3 DEF shares_from_value, proportional
  <2> QED BY <1>1, <1>3, <2>1, DivisionRoundsDown
<1> QED BY <1>2, <1>3

\* The value of shares is no more than their part of it.
LEMMA ValueIsAPart ==
  ASSUME NEW m \in Nat, NEW value \in Nat, NEW supply \in Nat, supply > 0
  PROVE  value_from_shares(m, value, supply) * supply <= m * value
<1>1. value_from_shares(m, value, supply) = (m * value) \div supply
  BY DEF value_from_shares, proportional
<1>2. m * value \in Nat
  BY ProductIsNat
<1> QED BY <1>1, <1>2, DivisionRoundsDown

LEMMA ValueIsCovered ==
  ASSUME NEW m \in Nat, NEW value \in Nat, NEW supply \in Nat, m <= supply
  PROVE  value_from_shares(m, value, supply) <= value
<1>1. CASE supply = 0
  BY <1>1 DEF value_from_shares, proportional
<1>2. CASE supply > 0
  <2>1. m * value <= value * supply /\ m * value \in Nat
    BY TimesIsMonotone, ThreeTimes, ProductIsNat
  <2>2. (m * value) \div supply <= value
    BY <1>2, <2>1, DivisionIsBounded
  <2> QED BY <1>2, <2>2 DEF value_from_shares, proportional
<1> QED BY <1>1, <1>2

\* Two fees in shares, charged one after the other on F1 and F2 lamports at
\* the price W for M that already counts F1, are worth no more than F1 and F2
\* were at the price V for M before.
LEMMA TwoFeesAtThePriceBefore ==
  ASSUME NEW V \in Nat, NEW W \in Nat, NEW M \in Nat,
         NEW F1 \in Nat, NEW F2 \in Nat, NEW f1 \in Nat, NEW f2 \in Nat,
         V + F1 <= W,
         f1 * W <= F1 * M,
         f2 * W <= F2 * (M + f1)
  PROVE  V * (f1 + f2) <= (F1 + F2) * M
<1>1. CASE W = 0
  <2>1. V = 0
    BY <1>1
  <2>2. (F1 + F2) * M \in Nat
    BY ProductIsNat
  <2> QED BY <2>1, <2>2
<1>2. CASE W > 0
  <2>1. V * f1 <= F1 * M
    <3>1. V * f1 <= W * f1
      BY TimesIsMonotone
    <3>2. W * f1 = f1 * W /\ V * f1 \in Int /\ f1 * W \in Int /\ F1 * M \in Int
      BY ThreeTimes
    <3> QED BY ONLY <3>1, <3>2, f1 * W <= F1 * M
  <2>2. V * (M + f1) <= W * M
    <3>1. (V + F1) * M <= W * M
      BY TimesIsMonotone
    <3>2. (V + F1) * M = V * M + F1 * M /\ V * (M + f1) = V * M + V * f1
      BY TimesDistributes
    <3>3. /\ V * M \in Int /\ F1 * M \in Int /\ V * f1 \in Int
          /\ W * M \in Int
      BY ThreeTimes
    <3> QED BY ONLY <2>1, <3>1, <3>2, <3>3
  <2>3. (V * f2) * W <= (F2 * M) * W
    <3>1. /\ f2 * W \in Nat /\ F2 * (M + f1) \in Nat
          /\ V * (M + f1) \in Nat /\ W * M \in Nat
      BY ProductIsNat
    <3>2. V * (f2 * W) <= V * (F2 * (M + f1))
      BY <3>1, TimesIsMonotone
    <3>3. F2 * (V * (M + f1)) <= F2 * (W * M)
      BY <2>2, <3>1, TimesIsMonotone
    <3>4. /\ V * (f2 * W) = (V * f2) * W
          /\ V * (F2 * (M + f1)) = F2 * (V * (M + f1))
          /\ F2 * (W * M) = (F2 * M) * W
      <4>1. M + f1 \in Int
        OBVIOUS
      <4>2. /\ (V * f2) * W = V * (f2 * W)
            /\ (V * F2) * (M + f1) = V * (F2 * (M + f1))
            /\ (F2 * V) * (M + f1) = F2 * (V * (M + f1))
            /\ V * F2 = F2 * V
            /\ (F2 * W) * M = F2 * (W * M)
            /\ (F2 * W) * M = (F2 * M) * W
        BY <4>1, ThreeTimes
      <4> QED BY ONLY <4>2
    <3>5. /\ (V * f2) * W \in Int /\ F2 * (V * (M + f1)) \in Int
          /\ (F2 * M) * W \in Int
      BY <3>1, ProductIsNat
    <3> QED BY ONLY <3>2, <3>3, <3>4, <3>5
  <2>4. V * f2 <= F2 * M
    <3>1. V * f2 \in Nat /\ F2 * M \in Nat /\ W \in Nat \ {0}
      BY <1>2, ProductIsNat
    <3> QED BY <2>3, <3>1, FactorCancels
  <2>5. /\ V * (f1 + f2) = V * f1 + V * f2
        /\ (F1 + F2) * M = F1 * M + F2 * M
    BY TimesDistributes
  <2>6. /\ V * f1 \in Int /\ V * f2 \in Int /\ F1 * M \in Int /\ F2 * M \in Int
    BY ThreeTimes
  <2> QED BY ONLY <2>1, <2>4, <2>5, <2>6
<1> QED BY <1>1, <1>2

\* What a fee takes, in fractions of its whole
LEMMA FeeIsItsShare ==
  ASSUME NEW bp \in Nat, NEW lamports \in Nat
  PROVE  FeeApply(bp, lamports) * MAX_BASIS_POINTS <= bp * lamports
<1> DEFINE q == (lamports * bp) \div MAX_BASIS_POINTS
<1>1. /\ lamports * bp \in Nat /\ lamports * bp = bp * lamports
      /\ MAX_BASIS_POINTS \in Nat \ {0} /\ U64 \in Nat \ {0}
  BY ProductIsNat, CalcAssumption
<1>2. q \in Nat /\ q * MAX_BASIS_POINTS <= lamports * bp
  BY <1>1, DivisionRoundsDown
<1>3. FeeApply(bp, lamports) = q % U64
  BY DEF FeeApply, q
<1> HIDE DEF q
<1>4. q % U64 \in Nat /\ q % U64 <= q
  BY <1>1, <1>2, RemainderIsBounded
<1>5. (q % U64) * MAX_BASIS_POINTS <= q * MAX_BASIS_POINTS
  BY <1>1, <1>2, <1>4, TimesIsMonotone
<1>6. /\ (q % U64) * MAX_BASIS_POINTS \in Nat /\ q * MAX_BASIS_POINTS \in Nat
  BY <1>1, <1>2, <1>4, ProductIsNat
<1> QED BY ONLY <1>1, <1>2, <1>3, <1>5, <1>6

---------------------------------------------------------------------------
(* What leaves the value, the supply and the tickets alone                 *)

Quiet == UNCHANGED <<total_lamports_under_control, circulating_ticket_balance,
                     msol_supply>>

LEMMA HoldingTypes ==
  ASSUME IInv
  PROVE  /\ total_active_balance \in Nat
         /\ delayed_unstake_cooling_down \in Nat
         /\ emergency_cooling_down \in Nat
         /\ available_reserve_balance \in Nat
         /\ circulating_ticket_balance \in Nat
         /\ msol_supply \in Nat /\ mint_supply \in Nat
         /\ mint_supply <= msol_supply
         /\ total_lamports_under_control \in Nat
         /\ total_lamports_under_control
              = total_active_balance + delayed_unstake_cooling_down
                  + emergency_cooling_down + available_reserve_balance
<1>1. /\ total_active_balance \in Nat
      /\ delayed_unstake_cooling_down \in Nat
      /\ emergency_cooling_down \in Nat
      /\ available_reserve_balance \in Nat
      /\ circulating_ticket_balance \in Nat
      /\ msol_supply \in Nat /\ mint_supply <= msol_supply
  BY DEF IInv, TypeOK, ValidatorTypes, CoolingTypes, ReserveTypes,
     TicketTypes, MintTypes, BooksAreConservative
<1> QED BY <1>1, StateTypes DEF total_lamports_under_control, total_cooling_down

\* Lamports that the program moves between what is staked, what cools down and
\* the reserve
LEMMA StakeReserveIsQuiet ==
  ASSUME IInv, NEW v \in DOMAIN validator_list, NEW a \in StakeAccount,
         StakeReserve(v, a)
  PROVE  Quiet
<1> DEFINE n == reserve_stake_target(v)
<1>1. n \in Nat
  BY ReserveTargetTypes DEF StakeReserve, TakeStakeRun
<1>2. /\ n <= available_reserve_balance
      /\ available_reserve_balance' = available_reserve_balance - n
      /\ total_active_balance' = total_active_balance + n
      /\ UNCHANGED <<coolingVars, ticketVars, mintVars>>
  BY DEF StakeReserve, on_transfer_from_reserve, n
<1> HIDE DEF n
<1> QED BY <1>1, <1>2, HoldingTypes
        DEF Quiet, total_lamports_under_control, total_cooling_down,
            coolingVars, ticketVars, mintVars

LEMMA DelayedUnstakeIsQuiet ==
  ASSUME IInv, NEW v, NEW n \in Nat, NEW ran, StartDelayedUnstake(v, n, ran)
  PROVE  Quiet
<1>1. /\ n <= total_active_balance
      /\ total_active_balance' = total_active_balance - n
      /\ delayed_unstake_cooling_down' = delayed_unstake_cooling_down + n
      /\ UNCHANGED <<emergency_cooling_down, reserveVars, ticketVars, mintVars>>
  BY DEF StartDelayedUnstake
<1> QED BY <1>1, HoldingTypes
        DEF Quiet, total_lamports_under_control, total_cooling_down,
            reserveVars, ticketVars, mintVars

LEMMA EmergencyUnstakeIsQuiet ==
  ASSUME IInv, NEW v, NEW n \in Nat, StartEmergencyUnstake(v, n)
  PROVE  Quiet
<1>1. /\ n <= total_active_balance
      /\ total_active_balance' = total_active_balance - n
      /\ emergency_cooling_down' = emergency_cooling_down + n
      /\ UNCHANGED <<delayed_unstake_cooling_down, reserveVars, ticketVars,
                     mintVars>>
  BY DEF StartEmergencyUnstake
<1> QED BY <1>1, HoldingTypes
        DEF Quiet, total_lamports_under_control, total_cooling_down,
            reserveVars, ticketVars, mintVars

LEMMA DeactivationsAreQuiet ==
  ASSUME IInv, NEW a \in DOMAIN stake_list,
         \/ DeactivateWholeStake(a)
         \/ \E b \in StakeAccount : DeactivateSplitStake(a, b)
  PROVE  Quiet
<1>1. /\ a \in DOMAIN stake_accounts /\ last_update(a) \in Nat
  BY StakesAreTyped DEF IInv, TypeOK, StakeTypes
<1>2. CASE DeactivateWholeStake(a)
  BY <1>1, <1>2, DelayedUnstakeIsQuiet DEF DeactivateWholeStake
<1>3. ASSUME NEW b \in StakeAccount, DeactivateSplitStake(a, b)
      PROVE  Quiet
  <2> DEFINE v == stake_accounts[a].voter
             n == last_update(a) - stake_account_target(a, v)
  <2>1. v \in DOMAIN validator_list /\ stake_delta < 0
    BY <1>3 DEF DeactivateSplitStake, DeactivateStakeAllowed
  <2>2. n \in Nat
    BY <1>1, <2>1, StakeAccountTargetTypes
  <2>3. StartDelayedUnstake(v, n, TRUE)
    BY <1>3 DEF DeactivateSplitStake
  <2> HIDE DEF n
  <2> QED BY <2>2, <2>3, DelayedUnstakeIsQuiet
<1> QED BY <1>2, <1>3

LEMMA RedelegationsAreQuiet ==
  ASSUME RedelegateNext
  PROVE  Quiet
<1>1. ASSUME NEW v, NEW w, NEW n, MoveStake(v, w, n)
      PROVE  Quiet
  BY <1>1 DEF MoveStake, Quiet, total_lamports_under_control,
     total_cooling_down, reserveVars, ticketVars, coolingVars, mintVars
<1>2. ASSUME NEW a, NEW dst, NEW c, RedelegateWholeStake(a, dst, c)
      PROVE  \E v, w, n : MoveStake(v, w, n)
  BY <1>2 DEF RedelegateWholeStake
<1>3. ASSUME NEW a, NEW dst, NEW b, NEW c, RedelegateSplitStake(a, dst, b, c)
      PROVE  \E v, w, n : MoveStake(v, w, n)
  BY <1>3 DEF RedelegateSplitStake
<1> QED BY <1>1, <1>2, <1>3 DEF RedelegateNext

LEMMA UnstakesAreQuiet ==
  ASSUME IInv, UnstakeNext
  PROVE  Quiet
<1>1. \A a \in DOMAIN stake_list : last_update(a) \in Nat
  BY StakesAreTyped DEF IInv, TypeOK, StakeTypes
<1>2. ASSUME NEW a \in DOMAIN stake_list, EmergencyUnstake(a)
      PROVE  Quiet
  BY <1>1, <1>2, EmergencyUnstakeIsQuiet DEF EmergencyUnstake
<1>3. ASSUME NEW a \in DOMAIN stake_list, NEW l \in Lamports,
             PartialUnstakeWhole(a, l)
      PROVE  Quiet
  BY <1>1, <1>3, EmergencyUnstakeIsQuiet DEF PartialUnstakeWhole
<1>4. ASSUME NEW a \in DOMAIN stake_list, NEW b \in StakeAccount,
             NEW l \in Lamports, PartialUnstakeSplit(a, b, l)
      PROVE  Quiet
  <2> DEFINE v == stake_accounts[a].voter
             n == Lesser(l, over_target(v))
  <2>1. l \in Nat
    BY ConstantTypes
  <2>2. n \in Nat
    BY <1>4, <2>1, OverTargetTypes DEF PartialUnstakeSplit
  <2>3. StartEmergencyUnstake(v, n)
    BY <1>4 DEF PartialUnstakeSplit
  <2> HIDE DEF n, v
  <2> QED BY <2>2, <2>3, EmergencyUnstakeIsQuiet
<1> QED BY <1>2, <1>3, <1>4 DEF UnstakeNext

LEMMA UnwrittenIsQuiet ==
  ASSUME UNCHANGED <<available_reserve_balance, coolingVars,
                     total_active_balance, circulating_ticket_balance,
                     msol_supply>>
  PROVE  Quiet
BY DEF Quiet, total_lamports_under_control, total_cooling_down, coolingVars

\* Instructions, and steps of the chain, that write none of it
LEMMA OthersAreQuiet ==
  ASSUME \/ LiquidityPoolNext
         \/ \E v \in DOMAIN validator_list : StakeReserveReturnsEarly(v)
         \/ ValidatorsNext
         \/ AdminNext
         \/ ClockNext
         \/ StakersNext
         \/ UnbookedNext
         \/ SlashNext
         \/ UNCHANGED vars
  PROVE  Quiet
<1> DEFINE Unwritten ==
      UNCHANGED <<available_reserve_balance, coolingVars,
                  total_active_balance, circulating_ticket_balance,
                  msol_supply>>
<1> USE DEF reserveVars, ticketVars, validatorVars, mintVars
<1>1. ASSUME LiquidityPoolNext PROVE Unwritten
  BY <1>1 DEF LiquidityPoolNext, AddLiquidity, RemoveLiquidity, LiquidUnstake
<1>2. ASSUME NEW v \in DOMAIN validator_list, StakeReserveReturnsEarly(v)
      PROVE  Unwritten
  BY <1>2 DEF StakeReserveReturnsEarly
<1>3. ASSUME ValidatorsNext PROVE Unwritten
  BY <1>3 DEF ValidatorsNext, AddValidator, RemoveValidator,
     SetValidatorScore, ConfigValidatorSystem
<1>4. ASSUME AdminNext PROVE Unwritten
  BY <1>4 DEF AdminNext, Pause, Resume, ConfigMarinade, ConfigLp,
     ChangeAuthority, ReallocStakeList, ReallocValidatorList, Books
<1>5. ASSUME ClockNext PROVE Unwritten
  BY <1>5 DEF ClockNext, Tick, NextEpoch, Nobody
<1>6. ASSUME StakersNext PROVE Unwritten
  BY <1>6 DEF StakersNext, UserStakes, PayStakeAccount, Nobody
<1>7. ASSUME UnbookedNext PROVE Unwritten
  BY <1>7 DEF UnbookedNext, PayReserve, BurnMsol, BurnLp, Nobody
<1>8. ASSUME SlashNext PROVE Unwritten
  BY <1>8 DEF SlashNext, Slash, Nobody
<1>9. ASSUME UNCHANGED vars PROVE Unwritten
  BY <1>9 DEF vars
<1>10. Unwritten
  BY <1>1, <1>2, <1>3, <1>4, <1>5, <1>6, <1>7, <1>8, <1>9
<1> QED BY <1>10, UnwrittenIsQuiet

---------------------------------------------------------------------------
(* What the others do to the three                                         *)

Changes(control, owed, supply) ==
  /\ total_lamports_under_control' = total_lamports_under_control + control
  /\ circulating_ticket_balance' = circulating_ticket_balance + owed
  /\ msol_supply' = msol_supply + supply

\* `supply` shares are worth no more than `lamports` at the price before.
WorthNoMore(supply, lamports) ==
  msol_supply > 0 =>
    total_virtual_staked_lamports * supply <= lamports * msol_supply

LEMMA SharesBoughtAreWorthNoMore ==
  ASSUME IInv, NEW lamports \in Nat
  PROVE  WorthNoMore(calc_msol_from_lamports(lamports), lamports)
<1> DEFINE order == calc_msol_from_lamports(lamports)
           value == total_virtual_staked_lamports
<1>1. value \in Nat /\ msol_supply \in Nat /\ order \in Nat
  BY StateTypes, HoldingTypes, PriceTypes
<1>2. order = shares_from_value(lamports, value, msol_supply)
  BY DEF calc_msol_from_lamports
<1> HIDE DEF order, value
<1>3. msol_supply > 0 => order * value <= lamports * msol_supply
  BY <1>1, <1>2, SharesAreWorthLess
<1>4. order * value = value * order
  BY <1>1, ThreeTimes
<1> QED BY <1>3, <1>4 DEF WorthNoMore, order, value

\* A deposit: the part that the pool sells is swapped at the price, the rest
\* is minted.
LEMMA DepositChanges ==
  ASSUME IInv, NEW lamports \in Nat, Deposit(lamports)
  PROVE  \E n \in Nat, s \in Nat : Changes(n, 0, s) /\ WorthNoMore(s, n)
<1> DEFINE order == calc_msol_from_lamports(lamports)
           swapped == msol_swapped(lamports)
           paid == sol_swapped(lamports)
           value == total_virtual_staked_lamports
           n == lamports - paid
           s == order - swapped
<1>1. /\ value \in Nat /\ msol_supply \in Nat /\ order \in Nat
      /\ msol_leg \in Nat /\ msol_leg <= msol_supply
  BY StateTypes, HoldingTypes, PriceTypes
     DEF IInv, TypeOK, PoolTypes, MintTypes, BooksAreConservative, mint_supply
<1>2. swapped = Lesser(order, msol_leg)
  BY DEF msol_swapped
<1>3. paid = IF swapped = 0 THEN 0 ELSE IF swapped = order THEN lamports
             ELSE value_from_shares(swapped, value, msol_supply)
  BY DEF sol_swapped, msol_to_sol
<1>4. WorthNoMore(order, lamports)
  BY SharesBoughtAreWorthNoMore
<1>5. /\ n >= 0
      /\ available_reserve_balance' = available_reserve_balance + n
      /\ msol_supply' = msol_supply + s
      /\ UNCHANGED <<ticketVars, coolingVars, validatorVars>>
  BY DEF Deposit, on_transfer_to_reserve
<1> HIDE DEF order, swapped, paid, value
<1>6. /\ swapped \in Nat /\ swapped <= order /\ swapped <= msol_supply
      /\ s \in Nat
  BY <1>1, <1>2 DEF Lesser
<1>7. paid \in Nat
  BY <1>1, <1>3, <1>6, ProportionalIsNat
<1>8. n \in Nat
  BY <1>5, <1>7
<1>9. Changes(n, 0, s)
  BY <1>5, <1>6, <1>8, HoldingTypes
     DEF Changes, total_lamports_under_control, total_cooling_down,
         ticketVars, coolingVars, validatorVars
<1>10. ASSUME msol_supply > 0 PROVE value * s <= n * msol_supply
  <2>1. value * order <= lamports * msol_supply
    BY <1>4, <1>10 DEF WorthNoMore, value
  <2>2. /\ value * s = value * order - value * swapped
        /\ n * msol_supply = lamports * msol_supply - paid * msol_supply
    BY <1>1, <1>6, <1>7, TimesDistributes
  <2>3. /\ value * order \in Int /\ value * swapped \in Int
        /\ lamports * msol_supply \in Int /\ paid * msol_supply \in Int
    BY <1>1, <1>6, <1>7, ThreeTimes
  <2>4. CASE swapped = 0
    BY <1>1, <1>3, <2>1, <2>4
  <2>5. CASE swapped # 0 /\ swapped = order
    <3>1. s = 0 /\ n = 0
      BY <1>1, <1>3, <2>5
    <3>2. value * 0 = 0 /\ 0 * msol_supply = 0
      BY <1>1
    <3> QED BY <3>1, <3>2
  <2>6. CASE swapped # 0 /\ swapped # order
    <3>1. paid * msol_supply <= swapped * value
      BY <1>1, <1>3, <1>6, <1>10, <2>6, ValueIsAPart
    <3>2. swapped * value = value * swapped
      BY <1>1, <1>6, ThreeTimes
    <3> QED BY ONLY <2>1, <2>2, <2>3, <3>1, <3>2
  <2> QED BY <2>4, <2>5, <2>6
<1> QED BY <1>6, <1>8, <1>9, <1>10 DEF WorthNoMore, value

LEMMA DepositStakeAccountChanges ==
  ASSUME IInv, NEW a \in DOMAIN stake_accounts, DepositStakeAccount(a)
  PROVE  \E n \in Nat, s \in Nat : Changes(n, 0, s) /\ WorthNoMore(s, n)
<1> DEFINE n == stake_accounts[a].stake
           s == calc_msol_from_lamports(n)
<1>1. n \in Nat
  BY StakesAreTyped
<1>2. s \in Nat /\ WorthNoMore(s, n)
  BY <1>1, PriceTypes, SharesBoughtAreWorthNoMore
<1>3. /\ total_active_balance' = total_active_balance + n
      /\ msol_supply' = msol_supply + s
      /\ UNCHANGED <<reserveVars, ticketVars, coolingVars>>
  BY DEF DepositStakeAccount
<1> HIDE DEF n, s
<1>4. Changes(n, 0, s)
  BY <1>1, <1>2, <1>3, HoldingTypes
     DEF Changes, total_lamports_under_control, total_cooling_down,
         reserveVars, ticketVars, coolingVars
<1> QED BY <1>1, <1>2, <1>4

\* A rent that the stake program delegates belongs to the holders.
LEMMA MergeStakesChanges ==
  ASSUME IInv, NEW dst \in DOMAIN stake_list, NEW src \in DOMAIN stake_list,
         MergeStakes(dst, src)
  PROVE  \E n \in Nat : Changes(n, 0, 0) /\ WorthNoMore(0, n)
<1> DEFINE n == extra_delegated(dst)
<1>1. n \in Nat
  BY ConstantTypes DEF extra_delegated
<1>2. /\ total_active_balance' = total_active_balance + n
      /\ UNCHANGED <<reserveVars, ticketVars, coolingVars, mintVars>>
  BY DEF MergeStakes
<1> HIDE DEF n
<1>3. Changes(n, 0, 0)
  BY <1>1, <1>2, HoldingTypes
     DEF Changes, total_lamports_under_control, total_cooling_down,
         reserveVars, ticketVars, coolingVars, mintVars
<1>4. WorthNoMore(0, n)
  <2>1. total_virtual_staked_lamports * 0 = 0 /\ n * msol_supply \in Nat
    BY <1>1, StateTypes, HoldingTypes, ProductIsNat
  <2> QED BY <2>1 DEF WorthNoMore
<1> QED BY <1>1, <1>3, <1>4

\* A fee of r / B on x lamports, worth no more than F of them at the price
LEMMA ShareOfTheGain ==
  ASSUME NEW f \in Nat, NEW V \in Nat, NEW F \in Nat, NEW M \in Nat,
         NEW B \in Nat, NEW r \in Nat, NEW x \in Nat, NEW n \in Nat,
         V * f <= F * M, F * B <= r * x, x <= n
  PROVE  f * V * B <= r * n * M
<1>1. /\ V * f \in Nat /\ F * M \in Nat /\ F * B \in Nat /\ r * x \in Nat
      /\ r * n \in Nat
  BY ProductIsNat
<1>2. (V * f) * B <= (F * M) * B
  BY <1>1, TimesIsMonotone
<1>3. (F * B) * M <= (r * x) * M
  BY <1>1, TimesIsMonotone
<1>4. r * x <= r * n
  BY TimesIsMonotone
<1>5. (r * x) * M <= (r * n) * M
  BY <1>1, <1>4, TimesIsMonotone
<1>6. V * f = f * V /\ (F * M) * B = (F * B) * M
  BY ThreeTimes
<1>7. /\ (V * f) * B \in Nat /\ (F * M) * B \in Nat /\ (r * x) * M \in Nat
      /\ (r * n) * M \in Nat
  BY <1>1, ProductIsNat
<1> QED BY ONLY <1>2, <1>3, <1>5, <1>6, <1>7

\* The fee on lamports that have come in, at the price that a reserve of
\* `available` makes
LEMMA ProtocolFeesAreWorthLess ==
  ASSUME IInv, TicketsAreCovered, NEW lamports \in Nat, NEW available \in Nat,
         available >= available_reserve_balance, NEW supply \in Nat, supply > 0
  PROVE  protocol_fees(lamports, available, supply)
           * (total_virtual_staked_lamports
                + (available - available_reserve_balance))
           <= FeeApply(config.reward_fee, lamports) * supply
<1> DEFINE F == FeeApply(config.reward_fee, lamports)
           W == total_virtual_staked_lamports
                  + (available - available_reserve_balance)
           f == protocol_fees(lamports, available, supply)
<1>1. F \in Nat
  BY ConfigTypes, FeeIsBounded
<1>2. /\ W \in Nat
      /\ W = Monus(total_active_balance + total_cooling_down + available,
                   circulating_ticket_balance)
  BY HoldingTypes
     DEF TicketsAreCovered, total_virtual_staked_lamports,
         total_lamports_under_control, total_cooling_down, Monus
<1>3. f = IF treasury_ready THEN shares_from_value(F, W, supply) ELSE 0
  BY <1>2 DEF protocol_fees
<1> HIDE DEF F, W, f
<1>4. F * supply \in Nat
  BY <1>1, ProductIsNat
<1>5. shares_from_value(F, W, supply) * W <= F * supply
  BY <1>1, <1>2, SharesAreWorthLess
<1>6. f * W <= F * supply
  BY <1>2, <1>3, <1>4, <1>5
<1> QED BY <1>6 DEF f, F, W

\* An update aligns the books, adds what the account has gained, and mints
\* fees for the treasury.
Updates(n, fees) ==
  /\ Changes(n, 0, mint_supply - msol_supply + fees)
  /\ treasury_msol' = treasury_msol + fees
  /\ mint_supply > 0 =>
       fees * total_virtual_staked_lamports * MAX_BASIS_POINTS
         <= config.reward_fee * n * mint_supply

LEMMA RewardFeeTypes ==
  ASSUME IInv
  PROVE  /\ MAX_BASIS_POINTS \in Nat /\ MAX_BASIS_POINTS > 0
         /\ config.reward_fee \in Nat /\ config.reward_fee <= MAX_BASIS_POINTS
BY ConfigTypes, StateAssumption, CalcAssumption DEF IInv, ConfigWithinLimits

LEMMA UpdateActiveChanges ==
  ASSUME IInv, Backed, TicketsAreCovered,
         NEW a \in DOMAIN stake_list, UpdateActive(a)
  PROVE  \E n \in Nat, fees \in Nat : Updates(n, fees)
<1> DEFINE extra == extra_lamports(a)
           growth == rewards(a)
           available == aligned_reserve + extra
           f1 == extra_msol_fees(a)
           f2 == delegation_growth_msol_fees(a)
           n == available - available_reserve_balance + growth
           V == total_virtual_staked_lamports
           r == config.reward_fee
           B == MAX_BASIS_POINTS
           F1 == FeeApply(r, extra)
           F2 == FeeApply(r, growth)
           M == mint_supply
<1>1. /\ a \in DOMAIN stake_accounts
      /\ stake_accounts[a].stake \in Nat /\ stake_accounts[a].balance \in Nat
      /\ last_update(a) \in Nat
      /\ is_active(a) /\ last_update(a) <= stake_accounts[a].stake
  BY StakesAreTyped
     DEF IInv, TypeOK, StakeTypes, UpdateActive, Backed, BackedAt
<1>2. extra \in Nat /\ growth \in Nat /\ slashed(a) = 0
  BY <1>1 DEF extra_lamports, rewards, slashed, Monus
<1>3. /\ available_reserve_balance' = available
      /\ total_active_balance' =
           Monus(total_active_balance + growth, slashed(a))
      /\ treasury_msol' = treasury_msol + (f1 + f2)
      /\ msol_supply' = M + (f1 + f2)
      /\ UNCHANGED <<ticketVars, coolingVars>>
  BY DEF UpdateActive
<1>4. /\ f1 = protocol_fees(extra, available, M)
      /\ f2 = protocol_fees(growth, available, M + f1)
  BY DEF extra_msol_fees, delegation_growth_msol_fees
<1>5. /\ aligned_reserve \in Nat
      /\ aligned_reserve >= available_reserve_balance
      /\ available_reserve_balance \in Nat
  BY AlignedReserveTypes, HoldingTypes, ConstantTypes
     DEF IInv, BooksAreConservative
<1> HIDE DEF extra, growth, f1, f2
<1>6. /\ available \in Nat /\ n \in Nat
      /\ available >= available_reserve_balance + extra
      /\ extra + growth <= n
  BY <1>2, <1>5
<1>7. V \in Nat /\ M \in Nat /\ msol_supply \in Nat /\ r \in Nat /\ B \in Nat
  BY StateTypes, HoldingTypes, RewardFeeTypes
<1> HIDE DEF available
<1>8. f1 \in Nat /\ f2 \in Nat
  <2>1. f1 \in Nat
    BY <1>2, <1>4, <1>6, <1>7, ProtocolFeesTypes
  <2>2. M + f1 \in Nat
    BY <1>7, <2>1
  <2> QED BY <1>2, <1>4, <1>6, <2>1, <2>2, ProtocolFeesTypes
<1>9. Changes(n, 0, M - msol_supply + (f1 + f2))
  <2>1. total_active_balance' = total_active_balance + growth
    BY <1>2, <1>3, HoldingTypes DEF Monus
  <2> QED BY <1>2, <1>3, <1>6, <1>7, <1>8, <2>1, HoldingTypes
          DEF Changes, total_lamports_under_control, total_cooling_down,
              ticketVars, coolingVars
<1>10. ASSUME M > 0 PROVE (f1 + f2) * V * B <= r * n * M
  <2> DEFINE W == V + (available - available_reserve_balance)
  <2>1. /\ F1 \in Nat /\ F2 \in Nat /\ F1 <= extra
        /\ F1 * B <= r * extra /\ F2 * B <= r * growth
    BY <1>2, <1>7, FeeIsBounded, FeeIsItsShare, RewardFeeTypes DEF FeeCheck
  <2>2. M + f1 \in Nat /\ M + f1 > 0
    BY <1>7, <1>8, <1>10
  <2>3. f1 * W <= F1 * M /\ f2 * W <= F2 * (M + f1)
    <3>1. available >= available_reserve_balance
      BY <1>2, <1>5, <1>6
    <3>2. protocol_fees(extra, available, M) * W <= F1 * M
      BY <1>2, <1>6, <1>7, <1>10, <3>1, ProtocolFeesAreWorthLess
    <3>3. protocol_fees(growth, available, M + f1) * W <= F2 * (M + f1)
      BY <1>2, <1>6, <2>2, <3>1, ProtocolFeesAreWorthLess
    <3> QED BY <1>4, <3>2, <3>3
  <2>4. /\ W \in Nat
        /\ F1 <= available - available_reserve_balance
    BY <1>2, <1>5, <1>6, <1>7, <2>1
  <2>5. V + F1 <= W
    BY <1>5, <1>6, <1>7, <2>1, <2>4
  <2> HIDE DEF W, F1, F2, V, M
  <2>6. V * (f1 + f2) <= (F1 + F2) * M
    BY <1>7, <1>8, <2>1, <2>3, <2>4, <2>5, TwoFeesAtThePriceBefore
  <2>7. (F1 + F2) * B <= r * (extra + growth)
    <3>1. /\ (F1 + F2) * B = F1 * B + F2 * B
          /\ r * (extra + growth) = r * extra + r * growth
      BY <1>2, <1>7, <2>1, TimesDistributes
    <3>2. /\ F1 * B \in Int /\ F2 * B \in Int /\ r * extra \in Int
          /\ r * growth \in Int
      BY <1>2, <1>7, <2>1, ThreeTimes
    <3> QED BY ONLY <2>1, <3>1, <3>2
  <2>8. /\ f1 + f2 \in Nat /\ F1 + F2 \in Nat /\ extra + growth \in Nat
    BY <1>2, <1>8, <2>1
  <2> HIDE DEF n
  <2> QED BY <1>6, <1>7, <2>6, <2>7, <2>8, ShareOfTheGain
<1>11. f1 + f2 \in Nat
  BY <1>8
<1>12. Updates(n, f1 + f2)
  BY <1>3, <1>9, <1>10 DEF Updates
<1> QED BY <1>6, <1>11, <1>12

LEMMA UpdateDeactivatedChanges ==
  ASSUME IInv, Backed, TicketsAreCovered,
         NEW a \in DOMAIN stake_list, UpdateDeactivated(a)
  PROVE  \E n \in Nat, fees \in Nat : Updates(n, fees)
<1> DEFINE last == last_update(a)
           gain == Monus(stake_accounts[a].balance, last)
           fees == deactivated_msol_fees(a)
           n == aligned_reserve - available_reserve_balance + gain
           V == total_virtual_staked_lamports
           r == config.reward_fee
           B == MAX_BASIS_POINTS
           F == FeeApply(r, gain)
           M == mint_supply
<1>1. /\ a \in DOMAIN stake_accounts
      /\ stake_accounts[a].balance \in Nat
      /\ last \in Nat /\ last <= stake_accounts[a].balance
      /\ stake_list[a].is_emergency_unstaking \in {0, 1}
  BY StakesAreTyped
     DEF IInv, TypeOK, StakeTypes, StakeRecord, Backed, BackedAt
<1>2. gain \in Nat /\ stake_accounts[a].balance = last + gain
  BY <1>1 DEF Monus
<1>3. /\ stake_list[a].is_emergency_unstaking = 0 =>
           last <= delayed_unstake_cooling_down
      /\ stake_list[a].is_emergency_unstaking = 1 =>
           last <= emergency_cooling_down
      /\ available_reserve_balance' =
           aligned_reserve + stake_accounts[a].balance
      /\ delayed_unstake_cooling_down' = delayed_unstake_cooling_down
           - (IF stake_list[a].is_emergency_unstaking = 0 THEN last ELSE 0)
      /\ emergency_cooling_down' = emergency_cooling_down
           - (IF stake_list[a].is_emergency_unstaking = 1 THEN last ELSE 0)
      /\ treasury_msol' = treasury_msol + fees
      /\ msol_supply' = M + fees
      /\ UNCHANGED <<ticketVars, validatorVars>>
  BY DEF UpdateDeactivated, cooled_down
<1>4. /\ aligned_reserve \in Nat
      /\ aligned_reserve >= available_reserve_balance
      /\ available_reserve_balance \in Nat
  BY AlignedReserveTypes, HoldingTypes, ConstantTypes
     DEF IInv, BooksAreConservative
<1>5. fees = protocol_fees(gain, aligned_reserve, M)
  BY DEF deactivated_msol_fees
<1> HIDE DEF gain, last, fees
<1>6. n \in Nat /\ gain <= n
  BY <1>2, <1>4
<1>7. V \in Nat /\ M \in Nat /\ msol_supply \in Nat /\ r \in Nat /\ B \in Nat
  BY StateTypes, HoldingTypes, RewardFeeTypes
<1>8. fees \in Nat
  BY <1>2, <1>4, <1>5, <1>7, ProtocolFeesTypes
<1>9. Changes(n, 0, M - msol_supply + fees)
  <2>1. delayed_unstake_cooling_down' + emergency_cooling_down'
          = delayed_unstake_cooling_down + emergency_cooling_down - last
    BY <1>1, <1>3, HoldingTypes
  <2>2. /\ delayed_unstake_cooling_down' \in Nat
        /\ emergency_cooling_down' \in Nat
    BY <1>1, <1>3, HoldingTypes
  <2> QED BY <1>1, <1>2, <1>3, <1>4, <1>6, <1>7, <1>8, <2>1, <2>2, HoldingTypes
          DEF Changes, total_lamports_under_control, total_cooling_down,
              ticketVars, validatorVars
<1>10. ASSUME M > 0 PROVE fees * V * B <= r * n * M
  <2> DEFINE W == V + (aligned_reserve - available_reserve_balance)
  <2>1. F \in Nat /\ F * B <= r * gain
    BY <1>2, <1>7, FeeIsBounded, FeeIsItsShare
  <2>2. fees * W <= F * M
    BY <1>2, <1>4, <1>5, <1>7, <1>10, ProtocolFeesAreWorthLess
  <2>3. W \in Nat /\ V <= W
    BY <1>4, <1>7
  <2> HIDE DEF W, F, V, M
  <2>4. V * fees <= F * M
    <3>1. V * fees <= W * fees
      BY <1>7, <1>8, <2>3, TimesIsMonotone
    <3>2. W * fees = fees * W /\ V * fees \in Int /\ W * fees \in Int
            /\ F * M \in Int
      BY <1>7, <1>8, <2>1, <2>3, ThreeTimes
    <3> QED BY ONLY <2>2, <3>1, <3>2
  <2> HIDE DEF n
  <2> QED BY <1>2, <1>6, <1>7, <1>8, <2>1, <2>4, ShareOfTheGain
<1>11. Updates(n, fees)
  BY <1>3, <1>9, <1>10 DEF Updates
<1> QED BY <1>6, <1>8, <1>11

\* What the shares of a holder are worth
LEMMA HoldingsAreWorth ==
  ASSUME IInv, NEW m \in Nat, m <= user_msol
  PROVE  /\ m <= msol_supply
         /\ msol_to_sol(m) \in Nat
         /\ msol_to_sol(m) <= total_virtual_staked_lamports
         /\ m = 0 => msol_to_sol(m) = 0
         /\ msol_to_sol(m) * msol_supply <= total_virtual_staked_lamports * m
<1> DEFINE V == total_virtual_staked_lamports
           S == msol_supply
           v == msol_to_sol(m)
<1>1. /\ V \in Nat /\ S \in Nat /\ v \in Nat /\ m <= S
  BY StateTypes, HoldingTypes, PriceTypes
     DEF IInv, TypeOK, MintTypes, PoolTypes, mint_supply
<1>2. v = value_from_shares(m, V, S)
  BY DEF msol_to_sol
<1> HIDE DEF V, S, v
<1>3. v <= V
  BY <1>1, <1>2, ValueIsCovered
<1>4. ASSUME S > 0 PROVE v * S <= V * m
  <2>1. v * S <= m * V
    BY <1>1, <1>2, <1>4, ValueIsAPart
  <2> QED BY <1>1, <2>1, ThreeTimes
<1>5. ASSUME S = 0 PROVE v = 0 /\ v * S <= V * m
  <2>1. v = 0 /\ m = 0
    BY <1>1, <1>2, <1>5 DEF value_from_shares, proportional
  <2> QED BY <1>1, <1>5, <2>1
<1>6. ASSUME m = 0 PROVE v = 0
  <2>1. m * V = 0
    BY <1>1, <1>6
  <2>2. S > 0 => 0 \div S = 0
    BY <1>1
  <2> QED BY <1>1, <1>2, <1>6, <2>1, <2>2
          DEF value_from_shares, proportional
<1> QED BY <1>1, <1>3, <1>4, <1>5, <1>6 DEF V, S, v

LEMMA OrderUnstakeChanges ==
  ASSUME IInv, NEW t \in Ticket, NEW m \in Nat, OrderUnstake(t, m)
  PROVE  /\ m <= msol_supply
         /\ \E n \in Nat :
              /\ Changes(0, n, - m)
              /\ n <= total_virtual_staked_lamports
              /\ m = 0 => n = 0
              /\ n * msol_supply <= total_virtual_staked_lamports * m
<1> DEFINE v == msol_to_sol(m)
           fee == FeeCentsApply(config.delayed_unstake_fee, v)
           n == lamports_for_user(m)
<1>1. /\ m <= msol_supply /\ v \in Nat
      /\ v <= total_virtual_staked_lamports
      /\ m = 0 => v = 0
      /\ v * msol_supply <= total_virtual_staked_lamports * m
  BY HoldingsAreWorth DEF OrderUnstake
<1>2. fee \in Nat /\ fee <= v
  <2>1. /\ config.delayed_unstake_fee \in Nat
        /\ FeeCentsCheck(config.delayed_unstake_fee)
    BY ConfigTypes, StateAssumption, CalcAssumption
       DEF IInv, ConfigWithinLimits, FeeCentsCheck
  <2> HIDE DEF v
  <2> QED BY <1>1, <2>1, FeeCentsIsBounded
<1>3. n = v - fee
  BY DEF lamports_for_user
<1>4. /\ circulating_ticket_balance' = circulating_ticket_balance + n
      /\ msol_supply' = msol_supply - m
      /\ UNCHANGED <<reserveVars, coolingVars, validatorVars>>
  BY DEF OrderUnstake, issue_ticket
<1> HIDE DEF v, fee, n
<1>5. n \in Nat /\ n <= v
  BY <1>1, <1>2, <1>3
<1>6. total_virtual_staked_lamports \in Nat /\ msol_supply \in Nat
  BY StateTypes, HoldingTypes
<1>7. Changes(0, n, - m)
  BY <1>4, <1>5, <1>6, HoldingTypes
     DEF Changes, total_lamports_under_control, total_cooling_down,
         reserveVars, coolingVars, validatorVars
<1>8. n * msol_supply <= total_virtual_staked_lamports * m
  <2>1. n * msol_supply <= v * msol_supply
    BY <1>1, <1>5, <1>6, TimesIsMonotone
  <2>2. /\ n * msol_supply \in Int /\ v * msol_supply \in Int
        /\ total_virtual_staked_lamports * m \in Int
    BY <1>1, <1>5, <1>6, ThreeTimes
  <2> QED BY ONLY <1>1, <2>1, <2>2
<1> QED BY <1>1, <1>5, <1>6, <1>7, <1>8

LEMMA ClaimChanges ==
  ASSUME IInv, NEW t \in DOMAIN tickets, Claim(t)
  PROVE  \E n \in Nat : /\ n > 0 /\ n <= circulating_ticket_balance
                        /\ n <= total_lamports_under_control
                        /\ Changes(- n, - n, 0)
<1> DEFINE n == tickets[t].lamports_amount
<1>1. n \in Nat
  BY DEF IInv, TypeOK, TicketTypes, TicketAccountData
<1>2. /\ n # 0
      /\ n <= circulating_ticket_balance /\ n <= available_reserve_balance
      /\ circulating_ticket_balance' = circulating_ticket_balance - n
      /\ available_reserve_balance' = available_reserve_balance - n
      /\ UNCHANGED <<coolingVars, validatorVars, mintVars>>
  BY DEF Claim, TicketReady, close_ticket, on_transfer_from_reserve
<1> HIDE DEF n
<1>3. Changes(- n, - n, 0) /\ n <= total_lamports_under_control
  BY <1>1, <1>2, HoldingTypes
     DEF Changes, total_lamports_under_control, total_cooling_down,
         coolingVars, validatorVars, mintVars
<1> QED BY <1>1, <1>2, <1>3

\* A withdrawn stake account costs those who stay less than one share.
LEMMA WithdrawStakeAccountChanges ==
  ASSUME IInv, NEW a, NEW b, NEW m \in Nat, WithdrawStakeAccount(a, b, m)
  PROVE  /\ m > 0
         /\ \E n \in Nat, burned \in Nat :
              /\ n > 0 /\ n <= total_virtual_staked_lamports
              /\ burned <= msol_supply
              /\ Changes(- n, 0, - burned)
              /\ total_active_balance' = total_active_balance - n
              /\ n * msol_supply < total_virtual_staked_lamports * burned
                                     + total_virtual_staked_lamports
<1> DEFINE v == msol_to_sol(m)
           fee == FeeCentsApply(config.withdraw_stake_account_fee, v)
           n == split_lamports(m)
           bought == calc_msol_from_lamports(n)
           fees == withdraw_msol_fees(m)
           burned == m - fees
           V == total_virtual_staked_lamports
           S == msol_supply
<1>1. /\ m <= S /\ v \in Nat /\ v <= V
      /\ m = 0 => v = 0
      /\ v * S <= V * m
  BY HoldingsAreWorth DEF WithdrawStakeAccount, WithdrawStakeAccountAllowed
<1>2. fee \in Nat
  BY <1>1, FeeCentsIsBounded, ConfigTypes
<1>3. n = v - fee
  BY DEF split_lamports
<1>4. /\ n >= min_stake /\ n <= total_active_balance /\ burned <= S
      /\ total_active_balance' = total_active_balance - n
      /\ msol_supply' = S - burned
      /\ UNCHANGED <<reserveVars, ticketVars, coolingVars>>
  BY DEF WithdrawStakeAccount, WithdrawStakeAccountAllowed
<1>5. fees = IF treasury_ready THEN Monus(m, bought) ELSE 0
  BY DEF withdraw_msol_fees
<1>6. V \in Nat /\ S \in Nat
  BY StateTypes, HoldingTypes
<1> HIDE DEF v, fee, n, fees
<1>7. n \in Nat /\ n > 0 /\ n <= v /\ m > 0
  BY <1>1, <1>2, <1>3, <1>4, ConfigTypes DEF min_stake
<1>8. /\ bought \in Nat
      /\ bought = shares_from_value(n, V, S)
  BY <1>7, PriceTypes DEF calc_msol_from_lamports
<1> HIDE DEF V, S, bought
<1>9. V > 0 /\ S > 0 /\ n <= V
  BY <1>1, <1>6, <1>7
<1>10. /\ burned \in Nat
       /\ burned = m \/ burned = bought
  BY <1>5, <1>7, <1>8 DEF Monus
<1> HIDE DEF burned
<1>11. n * S < V * burned + V
  <2>1. CASE burned = m
    <3>1. n * S <= v * S
      BY <1>1, <1>6, <1>7, TimesIsMonotone
    <3>2. n * S \in Int /\ v * S \in Int /\ V * m \in Int
      BY <1>1, <1>6, <1>7, ThreeTimes
    <3> QED BY ONLY <1>1, <1>6, <1>9, <2>1, <3>1, <3>2
  <2>2. CASE burned = bought
    <3>1. n * S < (bought + 1) * V
      BY <1>6, <1>7, <1>8, <1>9, SharesAreWorthLess
    <3>2. (bought + 1) * V = bought * V + 1 * V /\ 1 * V = V
            /\ bought * V = V * bought
      BY <1>6, <1>8, TimesDistributes, ThreeTimes
    <3> QED BY ONLY <2>2, <3>1, <3>2
  <2> QED BY <1>10, <2>1, <2>2
<1>12. Changes(- n, 0, - burned)
  BY <1>4, <1>6, <1>7, <1>10, HoldingTypes
     DEF Changes, total_lamports_under_control, total_cooling_down,
         reserveVars, ticketVars, coolingVars, S
<1> QED BY <1>4, <1>7, <1>9, <1>10, <1>11, <1>12 DEF V, S

---------------------------------------------------------------------------
(* The tickets stay covered                                                *)

\* Who is left: every step of the program without a slash is quiet or one of
\* these.
Updating ==
  \E a \in DOMAIN stake_list : UpdateActive(a) \/ UpdateDeactivated(a)

Depositing ==
  \/ \E l \in Lamports : Deposit(l)
  \/ \E a \in DOMAIN stake_accounts : DepositStakeAccount(a)
  \/ \E dst \in DOMAIN stake_list, src \in DOMAIN stake_list :
       MergeStakes(dst, src)

Ordering == \E t \in Ticket, m \in Lamports : OrderUnstake(t, m)

Claiming == \E t \in DOMAIN tickets : Claim(t)

Withdrawing ==
  \E a \in DOMAIN stake_list, b \in StakeAccount, m \in Lamports :
    WithdrawStakeAccount(a, b, m)

LEMMA WhoChangesTheValue ==
  ASSUME IInv, [Next]_vars
  PROVE  Quiet \/ Updating \/ Depositing \/ Ordering \/ Claiming \/ Withdrawing
<1>1. CASE UsersNext
  BY <1>1 DEF UsersNext, StakeAccountsNext, Depositing, Ordering, Claiming,
     Withdrawing
<1>2. ASSUME CrankNext
      PROVE  Quiet \/ Updating \/ Depositing
  BY <1>2, StakeReserveIsQuiet, DeactivationsAreQuiet, OthersAreQuiet
     DEF CrankNext, Updating, Depositing
<1>3. CASE RedelegateNext
  BY <1>3, RedelegationsAreQuiet
<1>4. CASE UnstakeNext
  BY <1>4, UnstakesAreQuiet
<1>5. CASE \/ LiquidityPoolNext \/ ValidatorsNext \/ AdminNext \/ ClockNext
           \/ StakersNext \/ UnbookedNext \/ SlashNext \/ UNCHANGED vars
  BY <1>5, OthersAreQuiet
<1> QED BY <1>1, <1>2, <1>3, <1>4, <1>5 DEF Next, UnslashedNext, ProgramNext

LEMMA DepositingChanges ==
  ASSUME IInv, Depositing
  PROVE  \E n \in Nat, s \in Nat : Changes(n, 0, s) /\ WorthNoMore(s, n)
<1>1. Lamports \subseteq Nat /\ 0 \in Nat
  BY ConstantTypes
<1> QED BY <1>1, DepositChanges, DepositStakeAccountChanges,
           MergeStakesChanges DEF Depositing

LEMMA UpdatingChanges ==
  ASSUME IInv, Backed, TicketsAreCovered, Updating
  PROVE  \E n \in Nat, fees \in Nat : Updates(n, fees)
BY UpdateActiveChanges, UpdateDeactivatedChanges DEF Updating

\* The value after a step that the tickets stay covered by
LEMMA ValueAfter ==
  ASSUME IInv, TicketsAreCovered, NEW c \in Int, NEW t \in Int, NEW s \in Int,
         Changes(c, t, s),
         t <= total_virtual_staked_lamports + c
  PROVE  /\ TicketsAreCovered'
         /\ total_virtual_staked_lamports'
              = total_virtual_staked_lamports + c - t
BY HoldingTypes
   DEF Changes, TicketsAreCovered, total_virtual_staked_lamports, Monus

LEMMA QuietKeepsTheValue ==
  ASSUME Quiet
  PROVE  /\ TicketsAreCovered => TicketsAreCovered'
         /\ UNCHANGED <<total_virtual_staked_lamports, msol_supply,
                        circulating_ticket_balance>>
BY DEF Quiet, TicketsAreCovered, total_virtual_staked_lamports, Monus

LEMMA InitCovers == Init => TicketsAreCovered
<1> SUFFICES ASSUME NEW d \in InitializeData, Initialize(d)
             PROVE  TicketsAreCovered
  BY DEF Init
<1> QED BY DEF Initialize, EmptyBooks, TicketsAreCovered,
           total_lamports_under_control, total_cooling_down

LEMMA NextCovers ==
  ASSUME IInv, Backed, TicketsAreCovered, [Next]_vars
  PROVE  TicketsAreCovered'
<1>1. Lamports \subseteq Nat /\ 0 \in Int /\ Nat \subseteq Int
  BY ConstantTypes
<1>2. total_virtual_staked_lamports \in Nat
  BY StateTypes
<1>3. CASE Quiet
  BY <1>3, QuietKeepsTheValue
<1>4. CASE Updating
  <2> PICK n \in Nat, fees \in Nat : Updates(n, fees)
    BY <1>4, UpdatingChanges
  <2>1. mint_supply - msol_supply + fees \in Int
    BY HoldingTypes
  <2>2. Changes(n, 0, mint_supply - msol_supply + fees)
    BY DEF Updates
  <2> QED BY <1>1, <1>2, <2>1, <2>2, ValueAfter
<1>5. CASE Depositing
  <2> PICK n \in Nat, s \in Nat : Changes(n, 0, s)
    BY <1>5, DepositingChanges
  <2> QED BY <1>1, <1>2, ValueAfter
<1>6. ASSUME NEW t \in Ticket, NEW m \in Lamports, OrderUnstake(t, m)
      PROVE  TicketsAreCovered'
  <2> m \in Nat
    BY <1>1
  <2> PICK n \in Nat : /\ Changes(0, n, - m)
                       /\ n <= total_virtual_staked_lamports
    BY <1>6, OrderUnstakeChanges
  <2>1. - m \in Int
    OBVIOUS
  <2> QED BY <1>1, <1>2, <2>1, ValueAfter
<1>7. ASSUME NEW t \in DOMAIN tickets, Claim(t)
      PROVE  TicketsAreCovered'
  <2> PICK n \in Nat : Changes(- n, - n, 0)
    BY <1>7, ClaimChanges
  <2>1. - n \in Int /\ - n <= total_virtual_staked_lamports + (- n)
    BY <1>2
  <2> QED BY <1>1, <2>1, ValueAfter
<1>8. ASSUME NEW a \in DOMAIN stake_list, NEW b \in StakeAccount,
             NEW m \in Lamports, WithdrawStakeAccount(a, b, m)
      PROVE  TicketsAreCovered'
  <2> m \in Nat
    BY <1>1
  <2> PICK n \in Nat, burned \in Nat :
        /\ Changes(- n, 0, - burned)
        /\ n <= total_virtual_staked_lamports
    BY <1>8, WithdrawStakeAccountChanges
  <2>1. - n \in Int /\ - burned \in Int
          /\ 0 <= total_virtual_staked_lamports + (- n)
    BY <1>2
  <2> QED BY <1>1, <2>1, ValueAfter
<1> QED BY <1>3, <1>4, <1>5, <1>6, <1>7, <1>8, WhoChangesTheValue
        DEF Ordering, Claiming, Withdrawing

\* The invariant of the program without slashes that the rest needs
LEMMA InitIsCovered == Init => IInv /\ Backed /\ TicketsAreCovered
BY InitKeeps, InitBacks, InitCovers

LEMMA UnslashedCovers ==
  IInv /\ Backed /\ TicketsAreCovered /\ [UnslashedNext]_vars
    => (IInv /\ Backed /\ TicketsAreCovered)'
<1>1. [UnslashedNext]_vars => [Next]_vars
  BY DEF Next
<1> QED BY <1>1, UnslashedKeeps, NextBacks, NextCovers

LEMMA CoveredAlways ==
  UnslashedSpec => [](IInv /\ Backed /\ TicketsAreCovered)
BY InitIsCovered, UnslashedCovers, PTL DEF UnslashedSpec

\* Unless a stake is slashed, every ticket is covered by what is under control,
\* so the price of mSOL is never a saturated subtraction: what a holder gives
\* up for a ticket, and what a withdrawn account takes, is never more than the
\* value that the tickets of others leave.
THEOREM TicketsStayCovered == UnslashedSpec => []TicketsAreCovered
BY CoveredAlways, PTL

---------------------------------------------------------------------------
(* The price of mSOL                                                       *)

LEMMA PriceLossAfter ==
  ASSUME IInv, TicketsAreCovered, NEW c \in Int, NEW t \in Int, NEW s \in Int,
         Changes(c, t, s),
         t <= total_virtual_staked_lamports + c
  PROVE  price_loss = total_virtual_staked_lamports * s - (c - t) * msol_supply
<1> DEFINE V == total_virtual_staked_lamports
           S == msol_supply
           g == c - t
<1>1. V \in Int /\ S \in Int /\ g \in Int
  BY StateTypes, HoldingTypes
<1>2. total_virtual_staked_lamports' = V + g /\ msol_supply' = S + s
  BY <1>1, ValueAfter DEF Changes
<1>3. price_loss = V * (S + s) - (V + g) * S
  BY <1>2 DEF price_loss
<1> HIDE DEF V, S, g
<1>4. V * (S + s) = V * S + V * s /\ (V + g) * S = V * S + g * S
  BY <1>1, TimesDistributes
<1>5. V * S \in Int /\ V * s \in Int /\ g * S \in Int
  BY <1>1, ThreeTimes
<1>6. price_loss = V * s - g * S
  BY ONLY <1>3, <1>4, <1>5
<1> QED BY <1>6 DEF V, S, g

\* The fees on a gain, and what alignment burns, leave the price where it was
\* or raise it.
LEMMA FeesAreWorthNoMore ==
  ASSUME IInv, NEW n \in Nat, NEW fees \in Nat, Updates(n, fees),
         mint_supply > 0
  PROVE  total_virtual_staked_lamports * (mint_supply - msol_supply + fees)
           <= n * msol_supply
<1> DEFINE V == total_virtual_staked_lamports
           S == msol_supply
           M == mint_supply
           B == MAX_BASIS_POINTS
           r == config.reward_fee
<1>1. /\ V \in Nat /\ S \in Nat /\ M \in Nat /\ M <= S
      /\ B \in Nat /\ B \in Nat \ {0} /\ r \in Nat /\ r <= B
  BY StateTypes, HoldingTypes, RewardFeeTypes
<1>2. fees * V * B <= r * n * M
  BY DEF Updates
<1> HIDE DEF V, S, M, B, r
<1>3. fees * V <= n * M
  <2>1. r * (n * M) <= B * (n * M)
    BY <1>1, ProductIsNat, TimesIsMonotone
  <2>2. /\ r * n * M = r * (n * M)
        /\ B * (n * M) = (n * M) * B
    BY <1>1, ProductIsNat, ThreeTimes
  <2>3. /\ fees * V \in Nat /\ n * M \in Nat
    BY <1>1, ProductIsNat
  <2>4. /\ (fees * V) * B \in Nat /\ (n * M) * B \in Nat
        /\ r * (n * M) \in Nat
    BY <1>1, <2>3, ProductIsNat
  <2>5. (fees * V) * B <= (n * M) * B
    BY ONLY <1>2, <2>1, <2>2, <2>4
  <2> QED BY <1>1, <2>3, <2>5, FactorCancels
<1>4. n * M <= n * S
  BY <1>1, TimesIsMonotone
<1>5. V * (M - S) <= 0
  <2>1. V * (M - S) = V * M - V * S /\ V * M <= V * S
    BY <1>1, TimesDistributes, TimesIsMonotone
  <2>2. V * M \in Int /\ V * S \in Int
    BY <1>1, ThreeTimes
  <2> QED BY ONLY <2>1, <2>2
<1>6. V * (M - S + fees) = V * (M - S) + fees * V
  <2>1. M - S \in Int /\ fees * V = V * fees
    BY <1>1, ThreeTimes
  <2> QED BY <1>1, <2>1, TimesDistributes
<1>7. /\ V * (M - S) \in Int /\ fees * V \in Int /\ n * M \in Int
      /\ n * S \in Int
  <2>1. M - S \in Int
    BY <1>1
  <2> QED BY <1>1, <2>1, ThreeTimes
<1>8. V * (M - S + fees) <= n * S
  BY ONLY <1>3, <1>4, <1>5, <1>6, <1>7
<1> QED BY <1>8 DEF V, M, S

LosesAtMostARounding ==
  \/ price_loss <= 0
  \/ /\ total_active_balance' < total_active_balance
     /\ msol_supply' <= msol_supply
     /\ price_loss < total_virtual_staked_lamports

LEMMA NextKeepsThePrice ==
  ASSUME IInv, Backed, TicketsAreCovered, [Next]_vars, mint_supply > 0
  PROVE  LosesAtMostARounding
<1> DEFINE V == total_virtual_staked_lamports
           S == msol_supply
<1>1. /\ Lamports \subseteq Nat /\ 0 \in Int /\ Nat \subseteq Int
      /\ V \in Nat /\ S \in Nat /\ S > 0
  BY ConstantTypes, StateTypes, HoldingTypes
<1>2. CASE Quiet
  <2>1. price_loss = V * S - V * S /\ V * S \in Nat
    BY <1>1, <1>2, QuietKeepsTheValue, ProductIsNat DEF price_loss
  <2> QED BY <2>1 DEF LosesAtMostARounding
<1>3. CASE Updating
  <2> PICK n \in Nat, fees \in Nat : Updates(n, fees)
    BY <1>3, UpdatingChanges
  <2> DEFINE s == mint_supply - msol_supply + fees
  <2>1. s \in Int
    BY HoldingTypes
  <2>2. Changes(n, 0, s)
    BY DEF Updates
  <2>3. V * s <= n * S
    BY FeesAreWorthNoMore
  <2> HIDE DEF s
  <2>4. price_loss = V * s - (n - 0) * S
    BY <1>1, <2>1, <2>2, PriceLossAfter
  <2>5. V * s \in Int /\ n * S \in Int /\ n - 0 = n
    BY <1>1, <2>1, ThreeTimes
  <2>6. price_loss <= 0
    BY <2>3, <2>4, <2>5
  <2> QED BY <2>6 DEF LosesAtMostARounding
<1>4. CASE Depositing
  <2> PICK n \in Nat, s \in Nat : Changes(n, 0, s) /\ WorthNoMore(s, n)
    BY <1>4, DepositingChanges
  <2>1. V * s <= n * S
    BY <1>1 DEF WorthNoMore
  <2>2. price_loss = V * s - (n - 0) * S
    BY <1>1, PriceLossAfter
  <2>3. V * s \in Int /\ n * S \in Int /\ n - 0 = n
    BY <1>1, ThreeTimes
  <2>4. price_loss <= 0
    BY <2>1, <2>2, <2>3
  <2> QED BY <2>4 DEF LosesAtMostARounding
<1>5. ASSUME NEW t \in Ticket, NEW m \in Lamports, OrderUnstake(t, m)
      PROVE  LosesAtMostARounding
  <2> m \in Nat
    BY <1>1
  <2> PICK n \in Nat : /\ Changes(0, n, - m)
                       /\ n <= V
                       /\ n * S <= V * m
    BY <1>5, OrderUnstakeChanges
  <2>1. - m \in Int /\ n <= V + 0 /\ 0 - n = - n /\ - n \in Int
    BY <1>1
  <2>2. price_loss = V * (- m) - (0 - n) * S
    BY <1>1, <2>1, PriceLossAfter
  <2>3. V * (- m) = - (V * m) /\ (- n) * S = - (n * S)
    BY <1>1
  <2>4. V * m \in Int /\ n * S \in Int
    BY <1>1, ThreeTimes
  <2>5. price_loss <= 0
    BY <2>1, <2>2, <2>3, <2>4
  <2> QED BY <2>5 DEF LosesAtMostARounding
<1>6. ASSUME NEW t \in DOMAIN tickets, Claim(t)
      PROVE  LosesAtMostARounding
  <2> PICK n \in Nat : Changes(- n, - n, 0)
    BY <1>6, ClaimChanges
  <2>1. - n \in Int /\ - n <= V + (- n) /\ (- n) - (- n) = 0
    BY <1>1
  <2>2. price_loss = V * 0 - ((- n) - (- n)) * S
    BY <1>1, <2>1, PriceLossAfter
  <2>3. V * 0 = 0 /\ 0 * S = 0
    BY <1>1
  <2>4. price_loss <= 0
    BY <2>1, <2>2, <2>3
  <2> QED BY <2>4 DEF LosesAtMostARounding
<1>7. ASSUME NEW a \in DOMAIN stake_list, NEW b \in StakeAccount,
             NEW m \in Lamports, WithdrawStakeAccount(a, b, m)
      PROVE  LosesAtMostARounding
  <2> m \in Nat
    BY <1>1
  <2> PICK n \in Nat, burned \in Nat :
        /\ n > 0 /\ n <= V
        /\ Changes(- n, 0, - burned)
        /\ total_active_balance' = total_active_balance - n
        /\ n * S < V * burned + V
    BY <1>7, WithdrawStakeAccountChanges
  <2>1. - n \in Int /\ - burned \in Int /\ 0 <= V + (- n) /\ (- n) - 0 = - n
    BY <1>1
  <2>2. price_loss = V * (- burned) - ((- n) - 0) * S
    BY <1>1, <2>1, PriceLossAfter
  <2>3. V * (- burned) = - (V * burned) /\ (- n) * S = - (n * S)
    BY <1>1
  <2>4. V * burned \in Int /\ n * S \in Int
    BY <1>1, ThreeTimes
  <2>5. price_loss < V
    BY <1>1, <2>1, <2>2, <2>3, <2>4
  <2>6. /\ msol_supply' <= msol_supply
        /\ total_active_balance' < total_active_balance
    BY <1>1, HoldingTypes DEF Changes
  <2> QED BY <2>5, <2>6 DEF LosesAtMostARounding
<1> QED BY <1>2, <1>3, <1>4, <1>5, <1>6, <1>7, WhoChangesTheValue
        DEF Ordering, Claiming, Withdrawing

\* Without a slash no instruction, in any order and at any price, lowers what
\* a mSOL is worth, but for the rounding of the fee of a withdrawn stake
\* account, and that by less than one mSOL unit.
THEOREM PriceOfMsolNeverFalls == UnslashedSpec => MsolPriceNeverFalls
<1> DEFINE A == mint_supply > 0 /\ msol_supply' > 0 =>
      \/ price_loss <= 0
      \/ /\ total_active_balance' < total_active_balance
         /\ msol_supply' <= msol_supply
         /\ price_loss < total_virtual_staked_lamports
<1>1. IInv /\ Backed /\ TicketsAreCovered /\ [UnslashedNext]_vars => A
  BY NextKeepsThePrice DEF LosesAtMostARounding, Next
<1>2. IInv /\ Backed /\ TicketsAreCovered /\ [UnslashedNext]_vars => [A]_vars
  BY <1>1
<1>3. MsolPriceNeverFalls <=> [][A]_vars
  BY PTL DEF MsolPriceNeverFalls
<1> HIDE DEF A
<1> QED BY <1>2, <1>3, CoveredAlways, PTL DEF UnslashedSpec

---------------------------------------------------------------------------
(* The books are the real balances                                         *)

LEMMA BalanceTypes ==
  ASSUME IInv
  PROVE  /\ available_reserve_balance \in Nat /\ reserve_pda \in Nat
         /\ TokenRent \in Nat
         /\ msol_supply \in Nat /\ user_msol \in Nat /\ treasury_msol \in Nat
         /\ msol_leg \in Nat /\ lp_supply \in Nat /\ user_lp \in Nat
         /\ user_lp <= lp_supply
         /\ mint_supply = user_msol + treasury_msol + msol_leg
BY ConstantTypes
   DEF IInv, TypeOK, ReserveTypes, MintTypes, PoolTypes, mint_supply,
       BooksAreConservative

LEMMA UnbookedStaysExact ==
  ASSUME BooksAreExact, UNCHANGED reserveVars, UNCHANGED mintVars,
         UNCHANGED poolVars
  PROVE  BooksAreExact'
BY DEF BooksAreExact, mint_supply, reserveVars, mintVars, poolVars

LEMMA DepositStaysExact ==
  ASSUME IInv, BooksAreExact, NEW l \in Nat, Deposit(l)
  PROVE  BooksAreExact'
<1> DEFINE order == calc_msol_from_lamports(l)
           swapped == msol_swapped(l)
           paid == sol_swapped(l)
<1>1. order \in Nat /\ swapped \in Nat
  BY PriceTypes, BalanceTypes DEF msol_swapped, Lesser
<1>2. paid \in Nat
  BY <1>1, PriceTypes DEF sol_swapped
<1>3. /\ msol_leg' = msol_leg - swapped
      /\ available_reserve_balance' = available_reserve_balance + (l - paid)
      /\ reserve_pda' = reserve_pda + (l - paid)
      /\ user_msol' = user_msol + order
      /\ msol_supply' = msol_supply + (order - swapped)
      /\ UNCHANGED <<treasury_msol, lp_supply, user_lp>>
  BY DEF Deposit, on_transfer_to_reserve
<1> HIDE DEF order, swapped, paid
<1> QED BY <1>1, <1>2, <1>3, BalanceTypes DEF BooksAreExact, mint_supply

LEMMA DepositStakeAccountStaysExact ==
  ASSUME IInv, BooksAreExact, NEW a \in DOMAIN stake_accounts,
         DepositStakeAccount(a)
  PROVE  BooksAreExact'
<1> DEFINE minted == calc_msol_from_lamports(stake_accounts[a].stake)
<1>1. minted \in Nat
  BY StakesAreTyped, PriceTypes
<1>2. /\ user_msol' = user_msol + minted
      /\ msol_supply' = msol_supply + minted
      /\ UNCHANGED <<reserveVars, treasury_msol, poolVars>>
  BY DEF DepositStakeAccount
<1> HIDE DEF minted
<1> QED BY <1>1, <1>2, BalanceTypes
        DEF BooksAreExact, mint_supply, reserveVars, poolVars

LEMMA WithdrawStakeAccountStaysExact ==
  ASSUME IInv, BooksAreExact, NEW a, NEW b, NEW m \in Nat,
         WithdrawStakeAccount(a, b, m)
  PROVE  BooksAreExact'
<1> DEFINE n == split_lamports(m)
           fees == withdraw_msol_fees(m)
<1>1. n \in Nat
  BY SplitLamportsTypes
<1>2. calc_msol_from_lamports(n) \in Nat
  BY <1>1, PriceTypes
<1>3. fees \in Nat
  BY <1>2, MonusIsNat DEF withdraw_msol_fees
<1>4. /\ user_msol' = user_msol - m
      /\ treasury_msol' = treasury_msol + fees
      /\ msol_supply' = msol_supply - (m - fees)
      /\ UNCHANGED <<reserveVars, poolVars>>
  BY DEF WithdrawStakeAccount
<1> HIDE DEF n, fees
<1> QED BY <1>3, <1>4, BalanceTypes
        DEF BooksAreExact, mint_supply, reserveVars, poolVars

LEMMA TicketsStayExact ==
  ASSUME IInv, BooksAreExact, Ordering \/ Claiming
  PROVE  BooksAreExact'
<1>1. Lamports \subseteq Nat
  BY ConstantTypes
<1>2. ASSUME NEW t \in Ticket, NEW m \in Lamports, OrderUnstake(t, m)
      PROVE  BooksAreExact'
  BY <1>1, <1>2, BalanceTypes
     DEF OrderUnstake, BooksAreExact, mint_supply, reserveVars, poolVars
<1>3. ASSUME NEW t \in DOMAIN tickets, Claim(t)
      PROVE  BooksAreExact'
  <2> DEFINE n == tickets[t].lamports_amount
  <2>1. n \in Nat
    BY DEF IInv, TypeOK, TicketTypes, TicketAccountData
  <2>2. /\ available_reserve_balance' = available_reserve_balance - n
        /\ reserve_pda' = reserve_pda - n
        /\ UNCHANGED <<mintVars, poolVars>>
    BY <1>3 DEF Claim, on_transfer_from_reserve
  <2> HIDE DEF n
  <2> QED BY <2>1, <2>2, BalanceTypes
          DEF BooksAreExact, mint_supply, mintVars, poolVars
<1> QED BY <1>2, <1>3 DEF Ordering, Claiming

LEMMA PoolStaysExact ==
  ASSUME IInv, BooksAreExact, LiquidityPoolNext
  PROVE  BooksAreExact'
<1>1. Lamports \subseteq Nat
  BY ConstantTypes
<1>2. ASSUME NEW l \in Lamports, AddLiquidity(l)
      PROVE  BooksAreExact'
  BY <1>2 DEF AddLiquidity, lp_mint_supply, BooksAreExact, mint_supply,
     reserveVars, mintVars
<1>3. ASSUME NEW n \in Nat, RemoveLiquidity(n)
      PROVE  BooksAreExact'
  <2> DEFINE out == msol_out_amount(n)
  <2>1. lp_supply_used = user_lp
    BY BalanceTypes DEF lp_supply_used, lp_mint_supply, Lesser
  <2>2. out \in Nat
    BY <2>1, BalanceTypes, ProportionalIsNat DEF msol_out_amount
  <2>3. /\ msol_leg' = msol_leg - out
        /\ user_msol' = user_msol + out
        /\ user_lp' = user_lp - n
        /\ lp_supply' = user_lp - n
        /\ UNCHANGED <<reserveVars, msol_supply, treasury_msol>>
    BY <1>3, <2>1 DEF RemoveLiquidity
  <2> HIDE DEF out
  <2> QED BY <2>2, <2>3, BalanceTypes
          DEF BooksAreExact, mint_supply, reserveVars
<1>4. ASSUME NEW m \in Nat, LiquidUnstake(m)
      PROVE  BooksAreExact'
  <2> DEFINE fee == liquid_unstake_msol_fee(m)
             cut == treasury_msol_cut(m)
  <2>1. fee \in Nat
    BY LiquidUnstakeFeeTypes, FeeIsBounded DEF liquid_unstake_msol_fee
  <2> HIDE DEF fee
  <2>2. cut \in Nat
    <3>1. FeeApply(config.treasury_cut, fee) \in Nat
      BY <2>1, ConfigTypes, FeeIsBounded
    <3> QED BY <3>1 DEF treasury_msol_cut, fee
  <2>3. /\ msol_leg' = msol_leg + m - cut
        /\ treasury_msol' = treasury_msol + cut
        /\ user_msol' = user_msol - m
        /\ UNCHANGED <<reserveVars, msol_supply, lp_supply, user_lp>>
    BY <1>4 DEF LiquidUnstake
  <2> HIDE DEF cut
  <2> QED BY <2>2, <2>3, BalanceTypes
          DEF BooksAreExact, mint_supply, reserveVars
<1> QED BY <1>1, <1>2, <1>3, <1>4 DEF LiquidityPoolNext

LEMMA UpdatesStayExact ==
  ASSUME IInv, BooksAreExact, Updating
  PROVE  BooksAreExact'
<1>1. aligned_reserve \in Nat /\ aligned_reserve + TokenRent = reserve_pda
  BY AlignedReserveTypes
<1>2. \A a \in DOMAIN stake_list :
        /\ stake_accounts[a].balance \in Nat
        /\ stake_accounts[a].stake \in Nat
        /\ last_update(a) \in Nat
  BY StakesAreTyped DEF IInv, TypeOK, StakeTypes
<1>3. ASSUME NEW n \in Nat, NEW fees \in Nat,
             available_reserve_balance' = aligned_reserve + n,
             reserve_pda' = reserve_pda + n,
             treasury_msol' = treasury_msol + fees,
             msol_supply' = mint_supply + fees,
             UNCHANGED <<user_msol, poolVars>>
      PROVE  BooksAreExact'
  BY <1>1, <1>3, BalanceTypes DEF BooksAreExact, mint_supply, poolVars
<1>4. ASSUME NEW a \in DOMAIN stake_list, UpdateActive(a)
      PROVE  BooksAreExact'
  <2> DEFINE extra == extra_lamports(a)
             f1 == extra_msol_fees(a)
             f2 == delegation_growth_msol_fees(a)
  <2>1. extra \in Nat /\ rewards(a) \in Nat
    BY <1>2 DEF extra_lamports, rewards, Monus
  <2> HIDE DEF extra
  <2>2. aligned_reserve + extra \in Nat /\ mint_supply \in Nat
    BY <1>1, <2>1, StateTypes
  <2>3. f1 \in Nat
    BY <2>1, <2>2, ProtocolFeesTypes DEF extra_msol_fees, extra
  <2>4. mint_supply + f1 \in Nat
    BY <2>2, <2>3
  <2>5. f2 \in Nat
    BY <2>1, <2>2, <2>4, ProtocolFeesTypes
       DEF delegation_growth_msol_fees, extra
  <2>6. f1 + f2 \in Nat
    BY <2>3, <2>5
  <2>7. /\ available_reserve_balance' = aligned_reserve + extra
        /\ reserve_pda' = reserve_pda + extra
        /\ treasury_msol' = treasury_msol + (f1 + f2)
        /\ msol_supply' = mint_supply + (f1 + f2)
        /\ UNCHANGED <<user_msol, poolVars>>
    BY <1>4 DEF UpdateActive, extra
  <2> HIDE DEF f1, f2
  <2> QED BY <1>3, <2>1, <2>6, <2>7
<1>5. ASSUME NEW a \in DOMAIN stake_list, UpdateDeactivated(a)
      PROVE  BooksAreExact'
  <2> DEFINE balance == stake_accounts[a].balance
             gain == Monus(balance, last_update(a))
             fees == deactivated_msol_fees(a)
  <2>1. balance \in Nat /\ gain \in Nat
    BY <1>2 DEF Monus
  <2>2. mint_supply \in Nat
    BY StateTypes
  <2>3. fees \in Nat
    BY <1>1, <2>1, <2>2, ProtocolFeesTypes DEF deactivated_msol_fees
  <2>4. /\ available_reserve_balance' = aligned_reserve + balance
        /\ reserve_pda' = reserve_pda + balance
        /\ treasury_msol' = treasury_msol + fees
        /\ msol_supply' = mint_supply + fees
        /\ UNCHANGED <<user_msol, poolVars>>
    BY <1>5 DEF UpdateDeactivated
  <2> HIDE DEF balance, fees
  <2> QED BY <1>3, <2>1, <2>3, <2>4
<1> QED BY <1>4, <1>5 DEF Updating

LEMMA StakeReserveStaysExact ==
  ASSUME IInv, BooksAreExact, NEW v \in DOMAIN validator_list,
         NEW a \in StakeAccount, StakeReserve(v, a)
  PROVE  BooksAreExact'
<1> DEFINE n == reserve_stake_target(v)
<1>1. n \in Nat
  BY ReserveTargetTypes DEF StakeReserve, TakeStakeRun
<1>2. /\ available_reserve_balance' = available_reserve_balance - n
      /\ reserve_pda' = reserve_pda - n
      /\ UNCHANGED <<mintVars, poolVars>>
  BY DEF StakeReserve, on_transfer_from_reserve
<1> HIDE DEF n
<1> QED BY <1>1, <1>2, BalanceTypes
        DEF BooksAreExact, mint_supply, mintVars, poolVars

\* Instructions and steps of the chain that touch none of these balances
LEMMA OthersStayExact ==
  ASSUME BooksAreExact,
         \/ \E v \in DOMAIN validator_list : StakeReserveReturnsEarly(v)
         \/ \E a \in DOMAIN stake_list : DeactivateWholeStake(a)
         \/ \E a \in DOMAIN stake_list, b \in StakeAccount :
              DeactivateSplitStake(a, b)
         \/ \E dst \in DOMAIN stake_list, src \in DOMAIN stake_list :
              MergeStakes(dst, src)
         \/ RedelegateNext
         \/ UnstakeNext
         \/ ValidatorsNext
         \/ AdminNext
         \/ ClockNext
         \/ StakersNext
         \/ SlashNext
         \/ UNCHANGED vars
  PROVE  BooksAreExact'
<1> DEFINE Untold == UNCHANGED <<reserveVars, mintVars, poolVars>>
<1>1. ASSUME NEW v, StakeReserveReturnsEarly(v) PROVE Untold
  BY <1>1 DEF StakeReserveReturnsEarly
<1>2. ASSUME NEW v, NEW n, NEW ran, StartDelayedUnstake(v, n, ran) PROVE Untold
  BY <1>2 DEF StartDelayedUnstake
<1>3. ASSUME NEW a, DeactivateWholeStake(a) PROVE Untold
  BY <1>2, <1>3 DEF DeactivateWholeStake
<1>4. ASSUME NEW a, NEW b, DeactivateSplitStake(a, b) PROVE Untold
  BY <1>2, <1>4 DEF DeactivateSplitStake
<1>5. ASSUME NEW dst, NEW src, MergeStakes(dst, src) PROVE Untold
  BY <1>5 DEF MergeStakes
<1>6. ASSUME NEW v, NEW w, NEW n, MoveStake(v, w, n) PROVE Untold
  BY <1>6 DEF MoveStake
<1>7. ASSUME NEW a, NEW dst, NEW c, RedelegateWholeStake(a, dst, c)
      PROVE  Untold
  BY <1>6, <1>7 DEF RedelegateWholeStake
<1>8. ASSUME NEW a, NEW dst, NEW b, NEW c, RedelegateSplitStake(a, dst, b, c)
      PROVE  Untold
  BY <1>6, <1>8 DEF RedelegateSplitStake
<1>9. ASSUME NEW v, NEW n, StartEmergencyUnstake(v, n) PROVE Untold
  BY <1>9 DEF StartEmergencyUnstake
<1>10. ASSUME NEW a, EmergencyUnstake(a) PROVE Untold
  BY <1>9, <1>10 DEF EmergencyUnstake
<1>11. ASSUME NEW a, NEW l, PartialUnstakeWhole(a, l) PROVE Untold
  BY <1>9, <1>11 DEF PartialUnstakeWhole
<1>12. ASSUME NEW a, NEW b, NEW l, PartialUnstakeSplit(a, b, l) PROVE Untold
  BY <1>9, <1>12 DEF PartialUnstakeSplit
<1>13. ASSUME ValidatorsNext PROVE Untold
  BY <1>13 DEF ValidatorsNext, AddValidator, RemoveValidator,
     SetValidatorScore, ConfigValidatorSystem
<1>14. ASSUME AdminNext PROVE Untold
  BY <1>14 DEF AdminNext, Pause, Resume, ConfigMarinade, ConfigLp,
     ChangeAuthority, ReallocStakeList, ReallocValidatorList, Books
<1>15. ASSUME ClockNext PROVE Untold
  BY <1>15 DEF ClockNext, Tick, NextEpoch
<1>16. ASSUME StakersNext PROVE Untold
  BY <1>16 DEF StakersNext, UserStakes, PayStakeAccount
<1>17. ASSUME SlashNext PROVE Untold
  BY <1>17 DEF SlashNext, Slash
<1>18. ASSUME UNCHANGED vars PROVE Untold
  BY <1>18 DEF vars
<1>19. ASSUME RedelegateNext \/ UnstakeNext PROVE Untold
  BY <1>7, <1>8, <1>10, <1>11, <1>12, <1>19 DEF RedelegateNext, UnstakeNext
<1>20. Untold
  BY <1>1, <1>3, <1>4, <1>5, <1>13, <1>14, <1>15, <1>16, <1>17, <1>18, <1>19
<1> QED BY <1>20, UnbookedStaysExact

LEMMA InitIsExact == Init => BooksAreExact
<1> SUFFICES ASSUME NEW d \in InitializeData, Initialize(d)
             PROVE  BooksAreExact
  BY DEF Init
<1>1. TokenRent \in Nat
  BY ConstantTypes
<1> QED BY <1>1 DEF Initialize, EmptyBooks, BooksAreExact, mint_supply

LEMMA NextStaysExact ==
  ASSUME IInv, BooksAreExact, [ProgramNext \/ SlashNext]_vars
  PROVE  BooksAreExact'
<1>1. Lamports \subseteq Nat
  BY ConstantTypes
<1>2. CASE UsersNext
  BY <1>1, <1>2, DepositStaysExact, DepositStakeAccountStaysExact,
     WithdrawStakeAccountStaysExact, TicketsStayExact
     DEF UsersNext, StakeAccountsNext, Ordering, Claiming
<1>3. CASE CrankNext
  BY <1>3, UpdatesStayExact, StakeReserveStaysExact, OthersStayExact
     DEF CrankNext, Updating
<1>4. CASE \/ RedelegateNext \/ UnstakeNext \/ ValidatorsNext \/ AdminNext
           \/ ClockNext \/ StakersNext \/ SlashNext \/ UNCHANGED vars
  BY <1>4, OthersStayExact
<1> QED BY <1>2, <1>3, <1>4, PoolStaysExact DEF ProgramNext

\* As long as nobody pays the reserve or burns tokens behind the program, each
\* instruction moves lamports and tokens in the books and in the accounts at
\* once: the two agree in every state, and no update has anything to align.
\* A slash does not matter.
THEOREM BooksStayExact == BookedSpec => []BooksAreExact
<1>1. Init => IInv /\ BooksAreExact
  BY InitKeeps, InitIsExact
<1>2. [ProgramNext \/ SlashNext]_vars => [Next]_vars
  BY DEF Next, UnslashedNext
<1>3. IInv /\ BooksAreExact /\ [ProgramNext \/ SlashNext]_vars
        => (IInv /\ BooksAreExact)'
  BY <1>2, NextKeeps, NextStaysExact
<1> QED BY <1>1, <1>3, PTL DEF BookedSpec

---------------------------------------------------------------------------
(* The program is the vault of its holders                                 *)

\* A step whose books agree: the vault does not see burnt tokens.
LEMMA NextIsAVaultStep ==
  ASSUME IInv, Backed, TicketsAreCovered, BooksAreExact, [Next]_vars
  PROVE  \/ Holders!VaultNext
         \/ UNCHANGED <<total_virtual_staked_lamports, msol_supply,
                        circulating_ticket_balance>>
<1> DEFINE V == total_virtual_staked_lamports
           S == msol_supply
           T == circulating_ticket_balance
<1>1. /\ Lamports \subseteq Nat /\ 0 \in Int /\ Nat \subseteq Int
      /\ V \in Nat /\ S \in Nat /\ T \in Nat /\ mint_supply = S
  BY ConstantTypes, StateTypes, HoldingTypes DEF BooksAreExact
<1>2. ASSUME NEW n \in Int, NEW s \in Int,
             V' = V + n, S' = S + s,
             S > 0 => V * s <= n * S
      PROVE  Holders!AtNoLoss
  <2>1. CASE S = 0
    BY <2>1 DEF Holders!AtNoLoss
  <2>2. CASE S > 0
    <3>1. V * (S + s) = V * S + V * s /\ (V + n) * S = V * S + n * S
      BY <1>1, TimesDistributes
    <3>2. V * S \in Int /\ V * s \in Int /\ n * S \in Int
      BY <1>1, ThreeTimes
    <3>3. (V + n) * S >= V * (S + s)
      BY <1>2, <2>2, <3>1, <3>2
    <3> QED BY <1>2, <3>3 DEF Holders!AtNoLoss
  <2> QED BY <1>1, <2>1, <2>2
<1>3. ASSUME NEW n \in Nat, NEW s \in Nat, Changes(n, 0, s),
             S > 0 => V * s <= n * S
      PROVE  Holders!VaultNext
  <2>1. V' = V + n /\ S' = S + s /\ T' = T
    <3>1. 0 <= V + n /\ V + n - 0 = V + n /\ T + 0 = T
      BY <1>1
    <3> QED BY <1>1, <1>3, <3>1, ValueAfter DEF Changes
  <2>2. Holders!AtNoLoss
    BY <1>2, <1>3, <2>1
  <2>3. V' >= V /\ S' >= S
    BY <1>1, <2>1
  <2> QED BY <2>1, <2>2, <2>3 DEF Holders!VaultNext, Holders!Gain
<1>4. CASE Quiet
  BY <1>4, QuietKeepsTheValue
<1>5. CASE Updating
  <2> PICK n \in Nat, fees \in Nat : Updates(n, fees)
    BY <1>5, UpdatingChanges
  <2>1. mint_supply - S + fees = fees
    BY <1>1
  <2>2. Changes(n, 0, fees)
    BY <2>1 DEF Updates
  <2>3. S > 0 => V * fees <= n * S
    BY <1>1, <2>1, FeesAreWorthNoMore
  <2> QED BY <1>3, <2>2, <2>3
<1>6. CASE Depositing
  <2> PICK n \in Nat, s \in Nat : Changes(n, 0, s) /\ WorthNoMore(s, n)
    BY <1>6, DepositingChanges
  <2> QED BY <1>3 DEF WorthNoMore
<1>7. ASSUME NEW t \in Ticket, NEW m \in Lamports, OrderUnstake(t, m)
      PROVE  \/ Holders!VaultNext
             \/ UNCHANGED <<V, S, T>>
  <2> m \in Nat
    BY <1>1
  <2> PICK n \in Nat : /\ Changes(0, n, - m)
                       /\ n <= V
                       /\ m = 0 => n = 0
                       /\ n * S <= V * m
    BY <1>7, OrderUnstakeChanges
  <2>1. /\ - m \in Int /\ - n \in Int /\ n <= V + 0
        /\ V + 0 - n = V + (- n) /\ S + (- m) = S - m
    BY <1>1
  <2>2. V' = V + (- n) /\ S' = S + (- m) /\ T' = T + n
    BY <1>1, <2>1, ValueAfter DEF Changes
  <2>3. CASE m = 0
    BY <1>1, <2>2, <2>3
  <2>4. CASE m > 0
    <3>1. V * (- m) = - (V * m) /\ (- n) * S = - (n * S)
      BY <1>1
    <3>2. V * m \in Int /\ n * S \in Int
      BY <1>1, ThreeTimes
    <3>3. Holders!AtNoLoss
      BY <1>2, <2>1, <2>2, <3>1, <3>2
    <3>4. S' < S /\ T' >= T /\ V' + T' = V + T
      BY <1>1, <2>2, <2>4
    <3> QED BY <3>3, <3>4 DEF Holders!VaultNext, Holders!Promise
  <2> QED BY <2>3, <2>4
<1>8. ASSUME NEW t \in DOMAIN tickets, Claim(t)
      PROVE  Holders!VaultNext
  <2> PICK n \in Nat : n > 0 /\ Changes(- n, - n, 0)
    BY <1>8, ClaimChanges
  <2>1. - n \in Int /\ - n <= V + (- n) /\ V + (- n) - (- n) = V
    BY <1>1
  <2>2. V' = V /\ S' = S /\ T' < T
    BY <1>1, <2>1, ValueAfter DEF Changes
  <2> QED BY <2>2 DEF Holders!VaultNext, Holders!Pay
<1>9. ASSUME NEW a \in DOMAIN stake_list, NEW b \in StakeAccount,
             NEW m \in Lamports, WithdrawStakeAccount(a, b, m)
      PROVE  Holders!VaultNext
  <2> m \in Nat
    BY <1>1
  <2> PICK n \in Nat, burned \in Nat :
        /\ n > 0 /\ n <= V
        /\ Changes(- n, 0, - burned)
        /\ n * S < V * burned + V
    BY <1>9, WithdrawStakeAccountChanges
  <2>1. /\ - n \in Int /\ - burned \in Int /\ 0 <= V + (- n)
        /\ V + (- n) - 0 = V - n /\ S + (- burned) = S - burned /\ T + 0 = T
    BY <1>1
  <2>2. V' = V - n /\ S' = S - burned /\ T' = T
    BY <1>1, <2>1, ValueAfter DEF Changes
  <2>3. (V - n) * S = V * S - n * S /\ V * (S - burned) = V * S - V * burned
    BY <1>1, TimesDistributes
  <2>4. V * S \in Int /\ n * S \in Int /\ V * burned \in Int
    BY <1>1, ThreeTimes
  <2>5. (V - n) * S + V > V * (S - burned)
    BY <1>1, <2>3, <2>4
  <2>6. V' < V /\ S' <= S
    BY <1>1, <2>2
  <2> QED BY <2>2, <2>5, <2>6 DEF Holders!VaultNext, Holders!Withdraw
<1> QED BY <1>4, <1>5, <1>6, <1>7, <1>8, <1>9, WhoChangesTheValue
        DEF Ordering, Claiming, Withdrawing

LEMMA InitIsAVault == Init => Holders!VaultInit
<1> SUFFICES ASSUME NEW d \in InitializeData, Initialize(d)
             PROVE  Holders!VaultInit
  BY DEF Init
<1> QED BY DEF Initialize, EmptyBooks, Holders!VaultInit,
           total_virtual_staked_lamports, total_lamports_under_control,
           total_cooling_down, Monus

\* Every instruction, with the clock and the stakers around it, is a step of
\* the vault: a gain that costs no holder anything, a promise taken from the
\* value of the shares given up, the payment of a promise, or the withdrawal
\* of a stake account that costs those who stay less than one share.
THEOREM ProgramImplementsVault == ProgramSpec => ImplementsVault
<1> DEFINE Inv == IInv /\ Backed /\ TicketsAreCovered /\ BooksAreExact
           step == <<total_virtual_staked_lamports, msol_supply,
                     circulating_ticket_balance>>
<1>1. Init => Inv /\ Holders!VaultInit
  BY InitIsCovered, InitIsExact, InitIsAVault
<1>2. [ProgramNext]_vars => /\ [UnslashedNext]_vars /\ [Next]_vars
                            /\ [ProgramNext \/ SlashNext]_vars
  BY DEF Next, UnslashedNext
<1>3. Inv /\ [ProgramNext]_vars => Inv'
  BY <1>2, UnslashedCovers, NextStaysExact
<1>4. Inv /\ [ProgramNext]_vars => [Holders!VaultNext]_step
  BY <1>2, NextIsAVaultStep
<1>5. ImplementsVault <=> Holders!VaultInit /\ [][Holders!VaultNext]_step
  BY PTL DEF ImplementsVault, Holders!VaultSpec
<1> HIDE DEF Inv, step
<1> QED BY <1>1, <1>3, <1>4, <1>5, PTL DEF ProgramSpec

---------------------------------------------------------------------------
(* The share of the treasury                                               *)

\* Nobody else mints for the treasury without taking mSOL from a user.
LEMMA WhoPaysTheTreasury ==
  ASSUME IInv, [Next]_vars,
         treasury_msol' > treasury_msol, user_msol' = user_msol
  PROVE  Updating
<1> SUFFICES ASSUME ~ Updating PROVE FALSE
  OBVIOUS
<1>0. /\ Lamports \subseteq Nat
      /\ treasury_msol \in Nat /\ user_msol \in Nat
  BY ConstantTypes, BalanceTypes
<1>1. ~ UNCHANGED treasury_msol /\ ~ UNCHANGED mintVars
  BY <1>0 DEF mintVars
<1>2. ASSUME NEW a \in DOMAIN stake_list, NEW b \in StakeAccount,
             NEW m \in Lamports, WithdrawStakeAccount(a, b, m)
      PROVE  FALSE
  <2>1. m \in Nat /\ m > 0
    BY <1>0, <1>2, WithdrawStakeAccountChanges
  <2>2. user_msol' = user_msol - m
    BY <1>2 DEF WithdrawStakeAccount
  <2> QED BY <1>0, <2>1, <2>2
<1>3. ~ UsersNext
  BY <1>1, <1>2
     DEF UsersNext, StakeAccountsNext, Deposit, DepositStakeAccount,
         OrderUnstake, Claim
<1>4. ASSUME NEW m \in Nat, LiquidUnstake(m)
      PROVE  FALSE
  <2> DEFINE fee == liquid_unstake_msol_fee(m)
             cut == treasury_msol_cut(m)
  <2>1. /\ user_msol' = user_msol - m
        /\ treasury_msol' = treasury_msol + cut
    BY <1>4 DEF LiquidUnstake
  <2>2. m = 0
    BY <1>0, <2>1
  <2>3. fee \in Nat /\ fee <= m
    BY LiquidUnstakeFeeTypes, FeeIsBounded DEF liquid_unstake_msol_fee
  <2> HIDE DEF fee
  <2>4. config.treasury_cut \in Nat /\ FeeCheck(config.treasury_cut)
    BY ConfigTypes DEF IInv, ConfigWithinLimits, ValidLiqPool
  <2>5. /\ FeeApply(config.treasury_cut, fee) \in Nat
        /\ FeeApply(config.treasury_cut, fee) <= fee
    BY <2>3, <2>4, FeeIsBounded
  <2>6. cut = 0
    BY <2>2, <2>3, <2>5 DEF treasury_msol_cut, fee
  <2> QED BY <1>0, <2>1, <2>6
<1>5. ~ LiquidityPoolNext
  BY <1>0, <1>1, <1>4 DEF LiquidityPoolNext, AddLiquidity, RemoveLiquidity
<1>6. ~ CrankNext
  BY <1>1 DEF CrankNext, Updating, StakeReserve, StakeReserveReturnsEarly,
     DeactivateWholeStake, DeactivateSplitStake, StartDelayedUnstake,
     MergeStakes
<1>7. ASSUME NEW v, NEW w, NEW n, MoveStake(v, w, n) PROVE FALSE
  BY <1>1, <1>7 DEF MoveStake
<1>8. ASSUME NEW v, NEW n, StartEmergencyUnstake(v, n) PROVE FALSE
  BY <1>1, <1>8 DEF StartEmergencyUnstake
<1>9. ~ RedelegateNext
  <2>1. ASSUME NEW a, NEW dst, NEW c, RedelegateWholeStake(a, dst, c)
        PROVE  FALSE
    BY <1>7, <2>1 DEF RedelegateWholeStake
  <2>2. ASSUME NEW a, NEW dst, NEW b, NEW c, RedelegateSplitStake(a, dst, b, c)
        PROVE  FALSE
    BY <1>7, <2>2 DEF RedelegateSplitStake
  <2> QED BY <2>1, <2>2 DEF RedelegateNext
<1>10. ~ UnstakeNext
  <2>1. ASSUME NEW a, EmergencyUnstake(a) PROVE FALSE
    BY <1>8, <2>1 DEF EmergencyUnstake
  <2>2. ASSUME NEW a, NEW l, PartialUnstakeWhole(a, l) PROVE FALSE
    BY <1>8, <2>2 DEF PartialUnstakeWhole
  <2>3. ASSUME NEW a, NEW b, NEW l, PartialUnstakeSplit(a, b, l) PROVE FALSE
    BY <1>8, <2>3 DEF PartialUnstakeSplit
  <2> QED BY <2>1, <2>2, <2>3 DEF UnstakeNext
<1>11. ~ ValidatorsNext
  BY <1>1 DEF ValidatorsNext, AddValidator, RemoveValidator,
     SetValidatorScore, ConfigValidatorSystem
<1>12. ~ AdminNext
  BY <1>1 DEF AdminNext, Pause, Resume, ConfigMarinade, ConfigLp,
     ChangeAuthority, ReallocStakeList, ReallocValidatorList, Books
<1>13. ~ ClockNext /\ ~ StakersNext /\ ~ SlashNext /\ ~ UnbookedNext
  BY <1>1 DEF ClockNext, Tick, NextEpoch, StakersNext, UserStakes,
     PayStakeAccount, SlashNext, Slash, UnbookedNext, PayReserve, BurnMsol,
     BurnLp
<1>14. ~ UNCHANGED vars
  BY <1>1 DEF vars
<1> QED BY <1>3, <1>5, <1>6, <1>9, <1>10, <1>11, <1>12, <1>13, <1>14
        DEF Next, UnslashedNext, ProgramNext

\* An update charges the lamports of an account and the growth of its
\* delegation one after the other, the second at a supply that counts the
\* first, and rounds twice; without a slash the two fees together are never
\* worth more, at the price before, than the reward fee of what the holders
\* have gained.
THEOREM TreasuryTakesItsShare == UnslashedSpec => TheTreasuryTakesItsShare
<1> DEFINE Inv == IInv /\ Backed /\ TicketsAreCovered
           fees == treasury_msol' - treasury_msol
           gain == total_virtual_staked_lamports'
                     - total_virtual_staked_lamports
           A == treasury_msol' > treasury_msol /\ user_msol' = user_msol
                  /\ mint_supply > 0 =>
                  fees * total_virtual_staked_lamports * MAX_BASIS_POINTS
                    <= config.reward_fee * gain * mint_supply
<1>1. Inv /\ [UnslashedNext]_vars => A
  <2> SUFFICES ASSUME Inv, [UnslashedNext]_vars,
                      treasury_msol' > treasury_msol,
                      user_msol' = user_msol, mint_supply > 0
               PROVE  fees * total_virtual_staked_lamports * MAX_BASIS_POINTS
                        <= config.reward_fee * gain * mint_supply
    OBVIOUS
  <2>1. Updating
    BY WhoPaysTheTreasury DEF Next
  <2> PICK n \in Nat, f \in Nat : Updates(n, f)
    BY <2>1, UpdatingChanges
  <2>2. fees = f
    BY BalanceTypes DEF Updates
  <2>3. gain = n
    <3>1. mint_supply - msol_supply + f \in Int /\ n \in Int /\ 0 \in Int
      BY HoldingTypes
    <3>2. total_virtual_staked_lamports \in Nat
            /\ 0 <= total_virtual_staked_lamports + n
      BY StateTypes
    <3>3. Changes(n, 0, mint_supply - msol_supply + f)
      BY DEF Updates
    <3>4. total_virtual_staked_lamports'
            = total_virtual_staked_lamports + n - 0
      BY <3>1, <3>2, <3>3, ValueAfter
    <3> QED BY <3>2, <3>4
  <2>4. f * total_virtual_staked_lamports * MAX_BASIS_POINTS
          <= config.reward_fee * n * mint_supply
    BY DEF Updates
  <2> QED BY <2>2, <2>3, <2>4
<1>2. Inv /\ [UnslashedNext]_vars => [A]_vars
  BY <1>1
<1>3. TheTreasuryTakesItsShare <=> [][A]_vars
  BY PTL DEF TheTreasuryTakesItsShare
<1> HIDE DEF A
<1> QED BY <1>2, <1>3, CoveredAlways, PTL DEF UnslashedSpec

---------------------------------------------------------------------------
(* What an instant unstake costs                                           *)

\* A larger fee takes no less, as long as what it is taken of is a u64.
LEMMA FeeIsMonotone ==
  ASSUME NEW bp1 \in Nat, NEW bp2 \in Nat, NEW lamports \in Nat,
         bp1 <= bp2, FeeCheck(bp2), lamports < U64
  PROVE  FeeApply(bp1, lamports) <= FeeApply(bp2, lamports)
<1> DEFINE q1 == (lamports * bp1) \div MAX_BASIS_POINTS
           q2 == (lamports * bp2) \div MAX_BASIS_POINTS
<1>1. /\ lamports * bp1 \in Nat /\ lamports * bp2 \in Nat
      /\ MAX_BASIS_POINTS \in Nat \ {0} /\ U64 \in Nat \ {0}
  BY ProductIsNat, CalcAssumption
<1>2. /\ lamports * bp1 <= lamports * bp2
      /\ lamports * bp2 <= lamports * MAX_BASIS_POINTS
  BY <1>1, TimesIsMonotone DEF FeeCheck
<1>3. q1 <= q2
  BY <1>1, <1>2, DivisionIsMonotone
<1>4. q2 <= lamports
  BY <1>1, <1>2, DivisionIsBounded
<1>5. q1 \in Nat /\ q2 \in Nat
  BY <1>1, DivisionRoundsDown
<1>6. FeeApply(bp1, lamports) = q1 % U64 /\ FeeApply(bp2, lamports) = q2 % U64
  BY DEF FeeApply
<1> HIDE DEF q1, q2
<1>7. q1 % U64 = q1 /\ q2 % U64 = q2
  BY <1>1, <1>3, <1>4, <1>5
<1> QED BY <1>3, <1>6, <1>7

\* More mSOL is worth no less.
LEMMA ValueIsMonotone ==
  ASSUME NEW m \in Nat, NEW n \in Nat, NEW value \in Nat, NEW supply \in Nat,
         m <= n
  PROVE  value_from_shares(m, value, supply)
           <= value_from_shares(n, value, supply)
<1>1. CASE supply = 0
  BY <1>1 DEF value_from_shares, proportional
<1>2. CASE supply > 0
  <2>1. m * value \in Nat /\ n * value \in Nat /\ m * value <= n * value
    BY ProductIsNat, TimesIsMonotone
  <2>2. (m * value) \div supply <= (n * value) \div supply
    BY <1>2, <2>1, DivisionIsMonotone
  <2> QED BY <1>2, <2>2 DEF value_from_shares, proportional
<1> QED BY <1>1, <1>2

\* Wherever the liquidity ends, the fee is at least the minimum.
LEMMA LiquidUnstakeFeeIsEnough ==
  ASSUME IInv, NEW m \in Nat
  PROVE  config.lp_min_fee <= liquid_unstake_fee(m)
<1>1. /\ config.lp_max_fee \in Nat /\ config.lp_min_fee \in Nat
      /\ config.lp_liquidity_target \in Nat
      /\ config.lp_min_fee <= config.lp_max_fee
  BY ConfigTypes DEF IInv, ConfigWithinLimits, ValidLiqPool
<1>2. CASE msol_to_sol(m) >= sol_leg_available
  BY <1>1, <1>2 DEF liquid_unstake_fee
<1>3. CASE ~ (msol_to_sol(m) >= sol_leg_available)
  <2> DEFINE rest == sol_leg_available - msol_to_sol(m)
  <2>1. rest \in Nat
    BY <1>3, SolLegTypes, PriceTypes
  <2>2. liquid_unstake_fee(m) =
          linear_fee(rest, config.lp_liquidity_target, config.lp_max_fee,
                     config.lp_min_fee)
    BY <1>3 DEF liquid_unstake_fee
  <2> HIDE DEF rest
  <2>3. config.lp_min_fee <=
          linear_fee(rest, config.lp_liquidity_target, config.lp_max_fee,
                     config.lp_min_fee)
    BY <1>1, <2>1, LinearFeeIsBetween
  <2> QED BY <2>2, <2>3
<1> QED BY <1>2, <1>3

\* Only liquid_unstake takes mSOL from its holder and lamports from the pool.
LEMMA WhoIsPaidByThePool ==
  ASSUME IInv, [Next]_vars,
         sol_leg_pda' < sol_leg_pda, user_msol' < user_msol
  PROVE  \E m \in Lamports : LiquidUnstake(m)
<1> SUFFICES ASSUME ~ \E m \in Lamports : LiquidUnstake(m) PROVE FALSE
  OBVIOUS
<1>0. /\ Lamports \subseteq Nat
      /\ sol_leg_pda \in Nat /\ user_msol \in Nat
  BY ConstantTypes, BalanceTypes DEF IInv, TypeOK, PoolTypes
<1>1. /\ ~ UNCHANGED sol_leg_pda /\ ~ UNCHANGED poolVars
      /\ ~ UNCHANGED user_msol /\ ~ UNCHANGED mintVars
  BY <1>0 DEF poolVars, mintVars
<1>2. ASSUME NEW l \in Nat, Deposit(l)
      PROVE  FALSE
  <2>1. user_msol' = user_msol + calc_msol_from_lamports(l)
    BY <1>2 DEF Deposit
  <2>2. calc_msol_from_lamports(l) \in Nat
    BY PriceTypes
  <2> QED BY <1>0, <2>1, <2>2
<1>3. ~ UsersNext
  BY <1>0, <1>1, <1>2
     DEF UsersNext, StakeAccountsNext, DepositStakeAccount, OrderUnstake,
         Claim, WithdrawStakeAccount
<1>4. ASSUME NEW n \in Nat, RemoveLiquidity(n)
      PROVE  FALSE
  <2>1. user_msol' = user_msol + msol_out_amount(n)
    BY <1>4 DEF RemoveLiquidity
  <2>2. msol_out_amount(n) \in Nat
    BY ProportionalIsNat
       DEF msol_out_amount, lp_supply_used, lp_mint_supply, Lesser,
           IInv, TypeOK, PoolTypes
  <2> QED BY <1>0, <2>1, <2>2
<1>5. ~ LiquidityPoolNext
  BY <1>0, <1>1, <1>4 DEF LiquidityPoolNext, AddLiquidity
<1>6. ~ CrankNext
  BY <1>1 DEF CrankNext, UpdateActive, UpdateDeactivated, StakeReserve,
     StakeReserveReturnsEarly, DeactivateWholeStake, DeactivateSplitStake,
     StartDelayedUnstake, MergeStakes
<1>7. ASSUME NEW v, NEW w, NEW n, MoveStake(v, w, n) PROVE FALSE
  BY <1>1, <1>7 DEF MoveStake
<1>8. ASSUME NEW v, NEW n, StartEmergencyUnstake(v, n) PROVE FALSE
  BY <1>1, <1>8 DEF StartEmergencyUnstake
<1>9. ~ RedelegateNext
  <2>1. ASSUME NEW a, NEW dst, NEW c, RedelegateWholeStake(a, dst, c)
        PROVE  FALSE
    BY <1>7, <2>1 DEF RedelegateWholeStake
  <2>2. ASSUME NEW a, NEW dst, NEW b, NEW c, RedelegateSplitStake(a, dst, b, c)
        PROVE  FALSE
    BY <1>7, <2>2 DEF RedelegateSplitStake
  <2> QED BY <2>1, <2>2 DEF RedelegateNext
<1>10. ~ UnstakeNext
  <2>1. ASSUME NEW a, EmergencyUnstake(a) PROVE FALSE
    BY <1>8, <2>1 DEF EmergencyUnstake
  <2>2. ASSUME NEW a, NEW l, PartialUnstakeWhole(a, l) PROVE FALSE
    BY <1>8, <2>2 DEF PartialUnstakeWhole
  <2>3. ASSUME NEW a, NEW b, NEW l, PartialUnstakeSplit(a, b, l) PROVE FALSE
    BY <1>8, <2>3 DEF PartialUnstakeSplit
  <2> QED BY <2>1, <2>2, <2>3 DEF UnstakeNext
<1>11. ~ ValidatorsNext
  BY <1>1 DEF ValidatorsNext, AddValidator, RemoveValidator,
     SetValidatorScore, ConfigValidatorSystem
<1>12. ~ AdminNext
  BY <1>1 DEF AdminNext, Pause, Resume, ConfigMarinade, ConfigLp,
     ChangeAuthority, ReallocStakeList, ReallocValidatorList, Books
<1>13. ~ ClockNext /\ ~ StakersNext /\ ~ SlashNext /\ ~ UnbookedNext
  BY <1>1 DEF ClockNext, Tick, NextEpoch, StakersNext, UserStakes,
     PayStakeAccount, SlashNext, Slash, UnbookedNext, PayReserve, BurnMsol,
     BurnLp
<1>14. ~ UNCHANGED vars
  BY <1>1 DEF vars
<1> QED BY <1>3, <1>5, <1>6, <1>9, <1>10, <1>11, <1>12, <1>13, <1>14
        DEF Next, UnslashedNext, ProgramNext

\* What the pool pays for mSOL
LEMMA InstantUnstakePaysLess ==
  ASSUME IInv, NEW m \in Lamports, LiquidUnstake(m)
  PROVE  /\ m = user_msol - user_msol'
         /\ sol_leg_pda - sol_leg_pda'
              <= msol_to_sol(m - FeeApply(config.lp_min_fee, m))
<1> DEFINE fee == liquid_unstake_msol_fee(m)
           least == FeeApply(config.lp_min_fee, m)
           paid == working_lamports_value(m)
<1>1. m \in Nat /\ m < U64
  BY ConstantTypes, StateAssumption, CalcAssumption
<1>2. /\ config.lp_min_fee \in Nat /\ liquid_unstake_fee(m) \in Nat
      /\ config.lp_min_fee <= liquid_unstake_fee(m)
      /\ FeeCheck(liquid_unstake_fee(m))
  BY <1>1, ConfigTypes, LiquidUnstakeFeeTypes, LiquidUnstakeFeeIsEnough
<1>3. least <= fee
  BY <1>1, <1>2, FeeIsMonotone DEF liquid_unstake_msol_fee
<1>4. fee \in Nat /\ least \in Nat /\ fee <= m
  BY <1>1, <1>2, FeeIsBounded DEF liquid_unstake_msol_fee
<1>5. paid = msol_to_sol(m - fee)
  BY DEF working_lamports_value
<1>6. /\ sol_leg_pda' = sol_leg_pda - paid
      /\ user_msol' = user_msol - m
  BY DEF LiquidUnstake
<1> HIDE DEF fee, least, paid
<1>7. m - fee \in Nat /\ m - least \in Nat /\ m - fee <= m - least
  BY <1>1, <1>3, <1>4
<1>8. msol_to_sol(m - fee) <= msol_to_sol(m - least)
  BY <1>7, StateTypes, HoldingTypes, ValueIsMonotone DEF msol_to_sol
<1>9. paid \in Nat /\ sol_leg_pda \in Nat /\ user_msol \in Nat
  BY <1>5, <1>7, PriceTypes, BalanceTypes DEF IInv, TypeOK, PoolTypes
<1>10. m = user_msol - user_msol' /\ sol_leg_pda - sol_leg_pda' = paid
  BY <1>1, <1>6, <1>9
<1> QED BY <1>5, <1>8, <1>10 DEF least

\* liquid_unstake.rs never pays more than a delayed unstake is worth less the
\* minimum fee: the linear fee is taken at the liquidity that is left, so it
\* can only be larger, and no fee on a u64 loses its high bits.
THEOREM InstantUnstakeCostsTheFee == Spec => UnstakeNowCostsTheFee
<1> DEFINE msol_amount == user_msol - user_msol'
           A == sol_leg_pda' < sol_leg_pda /\ user_msol' < user_msol =>
                  sol_leg_pda - sol_leg_pda'
                    <= msol_to_sol(msol_amount
                         - FeeApply(config.lp_min_fee, msol_amount))
<1>1. IInv /\ [Next]_vars => A
  BY WhoIsPaidByThePool, InstantUnstakePaysLess
<1>2. IInv /\ [Next]_vars => [A]_vars
  BY <1>1
<1>3. UnstakeNowCostsTheFee <=> [][A]_vars
  BY PTL DEF UnstakeNowCostsTheFee
<1> HIDE DEF A
<1> QED BY <1>2, <1>3, Invariance, PTL DEF Spec

---------------------------------------------------------------------------
(* The price of an LP token                                                *)

\* At a price that is no lower, mSOL is worth no less.
LEMMA ValueAtABetterPrice ==
  ASSUME NEW m \in Nat, NEW V \in Nat, NEW S \in Nat, NEW W \in Nat,
         NEW T \in Nat, S > 0, m <= T, V * T <= W * S
  PROVE  value_from_shares(m, V, S) <= value_from_shares(m, W, T)
<1> DEFINE q == value_from_shares(m, V, S)
<1>1. q \in Nat /\ q * S <= m * V
  BY ValueIsAPart, ProportionalIsNat
<1>2. CASE m = 0
  <2>1. m * V = 0 /\ (0 * V) \div S = 0
    BY <1>2
  <2>2. q = 0
    BY <1>2, <2>1 DEF value_from_shares, proportional
  <2> QED BY <2>2, ProportionalIsNat
<1>3. CASE m > 0
  <2> HIDE DEF q
  <2>1. T \in Nat \ {0}
    BY <1>3
  <2>2. /\ q * S \in Nat /\ m * V \in Nat /\ V * T \in Nat /\ W * S \in Nat
        /\ q * T \in Nat /\ m * W \in Nat
    BY <1>1, ProductIsNat
  <2>3. (q * S) * T <= (m * V) * T
    BY <1>1, <2>2, TimesIsMonotone
  <2>4. m * (V * T) <= m * (W * S)
    BY <2>2, TimesIsMonotone
  <2>5. /\ (q * S) * T = (q * T) * S /\ (m * V) * T = m * (V * T)
        /\ m * (W * S) = (m * W) * S
    BY <1>1, ThreeTimes
  <2>6. /\ (q * T) * S \in Nat /\ (m * W) * S \in Nat /\ m * (V * T) \in Nat
    BY <2>2, ProductIsNat
  <2>7. (q * T) * S <= (m * W) * S
    BY ONLY <2>3, <2>4, <2>5, <2>6
  <2>8. q * T <= m * W
    BY <2>2, <2>7, FactorCancels
  <2>9. q <= (m * W) \div T
    BY <1>1, <2>1, <2>2, <2>8, DivisionIsGreatest
  <2> QED BY <2>1, <2>9 DEF q, value_from_shares, proportional
<1> QED BY <1>2, <1>3

\* Two amounts of mSOL are worth no less together.
LEMMA ValueOfTwo ==
  ASSUME NEW m \in Nat, NEW n \in Nat, NEW V \in Nat, NEW S \in Nat
  PROVE  value_from_shares(m, V, S) + value_from_shares(n, V, S)
           <= value_from_shares(m + n, V, S)
<1> DEFINE p == value_from_shares(m, V, S)
           q == value_from_shares(n, V, S)
<1>1. CASE S = 0
  BY <1>1 DEF value_from_shares, proportional
<1>2. CASE S > 0
  <2>1. /\ p \in Nat /\ q \in Nat /\ p * S <= m * V /\ q * S <= n * V
        /\ S \in Nat \ {0} /\ m + n \in Nat
    <3>1. p \in Nat /\ q \in Nat
      BY ProportionalIsNat
    <3>2. p * S <= m * V
      BY <1>2, ValueIsAPart
    <3>3. q * S <= n * V
      BY <1>2, ValueIsAPart
    <3> HIDE DEF p, q
    <3> QED BY <1>2, <3>1, <3>2, <3>3
  <2> HIDE DEF p, q
  <2>2. (p + q) * S = p * S + q * S /\ (m + n) * V = m * V + n * V
    BY <2>1, TimesDistributes
  <2>3. /\ p * S \in Nat /\ q * S \in Nat /\ m * V \in Nat /\ n * V \in Nat
        /\ p + q \in Nat /\ (m + n) * V \in Nat
    BY <2>1, ProductIsNat
  <2>4. (p + q) * S <= (m + n) * V
    BY ONLY <2>1, <2>2, <2>3
  <2>5. p + q <= ((m + n) * V) \div S
    BY <2>1, <2>3, <2>4, DivisionIsGreatest
  <2> QED BY <1>2, <2>5 DEF p, q, value_from_shares, proportional
<1> QED BY <1>1, <1>2

\* A price that falls by less than the value takes less than a unit's worth
\* and a lamport from whoever holds no more than there is.
LEMMA ValueAtALittleWorsePrice ==
  ASSUME NEW m \in Nat, NEW V \in Nat, NEW S \in Nat, NEW W \in Nat,
         NEW T \in Nat, S > 0, m <= T, V * T - W * S < V
  PROVE  value_from_shares(m, V, S) - value_from_shares(m, W, T)
           <= value_from_shares(1, V, S) + 1
<1> DEFINE q == value_from_shares(m, V, S)
           r == value_from_shares(m, W, T)
           u == value_from_shares(1, V, S)
<1>1. /\ q \in Nat /\ r \in Nat /\ u \in Nat /\ q * S <= m * V
  BY ValueIsAPart, ProportionalIsNat
<1>2. CASE m = 0
  <2>1. m * V = 0 /\ (0 * V) \div S = 0
    BY <1>2
  <2>2. q = 0
    BY <1>2, <2>1 DEF value_from_shares, proportional
  <2> QED BY <1>1, <2>2
<1>3. CASE m > 0
  <2>1. /\ T \in Nat \ {0} /\ S \in Nat \ {0} /\ V \in Int /\ 1 * V = V
        /\ m * V \in Nat /\ m * W \in Nat
    BY <1>3, ProductIsNat
  <2>2. m * W < (r + 1) * T
    BY <2>1, DivisionRoundsDown DEF value_from_shares, proportional
  <2>3. V < (u + 1) * S
    BY <2>1, DivisionRoundsDown DEF value_from_shares, proportional
  <2> HIDE DEF q, r, u
  <2> DEFINE d == V * T - W * S
             k == S * T
  <2>4. /\ k \in Nat /\ k > 0 /\ q * S \in Nat /\ V * T \in Nat
        /\ W * S \in Nat /\ d \in Int
    BY <1>1, <2>1, ProductIsNat, FactorCancels
  <2>5. (q * S) * T <= (m * V) * T
    BY <1>1, <2>1, <2>4, TimesIsMonotone
  <2>6. (m * V) * T = m * d + (m * W) * S
    <3>1. m * (V * T) = m * (d + W * S) /\ W * S \in Int
      BY <2>4
    <3>2. m * (d + W * S) = m * d + m * (W * S)
      BY <2>4, TimesDistributes
    <3>3. (m * V) * T = m * (V * T) /\ m * (W * S) = (m * W) * S
      BY ThreeTimes
    <3> QED BY ONLY <3>1, <3>2, <3>3
  <2>7. m * d <= V * T
    <3>1. CASE d <= 0
      <4>1. m * d <= 0
        BY <2>4, <3>1
      <4> QED BY ONLY <4>1, <2>4, m * d \in Int
    <3>2. CASE d > 0
      <4>1. d \in Nat /\ d <= V
        BY <2>4, <3>2
      <4>2. m * d <= m * V /\ m * V <= T * V /\ T * V = V * T
        BY <4>1, TimesIsMonotone, ThreeTimes
      <4>3. m * d \in Nat
        BY <4>1, ProductIsNat
      <4> QED BY ONLY <2>1, <2>4, <4>2, <4>3
    <3> QED BY <2>4, <3>1, <3>2
  <2>8. V * T <= ((u + 1) * S) * T
    <3>1. (u + 1) * S \in Nat
      BY <1>1, ProductIsNat
    <3> QED BY <2>3, <3>1, TimesIsMonotone
  <2>9. (m * W) * S < ((r + 1) * T) * S
    BY <1>1, <2>1, <2>2, ProductIsNat, FactorCancels
  <2>10. /\ (q * S) * T = q * k
         /\ ((u + 1) * S) * T = (u + 1) * k
         /\ ((r + 1) * T) * S = (r + 1) * k
    <3>1. u + 1 \in Int /\ r + 1 \in Int /\ q \in Int
      BY <1>1
    <3> QED BY <3>1, ThreeTimes
  <2>11. /\ q * k \in Nat /\ (u + 1) * k \in Nat /\ (r + 1) * k \in Nat
         /\ (m * W) * S \in Nat /\ m * d \in Int
         /\ (u + 1) * k + (r + 1) * k = (u + r + 2) * k
    <3>1. u + 1 \in Nat /\ r + 1 \in Nat /\ u + 1 + (r + 1) = u + r + 2
      BY <1>1
    <3>2. (u + 1 + (r + 1)) * k = (u + 1) * k + (r + 1) * k
      BY <2>4, <3>1, TimesDistributes
    <3> QED BY <1>1, <2>1, <2>4, <3>1, <3>2, ProductIsNat
  <2>12. q * k < (u + r + 2) * k
    BY ONLY <2>4, <2>5, <2>6, <2>7, <2>8, <2>9, <2>10, <2>11
  <2>13. q < u + r + 2
    <3> SUFFICES ASSUME u + r + 2 <= q PROVE FALSE
      BY <1>1
    <3>1. u + r + 2 \in Nat
      BY <1>1
    <3>2. (u + r + 2) * k <= q * k
      BY <1>1, <2>4, <3>1, TimesIsMonotone
    <3> HIDE DEF k
    <3> QED BY <2>11, <2>12, <3>2
  <2>14. q - r <= u + 1
    BY <1>1, <2>13
  <2> QED BY <2>14 DEF q, r, u
<1> QED BY <1>2, <1>3

PoolTyped ==
  /\ sol_leg_available \in Nat /\ total_liq_pool_value \in Nat
  /\ msol_leg \in Nat /\ mint_supply \in Nat
  /\ msol_leg <= mint_supply /\ mint_supply <= msol_supply
  /\ sol_leg_pda \in Nat /\ user_lp \in Nat
  /\ msol_supply \in Nat /\ total_virtual_staked_lamports \in Nat

LEMMA PoolIsTyped == IInv => PoolTyped
<1> SUFFICES ASSUME IInv PROVE PoolTyped
  OBVIOUS
<1>1. sol_leg_pda \in Nat
  BY DEF IInv, TypeOK, PoolTypes
<1> QED BY <1>1, SolLegTypes, BalanceTypes, HoldingTypes, StateTypes
        DEF PoolTyped

LEMMA PoolIsTypedNext == IInv' => PoolTyped'
BY PoolIsTyped, PTL

PoolLoss ==
  total_liq_pool_value * user_lp' - total_liq_pool_value' * user_lp

LpLosesARounding ==
  \/ PoolLoss <= 0
  \/ /\ msol_leg' < msol_leg /\ user_lp' < user_lp
     /\ PoolLoss < user_lp
  \/ /\ price_loss > 0 /\ UNCHANGED poolVars
     /\ total_liq_pool_value - total_liq_pool_value' <= msol_to_sol(1) + 1

\* A pool of no less value with no more tokens
LEMMA ValueKeepsThePrice ==
  ASSUME PoolTyped, PoolTyped', user_lp' <= user_lp,
         total_liq_pool_value <= total_liq_pool_value'
  PROVE  LpLosesARounding
<1>1. PICK W \in Nat, X \in Nat, u \in Nat, v \in Nat :
        /\ W = total_liq_pool_value /\ X = total_liq_pool_value'
        /\ u = user_lp /\ v = user_lp'
  BY DEF PoolTyped
<1>2. W <= X /\ v <= u
  BY <1>1
<1>3. W * v <= X * u
  <2>1. W * v <= X * v /\ X * v <= X * u
    BY <1>2, TimesIsMonotone
  <2>2. W * v \in Int /\ X * v \in Int /\ X * u \in Int
    BY ThreeTimes
  <2> QED BY ONLY <2>1, <2>2
<1>4. W * v - X * u <= 0
  <2>1. W * v \in Int /\ X * u \in Int
    BY ThreeTimes
  <2> QED BY ONLY <1>3, <2>1
<1> QED BY <1>1, <1>4 DEF LpLosesARounding, PoolLoss

\* What the pool keeps of its mSOL is worth no less after a step that does not
\* lower the price.
LEMMA LegKeepsItsValue ==
  ASSUME PoolTyped, PoolTyped', NEW m \in Nat, m <= msol_leg, m <= msol_leg',
         mint_supply > 0 => price_loss <= 0
  PROVE  /\ msol_to_sol(m) \in Nat /\ msol_to_sol(m)' \in Nat
         /\ msol_to_sol(m) <= msol_to_sol(m)'
<1>1. PICK V \in Nat, S \in Nat, W \in Nat, T \in Nat :
        /\ V = total_virtual_staked_lamports /\ S = msol_supply
        /\ W = total_virtual_staked_lamports' /\ T = msol_supply'
  BY DEF PoolTyped
<1>2. /\ msol_to_sol(m) = value_from_shares(m, V, S)
      /\ msol_to_sol(m)' = value_from_shares(m, W, T)
  BY <1>1 DEF msol_to_sol
<1>3. /\ value_from_shares(m, V, S) \in Nat
      /\ value_from_shares(m, W, T) \in Nat
  BY ProportionalIsNat
<1>4. CASE m = 0
  <2>1. 0 <= S /\ value_from_shares(m, V, S) <= 0
    <3>1. CASE S = 0
      BY <1>4, <3>1 DEF value_from_shares, proportional
    <3>2. CASE S > 0
      <4>1. m * V = 0 /\ (0 * V) \div S = 0
        BY <1>4, <3>2
      <4> QED BY <1>4, <3>2, <4>1 DEF value_from_shares, proportional
    <3> QED BY <3>1, <3>2
  <2> QED BY <1>2, <1>3, <2>1
<1>5. CASE m > 0
  <2>1. /\ mint_supply > 0 /\ S > 0 /\ m <= T
    <3>1. /\ mint_supply \in Nat /\ msol_leg \in Nat
          /\ msol_leg <= mint_supply /\ msol_leg <= S
      BY <1>1 DEF PoolTyped
    <3>2. msol_leg' \in Nat /\ msol_leg' <= T
      BY <1>1 DEF PoolTyped
    <3> QED BY <1>5, <3>1, <3>2
  <2>2. V * T - W * S <= 0
    BY <1>1, <2>1 DEF price_loss
  <2>3. V * T <= W * S
    <3>1. V * T \in Int /\ W * S \in Int
      BY ThreeTimes
    <3> QED BY ONLY <2>2, <3>1
  <2>4. value_from_shares(m, V, S) <= value_from_shares(m, W, T)
    BY <2>1, <2>3, ValueAtABetterPrice
  <2> QED BY <1>2, <1>3, <2>4
<1> QED BY <1>4, <1>5

LEMMA AddLiquidityKeepsThePrice ==
  ASSUME PoolTyped, PoolTyped', user_lp > 0, NEW l \in Nat, AddLiquidity(l)
  PROVE  LpLosesARounding
<1>1. PICK W \in Nat, u \in Nat : W = total_liq_pool_value /\ u = user_lp
  BY DEF PoolTyped
<1> DEFINE sh == shares_from_value(l, W, u)
<1>2. sh \in Nat /\ u > 0
  BY <1>1, ProportionalIsNat
<1>3. sh * W <= l * u
  BY <1>2, SharesAreWorthLess
<1>4. user_lp' = u + sh
  BY <1>1 DEF AddLiquidity, lp_shares, lp_mint_supply
<1>5. total_liq_pool_value' = W + l
  <2>1. /\ sol_leg_pda' = sol_leg_pda + l
        /\ UNCHANGED <<total_virtual_staked_lamports, msol_supply, msol_leg>>
    BY DEF AddLiquidity, total_virtual_staked_lamports,
           total_lamports_under_control, total_cooling_down, reserveVars,
           ticketVars, coolingVars, validatorVars, mintVars
  <2>2. msol_to_sol(msol_leg)' = msol_to_sol(msol_leg)
    BY <2>1 DEF msol_to_sol
  <2>3. sol_leg_available' = sol_leg_available + l
    BY <2>1, ConstantTypes DEF sol_leg_available, PoolTyped
  <2>4. msol_to_sol(msol_leg) \in Int
    BY ProportionalIsNat DEF msol_to_sol, PoolTyped
  <2> QED BY <1>1, <2>2, <2>3, <2>4 DEF total_liq_pool_value, PoolTyped
<1> HIDE DEF sh
<1>6. W * (u + sh) - (W + l) * u <= 0
  <2>1. /\ W * (u + sh) = W * u + W * sh /\ (W + l) * u = W * u + l * u
        /\ W * sh = sh * W
    BY <1>2, TimesDistributes, ThreeTimes
  <2>2. W * u \in Int /\ W * sh \in Int /\ l * u \in Int
    BY <1>2, ThreeTimes
  <2> QED BY ONLY <1>3, <2>1, <2>2
<1> QED BY <1>1, <1>4, <1>5, <1>6 DEF LpLosesARounding, PoolLoss

\* The rounding of what is paid out in mSOL
LEMMA ShareOfTheLeg ==
  ASSUME NEW u \in Nat, NEW t \in Nat, NEW G \in Nat, NEW o \in Nat,
         NEW V \in Nat, NEW S \in Nat,
         S > 0, u > 0, t <= u, o <= G, o * u <= t * G
  PROVE  value_from_shares(G, V, S) * (u - t)
           < (value_from_shares(G - o, V, S) + 1) * u
<1> DEFINE q == value_from_shares(G, V, S)
           r == value_from_shares(G - o, V, S)
<1>1. /\ G - o \in Nat /\ u - t \in Nat /\ S \in Nat \ {0}
      /\ u \in Nat \ {0}
  OBVIOUS
<1>2. q \in Nat /\ q * S <= G * V
  BY ValueIsAPart, ProportionalIsNat
<1>3. r \in Nat /\ (G - o) * V < (r + 1) * S
  <2>1. r \in Nat
    BY <1>1, ProportionalIsNat
  <2>2. (G - o) * V \in Nat
    BY <1>1, ProductIsNat
  <2>3. r = ((G - o) * V) \div S
    BY <1>1 DEF value_from_shares, proportional
  <2> QED BY <1>1, <2>1, <2>2, <2>3, DivisionRoundsDown
<1> HIDE DEF q, r
<1> DEFINE k == u - t
           g == G - o
<1>4. k \in Nat /\ g \in Nat
  BY <1>1
<1>5. G * k <= g * u
  <2>1. G * k = G * u - G * t /\ g * u = G * u - o * u /\ G * t = t * G
    BY TimesDistributes, ThreeTimes
  <2>2. G * u \in Int /\ t * G \in Int /\ o * u \in Int
    BY ThreeTimes
  <2> QED BY ONLY <2>1, <2>2, o * u <= t * G
<1> HIDE DEF k, g
<1>6. (q * S) * k <= (G * V) * k
  BY <1>2, <1>4, ProductIsNat, TimesIsMonotone
<1>7. V * (G * k) <= V * (g * u)
  BY <1>4, <1>5, ProductIsNat, TimesIsMonotone
<1>8. (g * V) * u < ((r + 1) * S) * u
  <2>1. g * V \in Nat /\ (r + 1) * S \in Nat /\ g * V < (r + 1) * S
    BY <1>3, <1>4, ProductIsNat DEF g
  <2>2. ~ (((r + 1) * S) * u <= (g * V) * u)
    BY <1>1, <2>1, FactorCancels
  <2>3. ((r + 1) * S) * u \in Int /\ (g * V) * u \in Int
    BY <2>1, ThreeTimes
  <2> QED BY ONLY <2>2, <2>3
<1>9. /\ (q * S) * k = (q * k) * S /\ (G * V) * k = V * (G * k)
      /\ V * (g * u) = (g * V) * u /\ ((r + 1) * S) * u = ((r + 1) * u) * S
  <2>1. r + 1 \in Int
    BY <1>3
  <2>2. (G * V) * k = (V * G) * k /\ (V * g) * u = (g * V) * u
    BY <1>4, ThreeTimes
  <2>3. /\ (V * G) * k = V * (G * k) /\ (V * g) * u = V * (g * u)
    BY <1>4, ThreeTimes
  <2> QED BY <1>2, <1>4, <2>1, <2>2, <2>3, ThreeTimes
<1>10. /\ (q * k) * S \in Int /\ ((r + 1) * u) * S \in Int
       /\ V * (G * k) \in Int /\ V * (g * u) \in Int
  BY <1>2, <1>3, <1>4, ProductIsNat
<1>11. (q * k) * S < ((r + 1) * u) * S
  BY ONLY <1>6, <1>7, <1>8, <1>9, <1>10
<1>12. q * k < (r + 1) * u
  <2>1. q * k \in Nat /\ (r + 1) * u \in Nat
    BY <1>2, <1>3, <1>4, ProductIsNat
  <2>2. ~ ((r + 1) * u <= q * k)
    <3> SUFFICES ASSUME (r + 1) * u <= q * k PROVE FALSE
      OBVIOUS
    <3>1. ((r + 1) * u) * S <= (q * k) * S
      BY <2>1, TimesIsMonotone
    <3> QED BY ONLY <1>10, <1>11, <3>1
  <2> QED BY ONLY <2>1, <2>2
<1> QED BY <1>12 DEF q, r, k

LEMMA RemoveLiquidityKeepsThePrice ==
  ASSUME IInv, PoolTyped', user_lp > 0, NEW t \in Nat, RemoveLiquidity(t)
  PROVE  LpLosesARounding
<1>0. PoolTyped
  BY PoolIsTyped
<1>1. PICK A \in Nat, G \in Nat, V \in Nat, S \in Nat, u \in Nat :
        /\ A = sol_leg_available /\ G = msol_leg
        /\ V = total_virtual_staked_lamports /\ S = msol_supply
        /\ u = user_lp
  BY <1>0 DEF PoolTyped
<1> DEFINE so == proportional(t, A, u)
           mo == proportional(t, G, u)
           q == value_from_shares(G, V, S)
           r == value_from_shares(G - mo, V, S)
<1>2. lp_supply_used = u /\ u > 0 /\ u \in Nat \ {0}
  BY <1>1, BalanceTypes DEF lp_supply_used, lp_mint_supply, Lesser
<1>3. sol_out_amount(t) = so /\ msol_out_amount(t) = mo
  BY <1>1, <1>2 DEF sol_out_amount, msol_out_amount
<1>4. /\ so \in Nat /\ so * u <= t * A
      /\ mo \in Nat /\ mo * u <= t * G
  <2>1. t * A \in Nat /\ t * G \in Nat
    BY ProductIsNat
  <2>2. so = (t * A) \div u /\ mo = (t * G) \div u
    BY <1>2 DEF proportional
  <2> QED BY <1>2, <2>1, <2>2, DivisionRoundsDown
<1> HIDE DEF so, mo
<1>5. /\ t <= u /\ so <= A /\ mo <= G
      /\ sol_leg_pda' = sol_leg_pda - so
      /\ msol_leg' = G - mo
      /\ user_lp' = u - t
      /\ UNCHANGED <<total_virtual_staked_lamports, msol_supply>>
  BY <1>1, <1>2, <1>3
     DEF RemoveLiquidity, total_virtual_staked_lamports,
         total_lamports_under_control, total_cooling_down, reserveVars,
         ticketVars, coolingVars, validatorVars
<1>6. total_liq_pool_value = A + q
  BY <1>1 DEF total_liq_pool_value, msol_to_sol
<1>7. total_liq_pool_value' = A - so + r
  <2>1. sol_leg_available' = A - so
    BY <1>0, <1>1, <1>4, <1>5, ConstantTypes DEF sol_leg_available, PoolTyped
  <2>2. msol_to_sol(msol_leg)' = r
    BY <1>1, <1>5 DEF msol_to_sol
  <2> QED BY <2>1, <2>2 DEF total_liq_pool_value
<1>8. q \in Nat /\ r \in Nat
  <2>1. G - mo \in Nat
    BY <1>4, <1>5
  <2> QED BY <2>1, ProportionalIsNat
<1> DEFINE k == u - t
<1>9. k \in Nat
  BY <1>5
<1>10. A * k <= (A - so) * u
  <2>1. A * k = A * u - A * t /\ (A - so) * u = A * u - so * u
        /\ A * t = t * A
    BY <1>4, TimesDistributes, ThreeTimes
  <2>2. A * u \in Int /\ t * A \in Int /\ so * u \in Int
    BY <1>4, ThreeTimes
  <2> QED BY ONLY <1>4, <2>1, <2>2
<1> HIDE DEF q, r, k
<1>11. PoolLoss = (A * k + q * k) - ((A - so) * u + r * u)
  <2>1. PoolLoss = (A + q) * k - ((A - so) + r) * u
    BY <1>1, <1>5, <1>6, <1>7 DEF PoolLoss, k
  <2>2. (A + q) * k = A * k + q * k
    BY <1>8, <1>9, TimesDistributes
  <2>3. ((A - so) + r) * u = (A - so) * u + r * u
    <3>1. A - so \in Int /\ r \in Int /\ u \in Int
      BY <1>4, <1>8
    <3> QED BY <3>1, TimesDistributes
  <2> QED BY <2>1, <2>2, <2>3
<1>12. /\ A * k \in Int /\ q * k \in Int /\ (A - so) * u \in Int
       /\ r * u \in Int
  <2>1. A - so \in Int
    BY <1>4
  <2> QED BY <1>8, <1>9, <2>1, ThreeTimes
<1>13. CASE mo = 0
  <2>1. q = r
    BY <1>13 DEF q, r
  <2>2. q * k <= q * u
    BY <1>5, <1>8, <1>9, TimesIsMonotone DEF k
  <2>3. PoolLoss <= 0
    BY ONLY <1>10, <1>11, <1>12, <2>1, <2>2
  <2> QED BY <2>3 DEF LpLosesARounding
<1>14. CASE mo > 0
  <2>1. G > 0 /\ S > 0
    BY <1>0, <1>1, <1>5, <1>4, <1>14 DEF PoolTyped
  <2>2. q * k < (r + 1) * u
    BY <1>2, <1>4, <1>5, <2>1, ShareOfTheLeg DEF q, r, k
  <2>3. (r + 1) * u = r * u + u
    BY <1>8, TimesDistributes
  <2>4. PoolLoss < u
    BY ONLY <1>10, <1>11, <1>12, <2>2, <2>3, u \in Nat
  <2>5. t > 0
    <3> SUFFICES ASSUME t = 0 PROVE FALSE
      OBVIOUS
    <3>1. t * G = 0
      OBVIOUS
    <3>2. mo * u > 0
      BY <1>2, <1>4, <1>14, FactorCancels
    <3> QED BY <1>4, <3>1, <3>2
  <2>6. msol_leg' < msol_leg /\ user_lp' < user_lp
    BY <1>1, <1>4, <1>5, <1>14, <2>5
  <2> QED BY <1>1, <2>4, <2>6 DEF LpLosesARounding
<1> QED BY <1>4, <1>13, <1>14

LEMMA LiquidUnstakeKeepsThePrice ==
  ASSUME IInv, PoolTyped', NEW m \in Nat, LiquidUnstake(m)
  PROVE  LpLosesARounding
<1>0. PoolTyped
  BY PoolIsTyped
<1>1. PICK A \in Nat, G \in Nat, V \in Nat, S \in Nat :
        /\ A = sol_leg_available /\ G = msol_leg
        /\ V = total_virtual_staked_lamports /\ S = msol_supply
  BY <1>0 DEF PoolTyped
<1> DEFINE fee == liquid_unstake_msol_fee(m)
           cut == treasury_msol_cut(m)
<1>2. fee \in Nat /\ fee <= m
  BY LiquidUnstakeFeeTypes, FeeIsBounded DEF liquid_unstake_msol_fee
<1>3. cut \in Nat /\ cut <= fee
  <2>1. config.treasury_cut \in Nat /\ FeeCheck(config.treasury_cut)
    BY ConfigTypes DEF IInv, ConfigWithinLimits, ValidLiqPool
  <2> HIDE DEF fee
  <2>2. /\ FeeApply(config.treasury_cut, fee) \in Nat
        /\ FeeApply(config.treasury_cut, fee) <= fee
    BY <1>2, <2>1, FeeIsBounded
  <2> QED BY <1>2, <2>2 DEF treasury_msol_cut, fee
<1> DEFINE paid == value_from_shares(m - fee, V, S)
<1>4. /\ sol_leg_pda' = sol_leg_pda - paid
      /\ msol_leg' = G + m - cut
      /\ UNCHANGED <<total_virtual_staked_lamports, msol_supply, user_lp>>
  BY <1>1 DEF LiquidUnstake, working_lamports_value, msol_to_sol,
     total_virtual_staked_lamports, total_lamports_under_control,
     total_cooling_down, reserveVars, ticketVars, coolingVars, validatorVars
<1> HIDE DEF fee, cut
<1>5. m - fee \in Nat /\ G + m - cut \in Nat /\ G + (m - fee) \in Nat
      /\ G + (m - fee) <= G + m - cut
  BY <1>2, <1>3
<1> DEFINE q == value_from_shares(G, V, S)
           r == value_from_shares(G + m - cut, V, S)
<1>6. /\ paid \in Nat /\ q \in Nat /\ r \in Nat
      /\ value_from_shares(G + (m - fee), V, S) \in Nat
  BY <1>5, ProportionalIsNat
<1>7. q + paid <= value_from_shares(G + (m - fee), V, S)
  BY <1>5, ValueOfTwo
<1>8. value_from_shares(G + (m - fee), V, S) <= r
  BY <1>5, ValueIsMonotone
<1>9. total_liq_pool_value = A + q
  BY <1>1 DEF total_liq_pool_value, msol_to_sol
<1>10. total_liq_pool_value' = A - paid + r
  <2>1. msol_to_sol(msol_leg)' = r
    BY <1>1, <1>4 DEF msol_to_sol
  <2> HIDE DEF paid, r
  <2>2. sol_leg_available' = A - paid
    BY <1>0, <1>1, <1>4, <1>6, ConstantTypes
       DEF sol_leg_available, PoolTyped
  <2> QED BY <2>1, <2>2 DEF total_liq_pool_value
<1> HIDE DEF paid, q, r
<1>11. total_liq_pool_value <= total_liq_pool_value'
  BY <1>6, <1>7, <1>8, <1>9, <1>10
<1>12. user_lp' <= user_lp
  BY <1>0, <1>4 DEF PoolTyped
<1> QED BY <1>0, <1>11, <1>12, ValueKeepsThePrice

\* The part of a deposit that is swapped leaves the pool at the price before,
\* rounded up for the pool.
LEMMA DepositKeepsThePrice ==
  ASSUME IInv, PoolTyped', NEW l \in Nat, Deposit(l),
         mint_supply > 0 => price_loss <= 0
  PROVE  LpLosesARounding
<1>0. PoolTyped
  BY PoolIsTyped
<1>1. PICK A \in Nat, G \in Nat, V \in Nat, S \in Nat :
        /\ A = sol_leg_available /\ G = msol_leg
        /\ V = total_virtual_staked_lamports /\ S = msol_supply
  BY <1>0 DEF PoolTyped
<1> DEFINE order == calc_msol_from_lamports(l)
           s == msol_swapped(l)
           paid == sol_swapped(l)
           q == value_from_shares(G, V, S)
           r == value_from_shares(G - s, V, S)
<1>2. order \in Nat /\ order = shares_from_value(l, V, S)
  BY <1>1, ProportionalIsNat DEF calc_msol_from_lamports
<1>3. s = Lesser(order, G)
  BY <1>1 DEF msol_swapped
<1>4. paid = IF s = 0 THEN 0 ELSE IF s = order THEN l
             ELSE value_from_shares(s, V, S)
  BY <1>1 DEF sol_swapped, msol_to_sol
<1>5. /\ sol_leg_pda' = sol_leg_pda + paid /\ msol_leg' = G - s
      /\ user_lp' = user_lp
  BY <1>1 DEF Deposit
<1> HIDE DEF order, s, paid
<1>6. /\ s \in Nat /\ s <= G /\ G - s \in Nat
  BY <1>2, <1>3 DEF Lesser
<1>7. q \in Nat
  BY ProportionalIsNat
<1>8. r \in Nat
  BY <1>6, ProportionalIsNat
<1>9. paid \in Nat
  <2>1. value_from_shares(s, V, S) \in Nat
    BY <1>6, ProportionalIsNat
  <2> QED BY <1>4, <2>1
<1>10. q <= r + paid
  <2>1. CASE s = 0
    <3>1. q = r
      BY <2>1
    <3> QED BY <1>7, <1>8, <1>9, <3>1
  <2>2. CASE s # 0 /\ s # order
    <3>1. s = G /\ paid = value_from_shares(s, V, S)
      BY <1>2, <1>3, <1>4, <2>2 DEF Lesser
    <3> QED BY <1>7, <1>8, <3>1
  <2>3. CASE s # 0 /\ s = order
    <3>1. paid = l /\ S > 0 /\ S \in Nat \ {0} /\ V \in Nat
      BY <1>0, <1>1, <1>4, <1>6, <2>3 DEF PoolTyped
    <3>2. s * V <= l * S
      BY <1>2, <2>3, <3>1, SharesAreWorthLess
    <3>3. q * S <= G * V
      BY <3>1, ValueIsAPart
    <3> HIDE DEF q, r
    <3>4. CASE q <= l
      BY <1>7, <1>8, <3>1, <3>4
    <3>5. CASE q > l
      <4>1. q - l \in Nat
        BY <1>7, <3>5
      <4>2. (q - l) * S <= (G - s) * V
        <5>1. (q - l) * S = q * S - l * S /\ (G - s) * V = G * V - s * V
          BY <1>6, <1>7, TimesDistributes
        <5>2. /\ q * S \in Int /\ l * S \in Int /\ G * V \in Int
              /\ s * V \in Int
          BY <1>6, <1>7, ThreeTimes
        <5> QED BY ONLY <3>2, <3>3, <5>1, <5>2
      <4>3. (G - s) * V \in Nat
        BY <1>6, ProductIsNat
      <4>4. q - l <= ((G - s) * V) \div S
        BY <3>1, <4>1, <4>2, <4>3, DivisionIsGreatest
      <4>5. r = ((G - s) * V) \div S
        BY <3>1 DEF r, value_from_shares, proportional
      <4> QED BY <1>7, <1>8, <3>1, <4>4, <4>5
    <3> QED BY <1>7, <3>4, <3>5
  <2> QED BY <2>1, <2>2, <2>3
<1> PICK g \in Nat : g = G - s
  BY <1>6
<1>11. /\ msol_to_sol(g)' \in Nat
       /\ r <= msol_to_sol(g)'
  <2>1. g <= msol_leg /\ g <= msol_leg'
    BY <1>1, <1>5, <1>6
  <2>2. msol_to_sol(g) = r
    BY <1>1 DEF msol_to_sol
  <2> HIDE DEF r
  <2> QED BY <1>0, <2>1, <2>2, LegKeepsItsValue
<1>12. total_liq_pool_value = A + q
  BY <1>1 DEF total_liq_pool_value, msol_to_sol
<1>13. total_liq_pool_value' = A + paid + msol_to_sol(g)'
  <2>1. msol_to_sol(msol_leg)' = msol_to_sol(g)'
    BY <1>5 DEF msol_to_sol
  <2>2. sol_leg_available' = A + paid
    BY <1>0, <1>1, <1>5, <1>9, ConstantTypes DEF sol_leg_available, PoolTyped
  <2> QED BY <2>1, <2>2 DEF total_liq_pool_value
<1> HIDE DEF q, r
<1>14. PICK w \in Nat : w = msol_to_sol(g)'
  BY <1>11
<1>15. total_liq_pool_value <= total_liq_pool_value'
  BY <1>7, <1>8, <1>9, <1>10, <1>11, <1>12, <1>13, <1>14
<1>16. user_lp' <= user_lp
  BY <1>0, <1>5 DEF PoolTyped
<1> QED BY <1>0, <1>15, <1>16, ValueKeepsThePrice

\* Whatever happens around a pool that is left alone
LEMMA UntouchedPoolKeepsThePrice ==
  ASSUME PoolTyped, PoolTyped', UNCHANGED <<sol_leg_pda, msol_leg>>,
         user_lp' <= user_lp, mint_supply > 0 => LosesAtMostARounding,
         price_loss > 0 => UNCHANGED poolVars
  PROVE  LpLosesARounding
<1>1. PICK A \in Nat, G \in Nat, V \in Nat, S \in Nat, W \in Nat, T \in Nat :
        /\ A = sol_leg_available /\ G = msol_leg
        /\ V = total_virtual_staked_lamports /\ S = msol_supply
        /\ W = total_virtual_staked_lamports' /\ T = msol_supply'
  BY DEF PoolTyped
<1>2. /\ total_liq_pool_value = A + msol_to_sol(G)
      /\ total_liq_pool_value' = A + msol_to_sol(G)'
  <2>1. msol_to_sol(msol_leg)' = msol_to_sol(G)'
    BY <1>1 DEF msol_to_sol
  <2>2. sol_leg_available' = A
    BY <1>1 DEF sol_leg_available
  <2> QED BY <1>1, <2>1, <2>2 DEF total_liq_pool_value
<1>3. msol_to_sol(G) = value_from_shares(G, V, S)
        /\ msol_to_sol(G)' = value_from_shares(G, W, T)
        /\ msol_to_sol(1) = value_from_shares(1, V, S)
  BY <1>1 DEF msol_to_sol
<1>4. G <= msol_leg /\ G <= msol_leg' /\ G <= T
  BY <1>1 DEF PoolTyped
<1>5. /\ value_from_shares(G, V, S) \in Nat
      /\ value_from_shares(G, W, T) \in Nat
  BY ProportionalIsNat
<1>6. CASE mint_supply > 0 => price_loss <= 0
  <2>1. msol_to_sol(G) <= msol_to_sol(G)'
    BY <1>4, <1>6, LegKeepsItsValue
  <2>2. total_liq_pool_value <= total_liq_pool_value'
    BY <1>2, <1>3, <1>5, <2>1
  <2> QED BY <2>2, ValueKeepsThePrice
<1>7. CASE ~ (mint_supply > 0 => price_loss <= 0)
  <2>1. S > 0 /\ V * T - W * S < V
    <3>1. mint_supply > 0 /\ ~ (price_loss <= 0)
      BY <1>7
    <3>2. price_loss < V
      BY <1>1, <3>1 DEF LosesAtMostARounding
    <3>3. S > 0
      BY <1>1, <3>1 DEF PoolTyped
    <3> QED BY <1>1, <3>2, <3>3 DEF price_loss
  <2>2. value_from_shares(G, V, S) - value_from_shares(G, W, T)
          <= value_from_shares(1, V, S) + 1
    BY <1>4, <2>1, ValueAtALittleWorsePrice
  <2>3. total_liq_pool_value - total_liq_pool_value' <= msol_to_sol(1) + 1
    BY <1>2, <1>3, <1>5, <2>2
  <2>4. price_loss > 0
    <3>1. V * T \in Int /\ W * S \in Int
      BY ThreeTimes
    <3>2. price_loss \in Int
      BY <1>1, <3>1 DEF price_loss
    <3> QED BY <1>7, <3>2
  <2> QED BY <2>3, <2>4 DEF LpLosesARounding
<1> QED BY <1>6, <1>7

LEMMA WhoWritesThePool ==
  ASSUME [Next]_vars
  PROVE  \/ UNCHANGED poolVars
         \/ \E l \in Lamports : Deposit(l) \/ BurnLp(l)
         \/ LiquidityPoolNext
<1> SUFFICES ASSUME ~ UNCHANGED poolVars,
                    ~ \E l \in Lamports : Deposit(l) \/ BurnLp(l),
                    ~ LiquidityPoolNext
             PROVE  FALSE
  OBVIOUS
<1>1. ~ UsersNext
  BY DEF UsersNext, StakeAccountsNext, DepositStakeAccount, OrderUnstake,
         Claim, WithdrawStakeAccount
<1>2. ~ CrankNext
  BY DEF CrankNext, UpdateActive, UpdateDeactivated, StakeReserve,
     StakeReserveReturnsEarly, DeactivateWholeStake, DeactivateSplitStake,
     StartDelayedUnstake, MergeStakes
<1>3. ASSUME NEW v, NEW w, NEW n, MoveStake(v, w, n) PROVE FALSE
  BY <1>3 DEF MoveStake
<1>4. ASSUME NEW v, NEW n, StartEmergencyUnstake(v, n) PROVE FALSE
  BY <1>4 DEF StartEmergencyUnstake
<1>5. ~ RedelegateNext
  <2>1. ASSUME NEW a, NEW dst, NEW c, RedelegateWholeStake(a, dst, c)
        PROVE  FALSE
    BY <1>3, <2>1 DEF RedelegateWholeStake
  <2>2. ASSUME NEW a, NEW dst, NEW b, NEW c, RedelegateSplitStake(a, dst, b, c)
        PROVE  FALSE
    BY <1>3, <2>2 DEF RedelegateSplitStake
  <2> QED BY <2>1, <2>2 DEF RedelegateNext
<1>6. ~ UnstakeNext
  <2>1. ASSUME NEW a, EmergencyUnstake(a) PROVE FALSE
    BY <1>4, <2>1 DEF EmergencyUnstake
  <2>2. ASSUME NEW a, NEW l, PartialUnstakeWhole(a, l) PROVE FALSE
    BY <1>4, <2>2 DEF PartialUnstakeWhole
  <2>3. ASSUME NEW a, NEW b, NEW l, PartialUnstakeSplit(a, b, l) PROVE FALSE
    BY <1>4, <2>3 DEF PartialUnstakeSplit
  <2> QED BY <2>1, <2>2, <2>3 DEF UnstakeNext
<1>7. ~ ValidatorsNext
  BY DEF ValidatorsNext, AddValidator, RemoveValidator,
     SetValidatorScore, ConfigValidatorSystem
<1>8. ~ AdminNext
  BY DEF AdminNext, Pause, Resume, ConfigMarinade, ConfigLp,
     ChangeAuthority, ReallocStakeList, ReallocValidatorList, Books
<1>9. ~ ClockNext /\ ~ StakersNext /\ ~ SlashNext /\ ~ UnbookedNext
  BY DEF ClockNext, Tick, NextEpoch, StakersNext, UserStakes,
     PayStakeAccount, SlashNext, Slash, UnbookedNext, PayReserve, BurnMsol
<1>10. ~ UNCHANGED vars
  BY DEF vars, poolVars
<1> QED BY <1>1, <1>2, <1>5, <1>6, <1>7, <1>8, <1>9, <1>10
        DEF Next, UnslashedNext, ProgramNext

LEMMA NextKeepsTheLpPrice ==
  ASSUME IInv, IInv', Backed, TicketsAreCovered, [Next]_vars, user_lp > 0
  PROVE  LpLosesARounding
<1>1. PoolTyped /\ PoolTyped' /\ Lamports \subseteq Nat
  BY PoolIsTyped, PoolIsTypedNext, ConstantTypes
<1>2. mint_supply > 0 => LosesAtMostARounding
  BY NextKeepsThePrice
<1>3. CASE UNCHANGED poolVars
  <2>1. user_lp' <= user_lp /\ UNCHANGED <<sol_leg_pda, msol_leg>>
    BY <1>1, <1>3 DEF poolVars, PoolTyped
  <2> QED BY <1>1, <1>2, <1>3, <2>1, UntouchedPoolKeepsThePrice
<1>4. ASSUME NEW l \in Lamports, Deposit(l) PROVE LpLosesARounding
  <2>1. total_active_balance' = total_active_balance
          /\ total_active_balance \in Nat
    BY <1>4, HoldingTypes DEF Deposit, validatorVars
  <2>2. mint_supply > 0 => price_loss <= 0
    BY <1>2, <2>1 DEF LosesAtMostARounding
  <2> QED BY <1>1, <1>4, <2>2, DepositKeepsThePrice
<1>5. ASSUME NEW l \in Lamports, BurnLp(l) PROVE LpLosesARounding
  <2>1. user_lp' = user_lp - l /\ UNCHANGED <<sol_leg_pda, msol_leg>>
    BY <1>5 DEF BurnLp
  <2>2. UNCHANGED <<total_virtual_staked_lamports, msol_supply>>
    BY <1>5 DEF BurnLp, Nobody, total_virtual_staked_lamports,
       total_lamports_under_control, total_cooling_down, reserveVars,
       ticketVars, coolingVars, validatorVars, mintVars
  <2>3. ~ (price_loss > 0)
    <3>1. PICK V \in Nat, S \in Nat :
            V = total_virtual_staked_lamports /\ S = msol_supply
      BY <1>1 DEF PoolTyped
    <3>2. price_loss = V * S - V * S
      BY <2>2, <3>1 DEF price_loss
    <3>3. V * S \in Int
      BY ThreeTimes
    <3> QED BY <3>2, <3>3
  <2>4. user_lp' <= user_lp
    BY <1>1, <2>1 DEF PoolTyped
  <2> QED BY <1>1, <1>2, <2>1, <2>3, <2>4, UntouchedPoolKeepsThePrice
<1>6. CASE LiquidityPoolNext
  <2>1. ASSUME NEW l \in Nat, AddLiquidity(l) PROVE LpLosesARounding
    BY <1>1, <2>1, AddLiquidityKeepsThePrice
  <2>2. ASSUME NEW l \in Nat, RemoveLiquidity(l) PROVE LpLosesARounding
    BY <1>1, <2>2, RemoveLiquidityKeepsThePrice
  <2>3. ASSUME NEW m \in Nat, LiquidUnstake(m) PROVE LpLosesARounding
    BY <1>1, <2>3, LiquidUnstakeKeepsThePrice
  <2> QED BY <1>1, <1>6, <2>1, <2>2, <2>3 DEF LiquidityPoolNext
<1> QED BY <1>3, <1>4, <1>5, <1>6, WhoWritesThePool

\* No step of anybody costs those who provide liquidity more than the rounding
\* of the mSOL leg: swaps, instant unstakes, additions and removals pay for
\* theirs, and what a withdrawn stake account takes from the price of mSOL is
\* less than one unit's worth.
THEOREM PriceOfLpNeverFalls == UnslashedSpec => LpPriceNeverFalls
<1> DEFINE Inv == IInv /\ Backed /\ TicketsAreCovered
           A == user_lp > 0 /\ user_lp' > 0 =>
             LET loss == total_liq_pool_value * user_lp'
                           - total_liq_pool_value' * user_lp
             IN  \/ loss <= 0
                 \/ /\ msol_leg' < msol_leg /\ user_lp' < user_lp
                    /\ loss < user_lp
                 \/ /\ price_loss > 0 /\ UNCHANGED poolVars
                    /\ total_liq_pool_value - total_liq_pool_value'
                         <= msol_to_sol(1) + 1
<1>1. Inv /\ Inv' /\ [UnslashedNext]_vars => A
  BY NextKeepsTheLpPrice DEF LpLosesARounding, PoolLoss, Next
<1>2. Inv /\ Inv' /\ [UnslashedNext]_vars => [A]_vars
  BY <1>1
<1>3. LpPriceNeverFalls <=> [][A]_vars
  BY PTL DEF LpPriceNeverFalls
<1> HIDE DEF A
<1> QED BY <1>2, <1>3, CoveredAlways, PTL DEF UnslashedSpec
===========================================================================
