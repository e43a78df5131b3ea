-------------------------- MODULE CalcChecksProofs -------------------------
(***************************************************************************)
(* The properties of CalcChecks for all natural numbers: the bound of the  *)
(* walk is of no account.                                                  *)
(***************************************************************************)
EXTENDS CalcChecks, CalcProofs

CalcTypes == amount \in Nat /\ total_value \in Nat /\ total_shares \in Nat

LEMMA CalcTypesHold == CalcSpec => []CalcTypes
<1>1. CalcInit => CalcTypes
  BY DEF CalcInit, CalcTypes
<1>2. CalcTypes /\ [CalcNext]_calcVars => CalcTypes'
  BY DEF CalcTypes, CalcNext, NextAmount, NextValue, NextShares, calcVars
<1> QED BY <1>1, <1>2, PTL DEF CalcSpec

---------------------------------------------------------------------------
(* calc.rs                                                                 *)

\* calc.rs: a deposit of any size redeemed at once gains nothing, so that it
\* takes nothing from those who stay.
THEOREM RedeemingNeverGains == CalcSpec => []DepositAndRedeemGainsNothing
<1>1. CalcTypes => DepositAndRedeemGainsNothing
  <2> SUFFICES ASSUME NEW a \in Nat, NEW v \in Nat \ {0}, NEW s \in Nat \ {0}
               PROVE  LET q == shares_from_value(a, v, s)
                          back == value_from_shares(q, v + a, s + q)
                      IN  back <= a
    BY DEF CalcTypes, DepositAndRedeemGainsNothing
  <2> DEFINE q == (a * s) \div v
             back == (q * (v + a)) \div (s + q)
  <2>1. q \in Nat /\ q * v <= a * s
    BY ProductIsNat, DivisionRoundsDown
  <2> HIDE DEF q
  <2>2. q * (v + a) <= a * (s + q)
    <3>1. q * (v + a) = q * v + q * a /\ a * (s + q) = a * s + a * q
      BY <2>1
    <3>2. q * a = a * q /\ q * a \in Nat /\ q * v \in Nat /\ a * s \in Nat
      BY <2>1
    <3> QED BY <2>1, <3>1, <3>2
  <2>3. q * (v + a) \in Nat /\ s + q \in Nat \ {0}
    BY <2>1
  <2>4. back \in Nat /\ back <= a
    BY <2>2, <2>3, DivisionRoundsDown, DivisionIsBounded
  <2>5. shares_from_value(a, v, s) = q
    BY DEF q, shares_from_value, proportional
  <2>6. value_from_shares(q, v + a, s + q) = back
    BY <2>3 DEF value_from_shares, proportional
  <2> QED BY <2>4, <2>5, <2>6
<1> QED BY <1>1, CalcTypesHold, PTL

\* calc.rs: splitting a deposit yields no more shares.
THEOREM SplittingNeverGains == CalcSpec => []SplittingGainsNothing
<1>1. CalcTypes => SplittingGainsNothing
  <2> SUFFICES ASSUME NEW a \in Nat, NEW v \in Nat \ {0},
                      NEW s \in Nat \ {0}, NEW p \in 0 .. a
               PROVE  LET first == shares_from_value(p, v, s)
                          second == shares_from_value(a - p, v + p, s + first)
                      IN  first + second <= shares_from_value(a, v, s)
    BY DEF CalcTypes, SplittingGainsNothing
  <2> DEFINE r == a - p
             first == (p * s) \div v
             second == (r * (s + first)) \div (v + p)
  <2>1. r \in Nat /\ p \in Nat /\ r + p = a
    OBVIOUS
  <2> HIDE DEF r
  <2>2. first \in Nat /\ first * v <= p * s
    BY <2>1, ProductIsNat, DivisionRoundsDown
  <2> HIDE DEF first
  <2>3. second \in Nat /\ second * (v + p) <= r * (s + first)
    <3>1. s + first \in Nat /\ v + p \in Nat \ {0}
      BY <2>1, <2>2
    <3>2. r * (s + first) \in Nat
      BY <2>1, <3>1, ProductIsNat
    <3> QED BY <3>1, <3>2, DivisionRoundsDown
  <2> HIDE DEF second
  <2>4. (s + first) * v <= s * (v + p)
    <3>1. (s + first) * v = s * v + first * v /\ s * (v + p) = s * v + s * p
      BY <2>1, <2>2
    <3>2. s * p = p * s /\ p * s \in Nat /\ s * v \in Nat /\ first * v \in Nat
      BY <2>1, <2>2
    <3> QED BY <2>2, <3>1, <3>2
  <2>5. second * v <= r * s
    <3>1. (second * v) * (v + p) = (second * (v + p)) * v
      BY <2>1, <2>3
    <3>2. (second * (v + p)) * v <= (r * (s + first)) * v
      <4>1. second * (v + p) \in Nat /\ r * (s + first) \in Nat
        BY <2>1, <2>2, <2>3
      <4> QED BY <2>3, <4>1
    <3>3. (r * (s + first)) * v = r * ((s + first) * v)
      BY <2>1, <2>2
    <3>4. r * ((s + first) * v) <= r * (s * (v + p))
      <4>1. (s + first) * v \in Nat /\ s * (v + p) \in Nat
        BY <2>1, <2>2
      <4> QED BY <2>1, <2>4, <4>1
    <3>5. r * (s * (v + p)) = (r * s) * (v + p)
      BY <2>1
    <3>6. /\ second * v \in Nat /\ r * s \in Nat /\ v + p \in Nat \ {0}
          /\ (second * v) * (v + p) \in Nat /\ (r * s) * (v + p) \in Nat
          /\ (r * (s + first)) * v \in Nat
      BY <2>1, <2>2, <2>3
    <3>7. (second * v) * (v + p) <= (r * s) * (v + p)
      BY <3>1, <3>2, <3>3, <3>4, <3>5, <3>6
    <3> QED BY <3>6, <3>7, FactorCancels
  <2>6. (first + second) * v <= a * s
    <3>1. (first + second) * v = first * v + second * v
      BY <2>2, <2>3
    <3>2. a * s = p * s + r * s
      BY <2>1
    <3>3. first * v \in Nat /\ second * v \in Nat /\ p * s \in Nat
            /\ r * s \in Nat
      BY <2>1, <2>2, <2>3
    <3> QED BY <2>2, <2>5, <3>1, <3>2, <3>3
  <2>7. first + second <= (a * s) \div v
    <3>1. a * s \in Nat /\ first + second \in Nat
      BY <2>2, <2>3
    <3> QED BY <2>6, <3>1, DivisionIsGreatest
  <2>8. /\ shares_from_value(p, v, s) = first
        /\ shares_from_value(a, v, s) = (a * s) \div v
    BY DEF first, shares_from_value, proportional
  <2>9. shares_from_value(a - p, v + p, s + first) = second
    BY <2>1, <2>2 DEF second, r, shares_from_value, proportional
  <2> QED BY <2>7, <2>8, <2>9
<1> QED BY <1>1, CalcTypesHold, PTL

---------------------------------------------------------------------------
(* state/fee.rs, state/liq_pool.rs                                         *)

\* Fee::apply: a checked fee is no more than the amount and grows with the
\* basis points, for any amount that is a u64.
THEOREM FeesAreMonotone == CalcSpec => []CheckedFeesAreMonotone
<1>1. CalcTypes => CheckedFeesAreMonotone
  <2> SUFFICES ASSUME NEW x \in Nat, x < U64, NEW bp \in Nat,
                      bp <= MAX_BASIS_POINTS
               PROVE  /\ FeeApply(bp, x) <= x
                      /\ bp > 0 => FeeApply(bp - 1, x) <= FeeApply(bp, x)
    BY CalcAssumption DEF CalcTypes, CheckedFeesAreMonotone, Fits
  <2>1. FeeApply(bp, x) <= x
    BY FeeIsBounded DEF FeeCheck
  <2>2. ASSUME bp > 0 PROVE FeeApply(bp - 1, x) <= FeeApply(bp, x)
    <3> DEFINE M == MAX_BASIS_POINTS
               less == x * (bp - 1)
               more == x * bp
    <3>1. less \in Nat /\ more \in Nat /\ less <= more /\ more <= x * M
            /\ M \in Nat \ {0} /\ U64 \in Nat
      BY <2>2, CalcAssumption
    <3> HIDE DEF less, more, M
    <3>2. less \div M <= more \div M
      BY <3>1, DivisionIsMonotone
    <3>3. more \div M <= x
      BY <3>1, DivisionIsBounded
    <3>4. less \div M \in Nat /\ more \div M \in Nat
      BY <3>1, DivisionRoundsDown
    <3>5. (less \div M) % U64 = less \div M /\ (more \div M) % U64 = more \div M
      BY <3>1, <3>2, <3>3, <3>4
    <3> QED BY <3>2, <3>5 DEF FeeApply, less, more, M
  <2> QED BY <2>1, <2>2
<1> QED BY <1>1, CalcTypesHold, PTL

\* LiqPool::linear_fee lies between its ends and falls as liquidity grows.
THEOREM LinearFeeAlwaysFalls == CalcSpec => []LinearFeeFalls
<1>1. CalcTypes => LinearFeeFalls
  <2> SUFFICES ASSUME NEW x \in Nat, NEW T \in Nat \ {0},
                      NEW min_fee \in Nat, NEW max_fee \in Nat,
                      min_fee <= max_fee
               PROVE  LET fee == linear_fee(x, T, max_fee, min_fee)
                      IN  /\ min_fee <= fee /\ fee <= max_fee
                          /\ linear_fee(x + 1, T, max_fee, min_fee) <= fee
    BY CalcAssumption DEF CalcTypes, LinearFeeFalls
  <2>1. /\ min_fee <= linear_fee(x, T, max_fee, min_fee)
        /\ linear_fee(x, T, max_fee, min_fee) <= max_fee
    BY LinearFeeIsBetween
  <2>2. CASE x + 1 >= T
    BY <2>1, <2>2 DEF linear_fee
  <2>3. CASE x + 1 < T
    <3> DEFINE gap == delta(max_fee, min_fee)
    <3>1. gap \in Nat
      BY DEF delta, Monus
    <3> HIDE DEF gap
    <3>2. gap * x \in Nat /\ gap * (x + 1) \in Nat /\ gap * x <= gap * (x + 1)
      BY <3>1
    <3>3. (gap * x) \div T <= (gap * (x + 1)) \div T
      BY <3>2, DivisionIsMonotone
    <3>4. /\ (gap * x) \div T \in Nat
          /\ (gap * (x + 1)) \div T \in Nat
      BY <3>2, DivisionRoundsDown
    <3>5. /\ linear_fee(x, T, max_fee, min_fee) = max_fee - (gap * x) \div T
          /\ linear_fee(x + 1, T, max_fee, min_fee)
               = max_fee - (gap * (x + 1)) \div T
      BY <2>3 DEF linear_fee, proportional, gap
    <3> QED BY <2>1, <3>3, <3>4, <3>5
  <2> QED BY <2>1, <2>2, <2>3
<1> QED BY <1>1, CalcTypesHold, PTL
===========================================================================
