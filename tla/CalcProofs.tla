----------------------------- MODULE CalcProofs ----------------------------
(***************************************************************************)
(* Facts about the operators of Calc, for all amounts, fees and limits.    *)
(***************************************************************************)
EXTENDS Calc, TLAPS

\* Division by a positive number rounds down.
LEMMA DivisionRoundsDown ==
  ASSUME NEW a \in Nat, NEW d \in Nat \ {0}
  PROVE  /\ a \div d \in Nat
         /\ (a \div d) * d <= a
         /\ a < (a \div d + 1) * d
OBVIOUS

\* The least of the quotients that a bound allows
LEMMA DivisionIsBounded ==
  ASSUME NEW a \in Nat, NEW d \in Nat \ {0}, NEW b \in Nat, a <= b * d
  PROVE  a \div d <= b
<1> DEFINE q == a \div d
<1>1. q \in Nat /\ q * d <= a
  BY DivisionRoundsDown
<1> HIDE DEF q
<1>2. SUFFICES ASSUME q > b PROVE FALSE
  BY <1>1 DEF q
<1>3. q >= b + 1
  BY <1>1, <1>2
<1>4. q * d >= (b + 1) * d
  BY <1>1, <1>3
<1> QED BY <1>1, <1>4

\* The greatest of the numbers whose product a bound allows
LEMMA DivisionIsGreatest ==
  ASSUME NEW a \in Nat, NEW d \in Nat \ {0}, NEW b \in Nat, b * d <= a
  PROVE  b <= a \div d
<1> DEFINE q == a \div d
<1>1. q \in Nat /\ a < (q + 1) * d
  BY DivisionRoundsDown
<1> HIDE DEF q
<1>2. SUFFICES ASSUME b >= q + 1 PROVE FALSE
  BY <1>1 DEF q
<1>3. b * d >= (q + 1) * d
  BY <1>1, <1>2
<1>4. b * d \in Nat /\ (q + 1) * d \in Nat
  BY <1>1
<1> QED BY <1>1, <1>3, <1>4

LEMMA DivisionIsMonotone ==
  ASSUME NEW a \in Nat, NEW b \in Nat, NEW d \in Nat \ {0}, a <= b
  PROVE  a \div d <= b \div d
<1>1. a \div d \in Nat /\ (a \div d) * d <= a
  BY DivisionRoundsDown
<1> DEFINE q == a \div d
<1> HIDE DEF q
<1>2. q * d <= b
  <2>1. q * d \in Nat
    BY <1>1 DEF q
  <2> QED BY <1>1, <2>1 DEF q
<1>3. q <= b \div d
  BY <1>1, <1>2, DivisionIsGreatest DEF q
<1> QED BY <1>3 DEF q

\* A factor that is positive cancels.
LEMMA FactorCancels ==
  ASSUME NEW a \in Nat, NEW b \in Nat, NEW d \in Nat \ {0}, a * d <= b * d
  PROVE  a <= b
<1>1. SUFFICES ASSUME a >= b + 1 PROVE FALSE
  OBVIOUS
<1>2. a * d >= (b + 1) * d
  BY <1>1
<1>3. (b + 1) * d = b * d + d /\ b * d \in Nat /\ a * d \in Nat
  OBVIOUS
<1> QED BY <1>2, <1>3

\* A remainder is a natural number and not above what is divided.
LEMMA RemainderIsBounded ==
  ASSUME NEW a \in Nat, NEW d \in Nat \ {0}
  PROVE  a % d \in Nat /\ a % d <= a
OBVIOUS

LEMMA ProductIsNat ==
  ASSUME NEW a \in Nat, NEW b \in Nat
  PROVE  a * b \in Nat
OBVIOUS

\* Shares and values are natural numbers.
LEMMA ProportionalIsNat ==
  ASSUME NEW a \in Nat, NEW n \in Nat, NEW d \in Nat
  PROVE  /\ proportional(a, n, d) \in Nat
         /\ value_from_shares(a, n, d) \in Nat
         /\ shares_from_value(a, n, d) \in Nat
BY ProductIsNat, DivisionRoundsDown
   DEF proportional, value_from_shares, shares_from_value

LEMMA MonusIsNat ==
  ASSUME NEW a \in Int, NEW b \in Int
  PROVE  /\ Monus(a, b) \in Nat
         /\ a \in Nat /\ b \in Nat => Monus(a, b) <= a
BY DEF Monus

\* A fee is a natural number, and one that passed its check is no more than
\* what it is taken from.
LEMMA FeeIsBounded ==
  ASSUME NEW bp \in Nat, NEW lamports \in Nat
  PROVE  /\ FeeApply(bp, lamports) \in Nat
         /\ FeeCheck(bp) => FeeApply(bp, lamports) <= lamports
<1> DEFINE q == (lamports * bp) \div MAX_BASIS_POINTS
<1>1. lamports * bp \in Nat /\ MAX_BASIS_POINTS \in Nat \ {0}
        /\ U64 \in Nat \ {0}
  BY ProductIsNat, CalcAssumption
<1>2. q \in Nat
  BY <1>1, DivisionRoundsDown
<1>3. ASSUME bp <= MAX_BASIS_POINTS PROVE q <= lamports
  <2>1. lamports * bp <= lamports * MAX_BASIS_POINTS
    BY <1>1, <1>3
  <2> QED BY <1>1, <2>1, DivisionIsBounded
<1> HIDE DEF q
<1>4. q % U64 \in Nat /\ q % U64 <= q
  BY <1>1, <1>2, RemainderIsBounded
<1>5. FeeApply(bp, lamports) = q % U64
  BY DEF FeeApply, q
<1> QED BY <1>2, <1>3, <1>4, <1>5, <1>1 DEF FeeCheck

LEMMA FeeCentsIsBounded ==
  ASSUME NEW bp \in Nat, NEW lamports \in Nat
  PROVE  /\ FeeCentsApply(bp, lamports) \in Nat
         /\ FeeCentsCheck(bp) => FeeCentsApply(bp, lamports) <= lamports
<1> DEFINE q == (lamports * bp) \div MAX_BP_CENTS
<1>1. lamports * bp \in Nat /\ MAX_BP_CENTS \in Nat \ {0}
        /\ U64 \in Nat \ {0}
  BY ProductIsNat, CalcAssumption
<1>2. q \in Nat
  BY <1>1, DivisionRoundsDown
<1>3. ASSUME bp <= MAX_BP_CENTS PROVE q <= lamports
  <2>1. lamports * bp <= lamports * MAX_BP_CENTS
    BY <1>1, <1>3
  <2> QED BY <1>1, <2>1, DivisionIsBounded
<1> HIDE DEF q
<1>4. q % U64 \in Nat /\ q % U64 <= q
  BY <1>1, <1>2, RemainderIsBounded
<1>5. FeeCentsApply(bp, lamports) = q % U64
  BY DEF FeeCentsApply, q
<1> QED BY <1>2, <1>3, <1>4, <1>5, <1>1 DEF FeeCentsCheck

\* The fee of an instant unstake lies between its two ends.
LEMMA LinearFeeIsBetween ==
  ASSUME NEW lamports \in Nat, NEW target \in Nat,
         NEW max_fee \in Nat, NEW min_fee \in Nat, min_fee <= max_fee
  PROVE  /\ linear_fee(lamports, target, max_fee, min_fee) \in Nat
         /\ min_fee <= linear_fee(lamports, target, max_fee, min_fee)
         /\ linear_fee(lamports, target, max_fee, min_fee) <= max_fee
<1>1. CASE lamports >= target
  BY <1>1 DEF linear_fee
<1>2. CASE lamports < target
  <2> DEFINE gap == max_fee - min_fee
             part == proportional(gap, lamports, target)
  <2>1. gap \in Nat /\ target \in Nat \ {0}
    BY <1>2
  <2>2. delta(max_fee, min_fee) = gap
    BY DEF delta, Monus
  <2>3. part \in Nat
    <3> HIDE DEF gap
    <3> QED BY <2>1, ProportionalIsNat
  <2>4. part <= gap
    <3> HIDE DEF gap
    <3>1. gap * lamports \in Nat /\ gap * lamports <= gap * target
      BY <1>2, <2>1
    <3>2. (gap * lamports) \div target <= gap
      BY <2>1, <3>1, DivisionIsBounded
    <3> QED BY <2>1, <3>2 DEF proportional
  <2>5. linear_fee(lamports, target, max_fee, min_fee) = max_fee - part
    BY <1>2, <2>2 DEF linear_fee
  <2> HIDE DEF part
  <2> QED BY <2>3, <2>4, <2>5
<1> QED BY <1>1, <1>2
===========================================================================
