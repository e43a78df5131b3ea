---------------------------- MODULE StakeProofs ----------------------------
(***************************************************************************)
(* The records of the stake list against the counters and the accounts     *)
(* they stand for, for all constants: StakeIsCounted, which no instruction *)
(* and nothing around the program breaks, and StakeIsBacked, which only a  *)
(* slash breaks.  And what follows for the steps that move stake.          *)
(*                                                                         *)
(* The sums of StakeIsCounted range over sets of records that change with  *)
(* every step.  The proofs sum over all addresses instead, an address      *)
(* counting for what its record adds to a sum: a step then changes a sum   *)
(* at the one, two or three addresses that it names.                       *)
(***************************************************************************)
EXTENDS MarinadeProofs

\* What the record at address x adds to the balance of validator v, and to
\* what cools down as e says
active_at(x, v) ==
  IF x \in DOMAIN stake_list /\ is_active(x) /\ stake_accounts[x].voter = v
    THEN last_update(x)
    ELSE 0

cooling_at(x, e) ==
  IF /\ x \in DOMAIN stake_list /\ ~ is_active(x)
     /\ stake_list[x].is_emergency_unstaking = e
    THEN last_update(x)
    ELSE 0

balance_at(v) ==
  IF v \in DOMAIN validator_list THEN validator_list[v].active_balance ELSE 0

ActiveStake(v) == [x \in StakeAccount |-> active_at(x, v)]
CoolingStake(e) == [x \in StakeAccount |-> cooling_at(x, e)]
Balances == [v \in Validator |-> balance_at(v)]

Counted ==
  /\ total_active_balance = Total(Balances)
  /\ \A v \in Validator : Total(ActiveStake(v)) = balance_at(v)
  /\ delayed_unstake_cooling_down = Total(CoolingStake(0))
  /\ emergency_cooling_down = Total(CoolingStake(1))

---------------------------------------------------------------------------
(* Sums over all addresses                                                 *)

TypedSums ==
  /\ \A v \in Validator : ActiveStake(v) \in [StakeAccount -> Nat]
  /\ \A e \in {0, 1} : CoolingStake(e) \in [StakeAccount -> Nat]
  /\ Balances \in [Validator -> Nat]
  /\ DOMAIN stake_list \subseteq StakeAccount
  /\ DOMAIN validator_list \subseteq Validator

LEMMA SumsAreTyped == IInv => TypedSums
<1> SUFFICES ASSUME IInv PROVE TypedSums
  OBVIOUS
<1>1. \A x \in DOMAIN stake_list : last_update(x) \in Nat
  BY StakesAreTyped DEF IInv, TypeOK, StakeTypes
<1>2. \A v : ActiveStake(v) \in [StakeAccount -> Nat]
  BY <1>1 DEF ActiveStake, active_at
<1>3. \A e : CoolingStake(e) \in [StakeAccount -> Nat]
  BY <1>1 DEF CoolingStake, cooling_at
<1>4. \A v \in DOMAIN validator_list : validator_list[v].active_balance \in Nat
  BY DEF IInv, TypeOK, ValidatorTypes, ValidatorRecord
<1>5. Balances \in [Validator -> Nat]
  BY <1>4 DEF Balances, balance_at
<1> QED BY <1>2, <1>3, <1>5 DEF TypedSums, IInv, TypeOK, StakeTypes,
           ValidatorTypes

LEMMA SumsAreTypedNext == IInv' => TypedSums'
BY SumsAreTyped, PTL

\* The sums of StakeIsCounted are those over all addresses.
LEMMA CountedOverAddresses == IInv => (StakeIsCounted <=> Counted)
<1> SUFFICES ASSUME IInv PROVE StakeIsCounted <=> Counted
  OBVIOUS
<1>1. \A x \in DOMAIN stake_list : last_update(x) \in Nat
  BY StakesAreTyped DEF IInv, TypeOK, StakeTypes
<1>2. ASSUME NEW v \in Validator
      PROVE  Total(delegated(ActiveRecords(v))) = Total(ActiveStake(v))
  <2> DEFINE D == ActiveRecords(v)
             f == delegated(D)
             g == ActiveStake(v)
  <2>1. D \subseteq StakeAccount
    BY SumsAreTyped DEF TypedSums, ActiveRecords
  <2>2. f \in [D -> Nat]
    BY <1>1 DEF delegated, ActiveRecords, last_update
  <2>3. g \in [StakeAccount -> Nat]
    BY SumsAreTyped DEF TypedSums
  <2>4. \A x \in D : g[x] = f[x]
    BY <2>1 DEF ActiveStake, active_at, delegated, ActiveRecords, last_update
  <2>5. \A x \in StakeAccount \ D : g[x] = 0
    BY DEF ActiveStake, active_at, ActiveRecords
  <2> HIDE DEF D, f, g
  <2>6. Total(f) = Total(g)
    BY <2>1, <2>2, <2>3, <2>4, <2>5, TotalIgnoresZeros
  <2> QED BY <2>6 DEF D, f, g
<1>3. ASSUME NEW e \in {0, 1}
      PROVE  Total(delegated(CoolingRecords(e))) = Total(CoolingStake(e))
  <2> DEFINE D == CoolingRecords(e)
             f == delegated(D)
             g == CoolingStake(e)
  <2>1. D \subseteq StakeAccount
    BY SumsAreTyped DEF TypedSums, CoolingRecords
  <2>2. f \in [D -> Nat]
    BY <1>1 DEF delegated, CoolingRecords, last_update
  <2>3. g \in [StakeAccount -> Nat]
    BY SumsAreTyped DEF TypedSums
  <2>4. \A x \in D : g[x] = f[x]
    BY <2>1 DEF CoolingStake, cooling_at, delegated, CoolingRecords,
                last_update
  <2>5. \A x \in StakeAccount \ D : g[x] = 0
    BY DEF CoolingStake, cooling_at, CoolingRecords
  <2> HIDE DEF D, f, g
  <2>6. Total(f) = Total(g)
    BY <2>1, <2>2, <2>3, <2>4, <2>5, TotalIgnoresZeros
  <2> QED BY <2>6 DEF D, f, g
<1>4. Total(balance_of_validators) = Total(Balances)
  <2> DEFINE D == DOMAIN validator_list
             f == balance_of_validators
             g == Balances
  <2>1. D \subseteq Validator
    BY SumsAreTyped DEF TypedSums
  <2>2. f \in [D -> Nat]
    BY DEF balance_of_validators, IInv, TypeOK, ValidatorTypes,
           ValidatorRecord
  <2>3. g \in [Validator -> Nat]
    BY SumsAreTyped DEF TypedSums
  <2>4. \A x \in D : g[x] = f[x]
    BY <2>1 DEF Balances, balance_at, balance_of_validators
  <2>5. \A x \in Validator \ D : g[x] = 0
    BY DEF Balances, balance_at
  <2> HIDE DEF D, f, g
  <2>6. Total(f) = Total(g)
    BY <2>1, <2>2, <2>3, <2>4, <2>5, TotalIgnoresZeros
  <2> QED BY <2>6 DEF f, g
<1>5. ActiveStakeIsCounted <=>
        /\ total_active_balance = Total(Balances)
        /\ \A v \in Validator : Total(ActiveStake(v)) = balance_at(v)
  BY <1>2, <1>4 DEF ActiveStakeIsCounted, balance_at
<1>6. CoolingIsCounted <=>
        /\ delayed_unstake_cooling_down = Total(CoolingStake(0))
        /\ emergency_cooling_down = Total(CoolingStake(1))
  BY <1>3 DEF CoolingIsCounted
<1> QED BY <1>5, <1>6 DEF StakeIsCounted, Counted

LEMMA CountedOverAddressesNext == IInv' => (StakeIsCounted' <=> Counted')
BY CountedOverAddresses, PTL

---------------------------------------------------------------------------
(* How the sums follow a step                                              *)

\* The record at address x counts for the same.
Unmoved(x) ==
  /\ x \in DOMAIN stake_list' <=> x \in DOMAIN stake_list
  /\ x \in DOMAIN stake_list =>
       /\ stake_list'[x] = stake_list[x]
       /\ is_active(x)' <=> is_active(x)
       /\ stake_accounts'[x].voter = stake_accounts[x].voter

LEMMA UnmovedCounts ==
  ASSUME NEW x, Unmoved(x)
  PROVE  /\ \A v : active_at(x, v)' = active_at(x, v)
         /\ \A e : cooling_at(x, e)' = cooling_at(x, e)
BY DEF Unmoved, active_at, cooling_at, last_update

LEMMA SumsStay ==
  ASSUME IInv, IInv', \A x \in StakeAccount : Unmoved(x)
  PROVE  /\ \A v \in Validator : ActiveStake(v)' = ActiveStake(v)
         /\ \A e \in {0, 1} : CoolingStake(e)' = CoolingStake(e)
BY UnmovedCounts DEF ActiveStake, CoolingStake

LEMMA SumsFollowOne ==
  ASSUME IInv, IInv', NEW a \in StakeAccount,
         \A x \in StakeAccount \ {a} : Unmoved(x)
  PROVE  /\ \A v \in Validator :
              /\ active_at(a, v) \in Nat /\ active_at(a, v)' \in Nat
              /\ Total(ActiveStake(v)) \in Nat
              /\ active_at(a, v) <= Total(ActiveStake(v))
              /\ Total(ActiveStake(v))' =
                   Total(ActiveStake(v)) - active_at(a, v) + active_at(a, v)'
         /\ \A e \in {0, 1} :
              /\ cooling_at(a, e) \in Nat /\ cooling_at(a, e)' \in Nat
              /\ Total(CoolingStake(e)) \in Nat
              /\ cooling_at(a, e) <= Total(CoolingStake(e))
              /\ Total(CoolingStake(e))' =
                   Total(CoolingStake(e)) - cooling_at(a, e)
                     + cooling_at(a, e)'
<1>0. TypedSums /\ TypedSums' /\ IsFiniteSet(StakeAccount)
  BY SumsAreTyped, SumsAreTypedNext, StateAssumption
<1>1. ASSUME NEW v \in Validator
      PROVE  /\ active_at(a, v) \in Nat /\ active_at(a, v)' \in Nat
             /\ Total(ActiveStake(v)) \in Nat
             /\ active_at(a, v) <= Total(ActiveStake(v))
             /\ Total(ActiveStake(v))' =
                  Total(ActiveStake(v)) - active_at(a, v) + active_at(a, v)'
  <2> DEFINE f == ActiveStake(v)
             g == ActiveStake(v)'
  <2>1. f \in [StakeAccount -> Nat] /\ g \in [StakeAccount -> Nat]
    BY <1>0 DEF TypedSums
  <2>2. \A x \in StakeAccount : f[x] = active_at(x, v)
                               /\ g[x] = active_at(x, v)'
    BY DEF ActiveStake
  <2>3. \A x \in StakeAccount \ {a} : g[x] = f[x]
    BY <2>2, UnmovedCounts
  <2> HIDE DEF f, g
  <2>4. /\ Total(f) \in Nat /\ f[a] <= Total(f)
        /\ Total(g) = Total(f) - f[a] + g[a]
    BY <1>0, <2>1, <2>3, TotalFollowsOne
  <2>5. f[a] \in Nat /\ g[a] \in Nat
    BY <2>1
  <2>6. f[a] = active_at(a, v) /\ g[a] = active_at(a, v)'
    BY <2>2
  <2>7. Total(g) = Total(ActiveStake(v))'
    BY DEF g
  <2> QED BY <2>4, <2>5, <2>6, <2>7 DEF f
<1>2. ASSUME NEW e \in {0, 1}
      PROVE  /\ cooling_at(a, e) \in Nat /\ cooling_at(a, e)' \in Nat
             /\ Total(CoolingStake(e)) \in Nat
             /\ cooling_at(a, e) <= Total(CoolingStake(e))
             /\ Total(CoolingStake(e))' =
                  Total(CoolingStake(e)) - cooling_at(a, e)
                    + cooling_at(a, e)'
  <2> DEFINE f == CoolingStake(e)
             g == CoolingStake(e)'
  <2>1. f \in [StakeAccount -> Nat] /\ g \in [StakeAccount -> Nat]
    BY <1>0 DEF TypedSums
  <2>2. \A x \in StakeAccount : f[x] = cooling_at(x, e)
                               /\ g[x] = cooling_at(x, e)'
    BY DEF CoolingStake
  <2>3. \A x \in StakeAccount \ {a} : g[x] = f[x]
    BY <2>2, UnmovedCounts
  <2> HIDE DEF f, g
  <2>4. /\ Total(f) \in Nat /\ f[a] <= Total(f)
        /\ Total(g) = Total(f) - f[a] + g[a]
    BY <1>0, <2>1, <2>3, TotalFollowsOne
  <2>5. f[a] \in Nat /\ g[a] \in Nat
    BY <2>1
  <2>6. f[a] = cooling_at(a, e) /\ g[a] = cooling_at(a, e)'
    BY <2>2
  <2>7. Total(g) = Total(CoolingStake(e))'
    BY DEF g
  <2> QED BY <2>4, <2>5, <2>6, <2>7 DEF f
<1> QED BY <1>1, <1>2

LEMMA SumsFollowTwo ==
  ASSUME IInv, IInv', NEW a \in StakeAccount, NEW b \in StakeAccount,
         a # b,
         \A x \in StakeAccount \ {a, b} : Unmoved(x)
  PROVE  /\ \A v \in Validator :
              /\ Total(ActiveStake(v)) \in Nat
              /\ active_at(a, v) \in Nat /\ active_at(a, v)' \in Nat
              /\ active_at(b, v) \in Nat /\ active_at(b, v)' \in Nat
              /\ Total(ActiveStake(v))' = Total(ActiveStake(v))
                   - active_at(a, v) + active_at(a, v)'
                   - active_at(b, v) + active_at(b, v)'
         /\ \A e \in {0, 1} :
              /\ Total(CoolingStake(e)) \in Nat
              /\ cooling_at(a, e) \in Nat /\ cooling_at(a, e)' \in Nat
              /\ cooling_at(b, e) \in Nat /\ cooling_at(b, e)' \in Nat
              /\ Total(CoolingStake(e))' = Total(CoolingStake(e))
                   - cooling_at(a, e) + cooling_at(a, e)'
                   - cooling_at(b, e) + cooling_at(b, e)'
<1>0. TypedSums /\ TypedSums' /\ IsFiniteSet(StakeAccount)
  BY SumsAreTyped, SumsAreTypedNext, StateAssumption
<1>1. ASSUME NEW v \in Validator
      PROVE  /\ Total(ActiveStake(v)) \in Nat
             /\ active_at(a, v) \in Nat /\ active_at(a, v)' \in Nat
             /\ active_at(b, v) \in Nat /\ active_at(b, v)' \in Nat
             /\ Total(ActiveStake(v))' = Total(ActiveStake(v))
                  - active_at(a, v) + active_at(a, v)'
                  - active_at(b, v) + active_at(b, v)'
  <2> DEFINE f == ActiveStake(v)
             g == ActiveStake(v)'
  <2>1. f \in [StakeAccount -> Nat] /\ g \in [StakeAccount -> Nat]
    BY <1>0 DEF TypedSums
  <2>2. \A x \in StakeAccount : f[x] = active_at(x, v)
                               /\ g[x] = active_at(x, v)'
    BY DEF ActiveStake
  <2>3. \A x \in StakeAccount \ {a, b} : g[x] = f[x]
    BY <2>2, UnmovedCounts
  <2> HIDE DEF f, g
  <2>4. Total(g) = Total(f) - f[a] + g[a] - f[b] + g[b]
    BY <1>0, <2>1, <2>3, TotalFollowsTwo
  <2>5. Total(f) \in Nat
    BY <1>0, <2>1, TotalIsNat
  <2>6. /\ f[a] \in Nat /\ g[a] \in Nat
        /\ f[b] \in Nat /\ g[b] \in Nat
    BY <2>1
  <2>7. /\ f[a] = active_at(a, v) /\ g[a] = active_at(a, v)'
        /\ f[b] = active_at(b, v) /\ g[b] = active_at(b, v)'
    BY <2>2
  <2>8. Total(g) = Total(ActiveStake(v))'
    BY DEF g
  <2> QED BY <2>4, <2>5, <2>6, <2>7, <2>8 DEF f
<1>2. ASSUME NEW e \in {0, 1}
      PROVE  /\ Total(CoolingStake(e)) \in Nat
             /\ cooling_at(a, e) \in Nat /\ cooling_at(a, e)' \in Nat
             /\ cooling_at(b, e) \in Nat /\ cooling_at(b, e)' \in Nat
             /\ Total(CoolingStake(e))' = Total(CoolingStake(e))
                  - cooling_at(a, e) + cooling_at(a, e)'
                  - cooling_at(b, e) + cooling_at(b, e)'
  <2> DEFINE f == CoolingStake(e)
             g == CoolingStake(e)'
  <2>1. f \in [StakeAccount -> Nat] /\ g \in [StakeAccount -> Nat]
    BY <1>0 DEF TypedSums
  <2>2. \A x \in StakeAccount : f[x] = cooling_at(x, e)
                               /\ g[x] = cooling_at(x, e)'
    BY DEF CoolingStake
  <2>3. \A x \in StakeAccount \ {a, b} : g[x] = f[x]
    BY <2>2, UnmovedCounts
  <2> HIDE DEF f, g
  <2>4. Total(g) = Total(f) - f[a] + g[a] - f[b] + g[b]
    BY <1>0, <2>1, <2>3, TotalFollowsTwo
  <2>5. Total(f) \in Nat
    BY <1>0, <2>1, TotalIsNat
  <2>6. /\ f[a] \in Nat /\ g[a] \in Nat
        /\ f[b] \in Nat /\ g[b] \in Nat
    BY <2>1
  <2>7. /\ f[a] = cooling_at(a, e) /\ g[a] = cooling_at(a, e)'
        /\ f[b] = cooling_at(b, e) /\ g[b] = cooling_at(b, e)'
    BY <2>2
  <2>8. Total(g) = Total(CoolingStake(e))'
    BY DEF g
  <2> QED BY <2>4, <2>5, <2>6, <2>7, <2>8 DEF f
<1> QED BY <1>1, <1>2

LEMMA SumsFollowThree ==
  ASSUME IInv, IInv', NEW a \in StakeAccount, NEW b \in StakeAccount,
         NEW c \in StakeAccount,
         a # b, a # c, b # c,
         \A x \in StakeAccount \ {a, b, c} : Unmoved(x)
  PROVE  /\ \A v \in Validator :
              /\ Total(ActiveStake(v)) \in Nat
              /\ active_at(a, v) \in Nat /\ active_at(a, v)' \in Nat
              /\ active_at(b, v) \in Nat /\ active_at(b, v)' \in Nat
              /\ active_at(c, v) \in Nat /\ active_at(c, v)' \in Nat
              /\ Total(ActiveStake(v))' = Total(ActiveStake(v))
                   - active_at(a, v) + active_at(a, v)'
                   - active_at(b, v) + active_at(b, v)'
                   - active_at(c, v) + active_at(c, v)'
         /\ \A e \in {0, 1} :
              /\ Total(CoolingStake(e)) \in Nat
              /\ cooling_at(a, e) \in Nat /\ cooling_at(a, e)' \in Nat
              /\ cooling_at(b, e) \in Nat /\ cooling_at(b, e)' \in Nat
              /\ cooling_at(c, e) \in Nat /\ cooling_at(c, e)' \in Nat
              /\ Total(CoolingStake(e))' = Total(CoolingStake(e))
                   - cooling_at(a, e) + cooling_at(a, e)'
                   - cooling_at(b, e) + cooling_at(b, e)'
                   - cooling_at(c, e) + cooling_at(c, e)'
<1>0. TypedSums /\ TypedSums' /\ IsFiniteSet(StakeAccount)
  BY SumsAreTyped, SumsAreTypedNext, StateAssumption
<1>1. ASSUME NEW v \in Validator
      PROVE  /\ Total(ActiveStake(v)) \in Nat
             /\ active_at(a, v) \in Nat /\ active_at(a, v)' \in Nat
             /\ active_at(b, v) \in Nat /\ active_at(b, v)' \in Nat
             /\ active_at(c, v) \in Nat /\ active_at(c, v)' \in Nat
             /\ Total(ActiveStake(v))' = Total(ActiveStake(v))
                  - active_at(a, v) + active_at(a, v)'
                  - active_at(b, v) + active_at(b, v)'
                  - active_at(c, v) + active_at(c, v)'
  <2> DEFINE f == ActiveStake(v)
             g == ActiveStake(v)'
  <2>1. f \in [StakeAccount -> Nat] /\ g \in [StakeAccount -> Nat]
    BY <1>0 DEF TypedSums
  <2>2. \A x \in StakeAccount : f[x] = active_at(x, v)
                               /\ g[x] = active_at(x, v)'
    BY DEF ActiveStake
  <2>3. \A x \in StakeAccount \ {a, b, c} : g[x] = f[x]
    BY <2>2, UnmovedCounts
  <2> HIDE DEF f, g
  <2>4. Total(g) = Total(f) - f[a] + g[a] - f[b] + g[b] - f[c] + g[c]
    BY <1>0, <2>1, <2>3, TotalFollowsThree
  <2>5. Total(f) \in Nat
    BY <1>0, <2>1, TotalIsNat
  <2>6. /\ f[a] \in Nat /\ g[a] \in Nat
        /\ f[b] \in Nat /\ g[b] \in Nat
        /\ f[c] \in Nat /\ g[c] \in Nat
    BY <2>1
  <2>7. /\ f[a] = active_at(a, v) /\ g[a] = active_at(a, v)'
        /\ f[b] = active_at(b, v) /\ g[b] = active_at(b, v)'
        /\ f[c] = active_at(c, v) /\ g[c] = active_at(c, v)'
    BY <2>2
  <2>8. Total(g) = Total(ActiveStake(v))'
    BY DEF g
  <2> QED BY <2>4, <2>5, <2>6, <2>7, <2>8 DEF f
<1>2. ASSUME NEW e \in {0, 1}
      PROVE  /\ Total(CoolingStake(e)) \in Nat
             /\ cooling_at(a, e) \in Nat /\ cooling_at(a, e)' \in Nat
             /\ cooling_at(b, e) \in Nat /\ cooling_at(b, e)' \in Nat
             /\ cooling_at(c, e) \in Nat /\ cooling_at(c, e)' \in Nat
             /\ Total(CoolingStake(e))' = Total(CoolingStake(e))
                  - cooling_at(a, e) + cooling_at(a, e)'
                  - cooling_at(b, e) + cooling_at(b, e)'
                  - cooling_at(c, e) + cooling_at(c, e)'
  <2> DEFINE f == CoolingStake(e)
             g == CoolingStake(e)'
  <2>1. f \in [StakeAccount -> Nat] /\ g \in [StakeAccount -> Nat]
    BY <1>0 DEF TypedSums
  <2>2. \A x \in StakeAccount : f[x] = cooling_at(x, e)
                               /\ g[x] = cooling_at(x, e)'
    BY DEF CoolingStake
  <2>3. \A x \in StakeAccount \ {a, b, c} : g[x] = f[x]
    BY <2>2, UnmovedCounts
  <2> HIDE DEF f, g
  <2>4. Total(g) = Total(f) - f[a] + g[a] - f[b] + g[b] - f[c] + g[c]
    BY <1>0, <2>1, <2>3, TotalFollowsThree
  <2>5. Total(f) \in Nat
    BY <1>0, <2>1, TotalIsNat
  <2>6. /\ f[a] \in Nat /\ g[a] \in Nat
        /\ f[b] \in Nat /\ g[b] \in Nat
        /\ f[c] \in Nat /\ g[c] \in Nat
    BY <2>1
  <2>7. /\ f[a] = cooling_at(a, e) /\ g[a] = cooling_at(a, e)'
        /\ f[b] = cooling_at(b, e) /\ g[b] = cooling_at(b, e)'
        /\ f[c] = cooling_at(c, e) /\ g[c] = cooling_at(c, e)'
    BY <2>2
  <2>8. Total(g) = Total(CoolingStake(e))'
    BY DEF g
  <2> QED BY <2>4, <2>5, <2>6, <2>7, <2>8 DEF f
<1> QED BY <1>1, <1>2

\* The balances of the validators
LEMMA BalancesStay ==
  ASSUME IInv, IInv', \A w \in Validator : balance_at(w)' = balance_at(w)
  PROVE  Balances' = Balances
BY DEF Balances

LEMMA BalancesFollowOne ==
  ASSUME IInv, IInv', NEW v \in Validator,
         \A w \in Validator \ {v} : balance_at(w)' = balance_at(w)
  PROVE  /\ balance_at(v) \in Nat /\ balance_at(v)' \in Nat
         /\ Total(Balances) \in Nat /\ balance_at(v) <= Total(Balances)
         /\ Total(Balances)' =
              Total(Balances) - balance_at(v) + balance_at(v)'
<1> DEFINE f == Balances
           g == Balances'
<1>1. /\ f \in [Validator -> Nat] /\ g \in [Validator -> Nat]
      /\ IsFiniteSet(Validator)
  BY SumsAreTyped, SumsAreTypedNext, StateAssumption DEF TypedSums
<1>2. \A w \in Validator : f[w] = balance_at(w) /\ g[w] = balance_at(w)'
  BY DEF Balances
<1>3. \A w \in Validator \ {v} : g[w] = f[w]
  BY <1>2
<1> HIDE DEF f, g
<1>4. /\ Total(f) \in Nat /\ f[v] <= Total(f)
      /\ Total(g) = Total(f) - f[v] + g[v]
  BY <1>1, <1>3, TotalFollowsOne
<1>5. f[v] \in Nat /\ g[v] \in Nat
  BY <1>1
<1>6. f[v] = balance_at(v) /\ g[v] = balance_at(v)'
  BY <1>2
<1>7. Total(g) = Total(Balances)'
  BY DEF g
<1> QED BY <1>4, <1>5, <1>6, <1>7 DEF f

LEMMA BalancesFollowTwo ==
  ASSUME IInv, IInv', NEW v \in Validator, NEW w \in Validator, v # w,
         \A u \in Validator \ {v, w} : balance_at(u)' = balance_at(u)
  PROVE  /\ balance_at(v) \in Nat /\ balance_at(v)' \in Nat
         /\ balance_at(w) \in Nat /\ balance_at(w)' \in Nat
         /\ Total(Balances) \in Nat
         /\ Total(Balances)' = Total(Balances)
              - balance_at(v) + balance_at(v)'
              - balance_at(w) + balance_at(w)'
<1> DEFINE f == Balances
           g == Balances'
<1>1. /\ f \in [Validator -> Nat] /\ g \in [Validator -> Nat]
      /\ IsFiniteSet(Validator)
  BY SumsAreTyped, SumsAreTypedNext, StateAssumption DEF TypedSums
<1>2. \A u \in Validator : f[u] = balance_at(u) /\ g[u] = balance_at(u)'
  BY DEF Balances
<1>3. \A u \in Validator \ {v, w} : g[u] = f[u]
  BY <1>2
<1> HIDE DEF f, g
<1>4. Total(f) \in Nat /\ Total(g) = Total(f) - f[v] + g[v] - f[w] + g[w]
  BY <1>1, <1>3, TotalFollowsTwo, TotalIsNat
<1>5. f[v] \in Nat /\ g[v] \in Nat /\ f[w] \in Nat /\ g[w] \in Nat
  BY <1>1
<1>6. /\ f[v] = balance_at(v) /\ g[v] = balance_at(v)'
      /\ f[w] = balance_at(w) /\ g[w] = balance_at(w)'
  BY <1>2
<1>7. Total(g) = Total(Balances)'
  BY DEF g
<1> QED BY <1>4, <1>5, <1>6, <1>7 DEF f

---------------------------------------------------------------------------
(* What the operators on records do at each address                        *)

\* stake::instruction::split
LEMMA SplitAt ==
  ASSUME IInv, NEW a \in DOMAIN stake_accounts, NEW b, NEW n \in Nat,
         NEW native, split(a, b, n, native)
  PROVE  /\ b \notin DOMAIN stake_accounts /\ b # a
         /\ DOMAIN stake_accounts' = DOMAIN stake_accounts \cup {b}
         /\ stake_accounts'[b] = native
         /\ stake_accounts'[a].stake = stake_accounts[a].stake - n
         /\ stake_accounts'[a].balance = stake_accounts[a].balance - n
         /\ stake_accounts'[a].status = stake_accounts[a].status
         /\ stake_accounts'[a].voter = stake_accounts[a].voter
         /\ stake_accounts'[a].owner = stake_accounts[a].owner
         /\ \A x \in DOMAIN stake_accounts \ {a} :
              stake_accounts'[x] = stake_accounts[x]
<1> DEFINE less == [stake_accounts EXCEPT ![a].stake = @ - n,
                                          ![a].balance = @ - n]
<1>1. /\ stake_accounts' = Put(less, b, native)
      /\ b \notin DOMAIN stake_accounts
  BY DEF split
<1>2. stake_accounts[a] \in NativeStake
  BY StakesAreTyped
<1>3. /\ DOMAIN less = DOMAIN stake_accounts
      /\ less[a].stake = stake_accounts[a].stake - n
      /\ less[a].balance = stake_accounts[a].balance - n
      /\ less[a].status = stake_accounts[a].status
      /\ less[a].voter = stake_accounts[a].voter
      /\ less[a].owner = stake_accounts[a].owner
      /\ \A x \in DOMAIN stake_accounts \ {a} : less[x] = stake_accounts[x]
  BY <1>2 DEF NativeStake
<1> HIDE DEF less
<1>4. /\ DOMAIN stake_accounts' = DOMAIN less \cup {b}
      /\ stake_accounts'[b] = native
      /\ \A z \in DOMAIN less \ {b} : stake_accounts'[z] = less[z]
  BY <1>1 DEF Put
<1> QED BY <1>1, <1>3, <1>4

LEMMA ReducedAt ==
  ASSUME IInv, NEW a \in DOMAIN stake_list, NEW n \in Nat
  PROVE  /\ DOMAIN reduced(a, n) = DOMAIN stake_list
         /\ reduced(a, n)[a].last_update_delegated_lamports
              = last_update(a) - n
         /\ reduced(a, n)[a].is_emergency_unstaking
              = stake_list[a].is_emergency_unstaking
         /\ \A x \in DOMAIN stake_list \ {a} :
              reduced(a, n)[x] = stake_list[x]
<1>1. stake_list[a] \in StakeRecord
  BY StakesAreTyped DEF IInv, TypeOK, StakeTypes
<1> QED BY <1>1 DEF reduced, last_update, StakeRecord

\* stake::instruction::deactivate_stake
LEMMA DeactivatedAt ==
  ASSUME NEW native \in NativeStake,
         native.status \in {"activating", "active"}
  PROVE  /\ deactivated(native).status \in {"inactive", "deactivating"}
         /\ deactivated(native).stake = native.stake
         /\ deactivated(native).balance = native.balance
         /\ deactivated(native).voter = native.voter
         /\ deactivated(native).owner = native.owner
         /\ deactivated(native) \in NativeStake
BY DEF deactivated, NativeStake, Statuses

LEMMA NewAccountAt ==
  ASSUME NEW v, NEW n, NEW status, NEW owner
  PROVE  /\ new_stake_account(v, n, status, owner).voter = v
         /\ new_stake_account(v, n, status, owner).stake = n
         /\ new_stake_account(v, n, status, owner).balance = n
         /\ new_stake_account(v, n, status, owner).status = status
         /\ new_stake_account(v, n, status, owner).owner = owner
BY DEF new_stake_account

LEMMA NewRecordAt ==
  ASSUME NEW n, NEW e
  PROVE  /\ new_stake_record(n, e).last_update_delegated_lamports = n
         /\ new_stake_record(n, e).is_emergency_unstaking = e
BY DEF new_stake_record

---------------------------------------------------------------------------
(* Steps that change the sums and the counters alike                       *)

MovedOnly(S) == \A x \in StakeAccount \ S : Unmoved(x)

\* The record at address x now counts n more for validator v, and d and e
\* more for the two kinds of cooling.
Gains(x, v, n, d, e) ==
  /\ active_at(x, v)' = active_at(x, v) + n
  /\ \A w \in Validator \ {v} : active_at(x, w)' = active_at(x, w)
  /\ cooling_at(x, 0)' = cooling_at(x, 0) + d
  /\ cooling_at(x, 1)' = cooling_at(x, 1) + e

\* The counters follow.
ActiveBooked(v, n) ==
  /\ balance_at(v)' = balance_at(v) + n
  /\ \A w \in Validator \ {v} : balance_at(w)' = balance_at(w)
  /\ total_active_balance' = total_active_balance + n

ActiveMoved(v, w, n) ==
  /\ balance_at(v)' = balance_at(v) - n
  /\ balance_at(w)' = balance_at(w) + n
  /\ \A u \in Validator \ {v, w} : balance_at(u)' = balance_at(u)
  /\ total_active_balance' = total_active_balance

CoolingBooked(d, e) ==
  /\ delayed_unstake_cooling_down' = delayed_unstake_cooling_down + d
  /\ emergency_cooling_down' = emergency_cooling_down + e

LEMMA CountedAfter ==
  ASSUME IInv, IInv', Counted,
         NEW v \in Validator, NEW n \in Int, NEW d \in Int, NEW e \in Int,
         ActiveBooked(v, n), CoolingBooked(d, e),
         Total(ActiveStake(v))' = Total(ActiveStake(v)) + n,
         \A w \in Validator \ {v} :
           Total(ActiveStake(w))' = Total(ActiveStake(w)),
         Total(CoolingStake(0))' = Total(CoolingStake(0)) + d,
         Total(CoolingStake(1))' = Total(CoolingStake(1)) + e
  PROVE  Counted'
<1>1. \A w \in Validator : Total(ActiveStake(w))' = balance_at(w)'
  BY DEF Counted, ActiveBooked
<1>2. total_active_balance' = Total(Balances)'
  <2>1. \A w \in Validator \ {v} : balance_at(w)' = balance_at(w)
    BY DEF ActiveBooked
  <2>2. /\ balance_at(v) \in Nat /\ Total(Balances) \in Nat
        /\ Total(Balances)' =
             Total(Balances) - balance_at(v) + balance_at(v)'
    BY <2>1, BalancesFollowOne
  <2>3. total_active_balance = Total(Balances)
    BY DEF Counted
  <2> QED BY <2>2, <2>3 DEF ActiveBooked
<1> QED BY <1>1, <1>2 DEF Counted, CoolingBooked

LEMMA CountsOne ==
  ASSUME IInv, IInv', Counted,
         NEW a \in StakeAccount, NEW v \in Validator,
         NEW n \in Int, NEW d \in Int, NEW e \in Int,
         MovedOnly({a}), Gains(a, v, n, d, e),
         ActiveBooked(v, n), CoolingBooked(d, e)
  PROVE  Counted'
<1>1. \A x \in StakeAccount \ {a} : Unmoved(x)
  BY DEF MovedOnly
<1>2. /\ \A w \in Validator :
           /\ active_at(a, w) \in Nat /\ Total(ActiveStake(w)) \in Nat
           /\ Total(ActiveStake(w))' =
                Total(ActiveStake(w)) - active_at(a, w) + active_at(a, w)'
      /\ \A k \in {0, 1} :
           /\ cooling_at(a, k) \in Nat /\ Total(CoolingStake(k)) \in Nat
           /\ Total(CoolingStake(k))' =
                Total(CoolingStake(k)) - cooling_at(a, k) + cooling_at(a, k)'
  BY <1>1, SumsFollowOne
<1>3. /\ Total(ActiveStake(v))' = Total(ActiveStake(v)) + n
      /\ \A w \in Validator \ {v} :
           Total(ActiveStake(w))' = Total(ActiveStake(w))
  BY <1>2 DEF Gains
<1>4. /\ Total(CoolingStake(0))' = Total(CoolingStake(0)) + d
      /\ Total(CoolingStake(1))' = Total(CoolingStake(1)) + e
  BY <1>2 DEF Gains
<1> QED BY <1>3, <1>4, CountedAfter

\* Two records of one validator
LEMMA CountsTwo ==
  ASSUME IInv, IInv', Counted,
         NEW a \in StakeAccount, NEW b \in StakeAccount, a # b,
         NEW v \in Validator,
         NEW na \in Int, NEW da \in Int, NEW ea \in Int,
         NEW nb \in Int, NEW db \in Int, NEW eb \in Int,
         MovedOnly({a, b}),
         Gains(a, v, na, da, ea), Gains(b, v, nb, db, eb),
         ActiveBooked(v, na + nb), CoolingBooked(da + db, ea + eb)
  PROVE  Counted'
<1>1. \A x \in StakeAccount \ {a, b} : Unmoved(x)
  BY DEF MovedOnly
<1>2. /\ \A w \in Validator :
           /\ Total(ActiveStake(w)) \in Nat
           /\ active_at(a, w) \in Nat /\ active_at(b, w) \in Nat
           /\ Total(ActiveStake(w))' = Total(ActiveStake(w))
                - active_at(a, w) + active_at(a, w)'
                - active_at(b, w) + active_at(b, w)'
      /\ \A k \in {0, 1} :
           /\ Total(CoolingStake(k)) \in Nat
           /\ cooling_at(a, k) \in Nat /\ cooling_at(b, k) \in Nat
           /\ Total(CoolingStake(k))' = Total(CoolingStake(k))
                - cooling_at(a, k) + cooling_at(a, k)'
                - cooling_at(b, k) + cooling_at(b, k)'
  BY <1>1, SumsFollowTwo
<1>3. /\ Total(ActiveStake(v))' = Total(ActiveStake(v)) + (na + nb)
      /\ \A w \in Validator \ {v} :
           Total(ActiveStake(w))' = Total(ActiveStake(w))
  BY <1>2 DEF Gains
<1>4. /\ Total(CoolingStake(0))' = Total(CoolingStake(0)) + (da + db)
      /\ Total(CoolingStake(1))' = Total(CoolingStake(1)) + (ea + eb)
  BY <1>2 DEF Gains
<1>5. na + nb \in Int /\ da + db \in Int /\ ea + eb \in Int
  OBVIOUS
<1> QED BY <1>3, <1>4, <1>5, CountedAfter

\* A step that moves n from a record of v to a record of w, without cooling
LEMMA CountsMoved ==
  ASSUME IInv, IInv', Counted,
         NEW v \in Validator, NEW w \in Validator, v # w, NEW n \in Int,
         ActiveMoved(v, w, n), CoolingBooked(0, 0),
         Total(ActiveStake(v))' = Total(ActiveStake(v)) - n,
         Total(ActiveStake(w))' = Total(ActiveStake(w)) + n,
         \A u \in Validator \ {v, w} :
           Total(ActiveStake(u))' = Total(ActiveStake(u)),
         Total(CoolingStake(0))' = Total(CoolingStake(0)),
         Total(CoolingStake(1))' = Total(CoolingStake(1))
  PROVE  Counted'
<1>1. \A u \in Validator : Total(ActiveStake(u))' = balance_at(u)'
  BY DEF Counted, ActiveMoved
<1>2. total_active_balance' = Total(Balances)'
  <2>1. \A u \in Validator \ {v, w} : balance_at(u)' = balance_at(u)
    BY DEF ActiveMoved
  <2>2. /\ balance_at(v) \in Nat /\ balance_at(w) \in Nat
        /\ Total(Balances) \in Nat
        /\ Total(Balances)' = Total(Balances)
             - balance_at(v) + balance_at(v)'
             - balance_at(w) + balance_at(w)'
    BY <2>1, BalancesFollowTwo
  <2>3. total_active_balance = Total(Balances)
    BY DEF Counted
  <2> QED BY <2>2, <2>3 DEF ActiveMoved
<1>3. CoolingTypes
  BY DEF IInv, TypeOK
<1> QED BY <1>1, <1>2, <1>3 DEF Counted, CoolingBooked, CoolingTypes

LEMMA CountsTwoMoved ==
  ASSUME IInv, IInv', Counted,
         NEW a \in StakeAccount, NEW c \in StakeAccount, a # c,
         NEW v \in Validator, NEW w \in Validator, v # w, NEW n \in Int,
         MovedOnly({a, c}),
         Gains(a, v, - n, 0, 0), Gains(c, w, n, 0, 0),
         ActiveMoved(v, w, n), CoolingBooked(0, 0)
  PROVE  Counted'
<1>1. \A x \in StakeAccount \ {a, c} : Unmoved(x)
  BY DEF MovedOnly
<1>2. /\ \A u \in Validator :
           /\ Total(ActiveStake(u)) \in Nat
           /\ active_at(a, u) \in Nat /\ active_at(c, u) \in Nat
           /\ Total(ActiveStake(u))' = Total(ActiveStake(u))
                - active_at(a, u) + active_at(a, u)'
                - active_at(c, u) + active_at(c, u)'
      /\ \A k \in {0, 1} :
           /\ Total(CoolingStake(k)) \in Nat
           /\ cooling_at(a, k) \in Nat /\ cooling_at(c, k) \in Nat
           /\ Total(CoolingStake(k))' = Total(CoolingStake(k))
                - cooling_at(a, k) + cooling_at(a, k)'
                - cooling_at(c, k) + cooling_at(c, k)'
  BY <1>1, SumsFollowTwo
<1>3. /\ Total(ActiveStake(v))' = Total(ActiveStake(v)) - n
      /\ Total(ActiveStake(w))' = Total(ActiveStake(w)) + n
      /\ \A u \in Validator \ {v, w} :
           Total(ActiveStake(u))' = Total(ActiveStake(u))
  BY <1>2 DEF Gains
<1>4. /\ Total(CoolingStake(0))' = Total(CoolingStake(0))
      /\ Total(CoolingStake(1))' = Total(CoolingStake(1))
  BY <1>2 DEF Gains
<1> QED BY <1>3, <1>4, CountsMoved

LEMMA CountsThreeMoved ==
  ASSUME IInv, IInv', Counted,
         NEW a \in StakeAccount, NEW b \in StakeAccount,
         NEW c \in StakeAccount, a # b, a # c, b # c,
         NEW v \in Validator, NEW w \in Validator, v # w, NEW n \in Int,
         MovedOnly({a, b, c}),
         Gains(a, v, - n, 0, 0), Gains(b, v, 0, 0, 0), Gains(c, w, n, 0, 0),
         ActiveMoved(v, w, n), CoolingBooked(0, 0)
  PROVE  Counted'
<1>1. \A x \in StakeAccount \ {a, b, c} : Unmoved(x)
  BY DEF MovedOnly
<1>2. /\ \A u \in Validator :
           /\ Total(ActiveStake(u)) \in Nat
           /\ active_at(a, u) \in Nat /\ active_at(b, u) \in Nat
           /\ active_at(c, u) \in Nat
           /\ Total(ActiveStake(u))' = Total(ActiveStake(u))
                - active_at(a, u) + active_at(a, u)'
                - active_at(b, u) + active_at(b, u)'
                - active_at(c, u) + active_at(c, u)'
      /\ \A k \in {0, 1} :
           /\ Total(CoolingStake(k)) \in Nat
           /\ cooling_at(a, k) \in Nat /\ cooling_at(b, k) \in Nat
           /\ cooling_at(c, k) \in Nat
           /\ Total(CoolingStake(k))' = Total(CoolingStake(k))
                - cooling_at(a, k) + cooling_at(a, k)'
                - cooling_at(b, k) + cooling_at(b, k)'
                - cooling_at(c, k) + cooling_at(c, k)'
  BY <1>1, SumsFollowThree
<1>3. /\ Total(ActiveStake(v))' = Total(ActiveStake(v)) - n
      /\ Total(ActiveStake(w))' = Total(ActiveStake(w)) + n
      /\ \A u \in Validator \ {v, w} :
           Total(ActiveStake(u))' = Total(ActiveStake(u))
  BY <1>2 DEF Gains
<1>4. /\ Total(CoolingStake(0))' = Total(CoolingStake(0))
      /\ Total(CoolingStake(1))' = Total(CoolingStake(1))
  BY <1>2 DEF Gains
<1> QED BY <1>3, <1>4, CountsMoved

\* A step that moves no record
LEMMA CountsStay ==
  ASSUME IInv, IInv', Counted, MovedOnly({}),
         \A w \in Validator : balance_at(w)' = balance_at(w),
         UNCHANGED <<total_active_balance, coolingVars>>
  PROVE  Counted'
<1>1. /\ \A v \in Validator : ActiveStake(v)' = ActiveStake(v)
      /\ \A e \in {0, 1} : CoolingStake(e)' = CoolingStake(e)
  BY SumsStay DEF MovedOnly
<1>2. Balances' = Balances
  BY BalancesStay
<1> QED BY <1>1, <1>2 DEF Counted, coolingVars

---------------------------------------------------------------------------
(* The instructions of the crank                                           *)

LEMMA UpdateActiveAt ==
  ASSUME IInv, NEW a \in DOMAIN stake_list, UpdateActive(a)
  PROVE  /\ is_active(a) /\ stake_accounts[a].voter \in DOMAIN validator_list
         /\ DOMAIN stake_list' = DOMAIN stake_list
         /\ DOMAIN stake_accounts' = DOMAIN stake_accounts
         /\ stake_list'[a].last_update_delegated_lamports
              = stake_accounts[a].stake
         /\ stake_list'[a].is_emergency_unstaking
              = stake_list[a].is_emergency_unstaking
         /\ stake_accounts'[a].balance = stake_accounts[a].stake
         /\ stake_accounts'[a].stake = stake_accounts[a].stake
         /\ stake_accounts'[a].status = stake_accounts[a].status
         /\ stake_accounts'[a].voter = stake_accounts[a].voter
         /\ stake_accounts'[a].owner = stake_accounts[a].owner
         /\ \A x \in DOMAIN stake_list \ {a} : stake_list'[x] = stake_list[x]
         /\ \A x \in DOMAIN stake_accounts \ {a} :
              stake_accounts'[x] = stake_accounts[x]
<1> DEFINE n == stake_accounts[a].stake
<1>1. /\ stake_list' = [stake_list EXCEPT
           ![a].last_update_delegated_lamports = n]
      /\ stake_accounts' = [stake_accounts EXCEPT ![a].balance = n]
      /\ is_active(a) /\ stake_accounts[a].voter \in DOMAIN validator_list
  BY DEF UpdateActive
<1>2. a \in DOMAIN stake_accounts
  BY DEF IInv, TypeOK, StakeTypes
<1>3. stake_list[a] \in StakeRecord /\ stake_accounts[a] \in NativeStake
  BY <1>2, StakesAreTyped
<1> HIDE DEF n
<1>4. /\ DOMAIN stake_list' = DOMAIN stake_list
      /\ stake_list'[a].last_update_delegated_lamports = n
      /\ stake_list'[a].is_emergency_unstaking
           = stake_list[a].is_emergency_unstaking
      /\ \A x \in DOMAIN stake_list \ {a} : stake_list'[x] = stake_list[x]
  BY <1>1, <1>3 DEF StakeRecord
<1>5. /\ DOMAIN stake_accounts' = DOMAIN stake_accounts
      /\ stake_accounts'[a].balance = n
      /\ stake_accounts'[a].stake = stake_accounts[a].stake
      /\ stake_accounts'[a].status = stake_accounts[a].status
      /\ stake_accounts'[a].voter = stake_accounts[a].voter
      /\ stake_accounts'[a].owner = stake_accounts[a].owner
      /\ \A x \in DOMAIN stake_accounts \ {a} :
           stake_accounts'[x] = stake_accounts[x]
  BY <1>1, <1>2, <1>3 DEF NativeStake
<1> QED BY <1>1, <1>4, <1>5 DEF n

\* What the validator of a record is credited with covers the record.
LEMMA RecordIsCovered ==
  ASSUME IInv, Counted, NEW a \in DOMAIN stake_list, is_active(a)
  PROVE  /\ stake_accounts[a].voter \in Validator
         /\ last_update(a) \in Nat
         /\ last_update(a) <= balance_at(stake_accounts[a].voter)
         /\ balance_at(stake_accounts[a].voter) <= total_active_balance
         /\ balance_at(stake_accounts[a].voter) \in Nat
         /\ total_active_balance \in Nat
<1> DEFINE v == stake_accounts[a].voter
           f == ActiveStake(v)
<1>1. /\ a \in StakeAccount /\ a \in DOMAIN stake_accounts
      /\ last_update(a) \in Nat /\ v \in Validator
  BY StakesAreTyped DEF IInv, TypeOK, StakeTypes
<1>2. f[a] = last_update(a)
  BY <1>1 DEF ActiveStake, active_at
<1>3. f \in [StakeAccount -> Nat] /\ Balances \in [Validator -> Nat]
  BY <1>1, SumsAreTyped DEF TypedSums
<1>4. Balances[v] = balance_at(v)
  BY <1>1 DEF Balances
<1>5. Total(f) = balance_at(v) /\ total_active_balance = Total(Balances)
  BY <1>1 DEF Counted
<1> HIDE DEF f, v
<1>6. f[a] <= Total(f)
  BY <1>1, <1>3, StateAssumption, TotalFollowsOne
<1>7. Balances[v] <= Total(Balances) /\ Total(Balances) \in Nat
  BY <1>1, <1>3, StateAssumption, TotalFollowsOne
<1>8. Balances[v] \in Nat
  BY <1>1, <1>3
<1> QED BY <1>1, <1>2, <1>4, <1>5, <1>6, <1>7, <1>8 DEF v

\* The list of validators after a step that writes the balance of v
BalanceWritten(v, n) ==
  /\ DOMAIN validator_list' = DOMAIN validator_list
  /\ validator_list'[v].active_balance = validator_list[v].active_balance + n
  /\ \A w \in DOMAIN validator_list \ {v} :
       validator_list'[w].active_balance = validator_list[w].active_balance

LEMMA WrittenIsBooked ==
  ASSUME IInv, NEW v \in DOMAIN validator_list, NEW n \in Int,
         BalanceWritten(v, n),
         total_active_balance' = total_active_balance + n
  PROVE  v \in Validator /\ ActiveBooked(v, n)
BY DEF BalanceWritten, ActiveBooked, balance_at, IInv, TypeOK, ValidatorTypes

LEMMA UpdateActiveCounts ==
  ASSUME IInv, IInv', Counted, NEW a \in DOMAIN stake_list, UpdateActive(a)
  PROVE  Counted'
<1> PICK v \in Validator : v = stake_accounts[a].voter
  BY StakesAreTyped DEF IInv, TypeOK, StakeTypes
<1> DEFINE n == stake_accounts[a].stake
           last == last_update(a)
<1>1. /\ a \in StakeAccount /\ a \in DOMAIN stake_accounts
      /\ n \in Nat /\ last \in Nat /\ v \in Validator
  BY StakesAreTyped DEF IInv, TypeOK, StakeTypes
<1>2. MovedOnly({a})
  BY UpdateActiveAt
     DEF MovedOnly, Unmoved, is_active, IInv, TypeOK, StakeTypes
<1>3. Gains(a, v, n - last, 0, 0)
  BY <1>1, UpdateActiveAt
     DEF Gains, active_at, cooling_at, is_active, last_update
<1>4. last <= balance_at(v) /\ balance_at(v) <= total_active_balance
        /\ balance_at(v) \in Nat /\ total_active_balance \in Nat
  BY UpdateActiveAt, RecordIsCovered
<1>5. /\ v \in DOMAIN validator_list
      /\ validator_list' = [validator_list EXCEPT
           ![v].active_balance = Monus(@ + rewards(a), slashed(a))]
      /\ total_active_balance' =
           Monus(total_active_balance + rewards(a), slashed(a))
      /\ UNCHANGED coolingVars
  BY DEF UpdateActive
<1>6. /\ Monus(balance_at(v) + rewards(a), slashed(a))
           = balance_at(v) + (n - last)
      /\ Monus(total_active_balance + rewards(a), slashed(a))
           = total_active_balance + (n - last)
  BY <1>1, <1>4 DEF Monus, rewards, slashed
<1>7. validator_list \in [DOMAIN validator_list -> ValidatorRecord]
        /\ balance_at(v) = validator_list[v].active_balance
  BY <1>5 DEF IInv, TypeOK, ValidatorTypes, balance_at
<1> HIDE DEF n, last
<1>8. validator_list' =
        [validator_list EXCEPT ![v].active_balance = @ + (n - last)]
  BY <1>5, <1>6, <1>7
<1>9. BalanceWritten(v, n - last)
  BY <1>5, <1>7, <1>8 DEF ValidatorRecord, BalanceWritten
<1>10. ActiveBooked(v, n - last) /\ n - last \in Int
  BY <1>1, <1>5, <1>6, <1>9, WrittenIsBooked
<1>11. CoolingBooked(0, 0)
  BY <1>5 DEF coolingVars, CoolingBooked, IInv, TypeOK, CoolingTypes
<1> QED BY <1>1, <1>2, <1>3, <1>10, <1>11, CountsOne

LEMMA NothingBooked ==
  ASSUME IInv
  PROVE  /\ UNCHANGED coolingVars => CoolingBooked(0, 0)
         /\ UNCHANGED validatorVars => \A v \in Validator : ActiveBooked(v, 0)
<1>1. CoolingTypes /\ total_active_balance \in Nat
  BY DEF IInv, TypeOK, ValidatorTypes
<1>2. \A v \in Validator : balance_at(v) \in Nat
  BY SumsAreTyped DEF TypedSums, Balances
<1>3. UNCHANGED validatorVars => \A v : balance_at(v)' = balance_at(v)
  BY DEF validatorVars, balance_at
<1> QED BY <1>1, <1>2, <1>3
        DEF CoolingTypes, CoolingBooked, ActiveBooked, coolingVars,
            validatorVars

LEMMA UpdateDeactivatedCounts ==
  ASSUME IInv, IInv', Counted, NEW a \in DOMAIN stake_list,
         UpdateDeactivated(a)
  PROVE  Counted'
<1> PICK v \in Validator : v = stake_accounts[a].voter
  BY StakesAreTyped DEF IInv, TypeOK, StakeTypes
<1> DEFINE last == last_update(a)
           emergency == stake_list[a].is_emergency_unstaking
           d == - (IF emergency = 0 THEN last ELSE 0)
           e == - (IF emergency = 1 THEN last ELSE 0)
<1>1. /\ a \in StakeAccount /\ a \in DOMAIN stake_accounts
      /\ last \in Nat /\ v \in Validator /\ emergency \in {0, 1}
  BY StakesAreTyped DEF IInv, TypeOK, StakeTypes, StakeRecord
<1>2. /\ stake_list' = Without(stake_list, a)
      /\ stake_accounts' = Without(stake_accounts, a)
      /\ stake_accounts[a].status = "inactive"
      /\ UNCHANGED validatorVars
      /\ delayed_unstake_cooling_down' =
           delayed_unstake_cooling_down - (IF emergency = 0 THEN last ELSE 0)
      /\ emergency_cooling_down' =
           emergency_cooling_down - (IF emergency = 1 THEN last ELSE 0)
  BY DEF UpdateDeactivated, cooled_down
<1>3. /\ DOMAIN stake_list' = DOMAIN stake_list \ {a}
      /\ \A x \in DOMAIN stake_list' : stake_list'[x] = stake_list[x]
      /\ \A x \in DOMAIN stake_list' : stake_accounts'[x] = stake_accounts[x]
  BY <1>2 DEF Without, IInv, TypeOK, StakeTypes
<1>4. MovedOnly({a})
  BY <1>3 DEF MovedOnly, Unmoved, is_active
<1>5. /\ Gains(a, v, 0, d, e) /\ d \in Int /\ e \in Int
  BY <1>1, <1>2, <1>3 DEF Gains, active_at, cooling_at, is_active
<1>6. ActiveBooked(v, 0)
  BY <1>1, <1>2, NothingBooked
<1>7. CoolingBooked(d, e)
  BY <1>1, <1>2 DEF CoolingBooked, IInv, TypeOK, CoolingTypes
<1>8. a \in StakeAccount /\ 0 \in Int /\ d \in Int /\ e \in Int
  BY <1>1, <1>5
<1> HIDE DEF d, e
<1> QED BY <1>4, <1>5, <1>6, <1>7, <1>8, CountsOne

LEMMA StakeReserveCounts ==
  ASSUME IInv, IInv', Counted,
         NEW v \in DOMAIN validator_list, NEW a \in StakeAccount,
         StakeReserve(v, a)
  PROVE  Counted'
<1> DEFINE n == reserve_stake_target(v)
           native == new_stake_account(v, n, "activating", "marinade")
<1>1. n \in Nat
  BY ReserveTargetTypes DEF StakeReserve, TakeStakeRun
<1> HIDE DEF n
<1>2. /\ a \notin DOMAIN stake_accounts /\ a \notin DOMAIN stake_list
      /\ stake_accounts' = Put(stake_accounts, a, native)
      /\ stake_list' = Put(stake_list, a, new_stake_record(n, 0))
      /\ validator_list' = [validator_list EXCEPT
           ![v].active_balance = @ + n, ![v].ran = TRUE]
      /\ total_active_balance' = total_active_balance + n
      /\ UNCHANGED coolingVars
  BY DEF StakeReserve, add_stake, n
<1> HIDE DEF native
<1>3. /\ DOMAIN stake_list' = DOMAIN stake_list \cup {a}
      /\ stake_list'[a] = new_stake_record(n, 0)
      /\ stake_accounts'[a] = native
      /\ \A x \in DOMAIN stake_list : stake_list'[x] = stake_list[x]
      /\ \A x \in DOMAIN stake_list : stake_accounts'[x] = stake_accounts[x]
  BY <1>2 DEF Put, IInv, TypeOK, StakeTypes
<1>4. MovedOnly({a})
  BY <1>3 DEF MovedOnly, Unmoved, is_active
<1>5. /\ stake_list'[a].last_update_delegated_lamports = n
      /\ stake_accounts'[a].voter = v
      /\ stake_accounts'[a].status = "activating"
  BY <1>3, NewAccountAt, NewRecordAt DEF native
<1>6. Gains(a, v, n, 0, 0)
  BY <1>1, <1>2, <1>3, <1>5
     DEF Gains, active_at, cooling_at, is_active, last_update
<1>7. validator_list \in [DOMAIN validator_list -> ValidatorRecord]
  BY DEF IInv, TypeOK, ValidatorTypes
<1>8. BalanceWritten(v, n)
  BY <1>2, <1>7 DEF ValidatorRecord, BalanceWritten
<1>9. v \in Validator /\ ActiveBooked(v, n) /\ CoolingBooked(0, 0)
  BY <1>1, <1>2, <1>8, WrittenIsBooked, NothingBooked
<1> QED BY <1>1, <1>4, <1>6, <1>9, CountsOne

\* A whole account starts to cool down: the record at address a keeps its
\* amount and gets the mark e.
MarkedAs(a, e) ==
  /\ DOMAIN stake_list' = DOMAIN stake_list
  /\ stake_list'[a].last_update_delegated_lamports = last_update(a)
  /\ stake_list'[a].is_emergency_unstaking = e
  /\ \A x \in DOMAIN stake_list \ {a} : stake_list'[x] = stake_list[x]

LEMMA WholeAccountCools ==
  ASSUME IInv, NEW a \in DOMAIN stake_list, is_active(a),
         NEW v \in Validator, v = stake_accounts[a].voter,
         stake_accounts' =
           [stake_accounts EXCEPT ![a] = deactivated(stake_accounts[a])],
         NEW e \in {0, 1}, MarkedAs(a, e)
  PROVE  /\ a \in StakeAccount /\ last_update(a) \in Nat
         /\ MovedOnly({a})
         /\ Gains(a, v, - last_update(a),
                  IF e = 0 THEN last_update(a) ELSE 0,
                  IF e = 1 THEN last_update(a) ELSE 0)
<1>1. /\ a \in StakeAccount /\ a \in DOMAIN stake_accounts
      /\ last_update(a) \in Nat /\ stake_accounts[a] \in NativeStake
  BY StakesAreTyped DEF IInv, TypeOK, StakeTypes
<1>2. /\ stake_accounts'[a].status \in {"inactive", "deactivating"}
      /\ stake_accounts'[a].voter = stake_accounts[a].voter
      /\ \A x \in DOMAIN stake_accounts \ {a} :
           stake_accounts'[x] = stake_accounts[x]
  <2> DEFINE native == stake_accounts[a]
  <2>1. native \in NativeStake /\ native.status \in {"activating", "active"}
    BY <1>1 DEF is_active
  <2>2. stake_accounts' = [stake_accounts EXCEPT ![a] = deactivated(native)]
    OBVIOUS
  <2>3. stake_accounts \in [DOMAIN stake_accounts -> NativeStake]
    BY DEF IInv, TypeOK, StakeTypes
  <2>4. stake_accounts'[a] = deactivated(native)
    BY <1>1, <2>2, <2>3
  <2>5. \A x \in DOMAIN stake_accounts \ {a} :
          stake_accounts'[x] = stake_accounts[x]
    BY <1>1, <2>2, <2>3
  <2> HIDE DEF native
  <2>6. /\ deactivated(native).status \in {"inactive", "deactivating"}
        /\ deactivated(native).voter = native.voter
    BY <2>1, DeactivatedAt
  <2> QED BY <2>4, <2>5, <2>6 DEF native
<1>3. MovedOnly({a})
  BY <1>1, <1>2 DEF MovedOnly, Unmoved, is_active, MarkedAs, IInv, TypeOK,
                    StakeTypes
<1>4. Gains(a, v, - last_update(a),
            IF e = 0 THEN last_update(a) ELSE 0,
            IF e = 1 THEN last_update(a) ELSE 0)
  BY <1>1, <1>2
     DEF Gains, active_at, cooling_at, is_active, last_update, MarkedAs
<1> QED BY <1>1, <1>3, <1>4

LEMMA DelayedUnstakeIsBooked ==
  ASSUME IInv, NEW v \in DOMAIN validator_list, NEW n \in Nat,
         NEW ran, StartDelayedUnstake(v, n, ran)
  PROVE  v \in Validator /\ ActiveBooked(v, - n) /\ CoolingBooked(n, 0)
<1>1. validator_list \in [DOMAIN validator_list -> ValidatorRecord]
  BY DEF IInv, TypeOK, ValidatorTypes
<1>2. validator_list[v].active_balance \in Nat /\ total_active_balance \in Nat
  BY DEF IInv, TypeOK, ValidatorTypes, ValidatorRecord
<1>3. BalanceWritten(v, - n)
  BY <1>1, <1>2 DEF StartDelayedUnstake, ValidatorRecord, BalanceWritten
<1>4. CoolingBooked(n, 0)
  BY DEF StartDelayedUnstake, CoolingBooked, IInv, TypeOK, CoolingTypes
<1>5. total_active_balance' = total_active_balance + (- n) /\ - n \in Int
  BY <1>2 DEF StartDelayedUnstake
<1> QED BY <1>3, <1>4, <1>5, WrittenIsBooked

LEMMA EmergencyUnstakeIsBooked ==
  ASSUME IInv, NEW v \in DOMAIN validator_list, NEW n \in Nat,
         StartEmergencyUnstake(v, n)
  PROVE  v \in Validator /\ ActiveBooked(v, - n) /\ CoolingBooked(0, n)
<1>1. validator_list \in [DOMAIN validator_list -> ValidatorRecord]
  BY DEF IInv, TypeOK, ValidatorTypes
<1>2. validator_list[v].active_balance \in Nat /\ total_active_balance \in Nat
  BY DEF IInv, TypeOK, ValidatorTypes, ValidatorRecord
<1>3. BalanceWritten(v, - n)
  BY <1>1, <1>2 DEF StartEmergencyUnstake, ValidatorRecord, BalanceWritten
<1>4. CoolingBooked(0, n)
  BY DEF StartEmergencyUnstake, CoolingBooked, IInv, TypeOK, CoolingTypes
<1>5. total_active_balance' = total_active_balance + (- n) /\ - n \in Int
  BY <1>2 DEF StartEmergencyUnstake
<1> QED BY <1>3, <1>4, <1>5, WrittenIsBooked

LEMMA DeactivateWholeStakeCounts ==
  ASSUME IInv, IInv', Counted, NEW a \in DOMAIN stake_list,
         DeactivateWholeStake(a)
  PROVE  Counted'
<1> PICK v \in Validator : v = stake_accounts[a].voter
  BY StakesAreTyped DEF IInv, TypeOK, StakeTypes
<1> DEFINE n == last_update(a)
<1>1. /\ v \in DOMAIN validator_list /\ is_active(a)
      /\ stake_accounts' =
           [stake_accounts EXCEPT ![a] = deactivated(stake_accounts[a])]
      /\ stake_list' = stake_list /\ stake_list[a].is_emergency_unstaking = 0
      /\ StartDelayedUnstake(v, n, validator_list[v].ran)
  BY DEF DeactivateWholeStake, DeactivateStakeAllowed
<1>2. MarkedAs(a, 0)
  BY <1>1 DEF MarkedAs, last_update
<1>3. /\ a \in StakeAccount /\ n \in Nat /\ MovedOnly({a})
      /\ Gains(a, v, - n, IF 0 = 0 THEN n ELSE 0, IF 0 = 1 THEN n ELSE 0)
  BY <1>1, <1>2, WholeAccountCools
<1>4. v \in Validator /\ ActiveBooked(v, - n) /\ CoolingBooked(n, 0)
  BY <1>1, <1>3, DelayedUnstakeIsBooked
<1> HIDE DEF n
<1>5. Gains(a, v, - n, n, 0) /\ - n \in Int
  BY <1>3
<1> QED BY <1>3, <1>4, <1>5, CountsOne

LEMMA WholeEmergencyCounts ==
  ASSUME IInv, IInv', Counted, NEW a \in DOMAIN stake_list, is_active(a),
         stake_accounts[a].voter \in DOMAIN validator_list,
         UnstakeWholeAccount(a),
         StartEmergencyUnstake(stake_accounts[a].voter, last_update(a))
  PROVE  Counted'
<1> PICK v \in Validator : v = stake_accounts[a].voter
  BY StakesAreTyped DEF IInv, TypeOK, StakeTypes
<1> DEFINE n == last_update(a)
<1>1. stake_list[a] \in StakeRecord
        /\ stake_list \in [DOMAIN stake_list -> StakeRecord]
  BY DEF IInv, TypeOK, StakeTypes
<1>2. MarkedAs(a, 1)
  BY <1>1 DEF UnstakeWholeAccount, MarkedAs, last_update, StakeRecord
<1>3. /\ a \in StakeAccount /\ n \in Nat /\ MovedOnly({a})
      /\ Gains(a, v, - n, IF 1 = 0 THEN n ELSE 0, IF 1 = 1 THEN n ELSE 0)
  BY <1>2, WholeAccountCools DEF UnstakeWholeAccount
<1>4. v \in Validator /\ ActiveBooked(v, - n) /\ CoolingBooked(0, n)
  BY <1>3, EmergencyUnstakeIsBooked
<1> HIDE DEF n
<1>5. Gains(a, v, - n, 0, n) /\ - n \in Int
  BY <1>3
<1> QED BY <1>3, <1>4, <1>5, CountsOne

LEMMA EmergencyUnstakeCounts ==
  ASSUME IInv, IInv', Counted, NEW a \in DOMAIN stake_list,
         EmergencyUnstake(a)
  PROVE  Counted'
BY WholeEmergencyCounts DEF EmergencyUnstake

LEMMA PartialUnstakeWholeCounts ==
  ASSUME IInv, IInv', Counted, NEW a \in DOMAIN stake_list, NEW desired,
         PartialUnstakeWhole(a, desired)
  PROVE  Counted'
BY WholeEmergencyCounts DEF PartialUnstakeWhole, PartialUnstakeAllowed

LEMMA SplitAccountCools ==
  ASSUME IInv, NEW a \in DOMAIN stake_list, is_active(a),
         NEW v \in Validator, v = stake_accounts[a].voter,
         NEW b \in StakeAccount, NEW n \in Nat, NEW native,
         NEW e \in {0, 1},
         split(a, b, n, native), stake_list' = with_split(a, b, n, e),
         native.voter = v,
         native.status \in {"inactive", "deactivating"}
  PROVE  /\ a \in StakeAccount /\ a # b
         /\ MovedOnly({a, b})
         /\ Gains(a, v, - n, 0, 0)
         /\ Gains(b, v, 0,
                  IF e = 0 THEN n ELSE 0, IF e = 1 THEN n ELSE 0)
<1>1. /\ a \in StakeAccount /\ a \in DOMAIN stake_accounts
      /\ last_update(a) \in Nat
      /\ DOMAIN stake_list \subseteq DOMAIN stake_accounts
  BY StakesAreTyped DEF IInv, TypeOK, StakeTypes
<1>2. /\ b \notin DOMAIN stake_accounts /\ b # a
      /\ stake_accounts'[b] = native
      /\ stake_accounts'[a].status = stake_accounts[a].status
      /\ stake_accounts'[a].voter = stake_accounts[a].voter
      /\ \A x \in DOMAIN stake_accounts \ {a} :
           stake_accounts'[x] = stake_accounts[x]
  <2>1. a \in DOMAIN stake_accounts /\ split(a, b, n, native)
    BY <1>1
  <2> QED BY ONLY IInv, n \in Nat, <2>1, SplitAt
<1>3. /\ DOMAIN stake_list' = DOMAIN stake_list \cup {b}
      /\ stake_list'[a].last_update_delegated_lamports = last_update(a) - n
      /\ stake_list'[b] = new_stake_record(n, e)
      /\ \A x \in DOMAIN stake_list \ {a} : stake_list'[x] = stake_list[x]
  <2> DEFINE lower == reduced(a, n)
  <2>1. stake_list' = Put(lower, b, new_stake_record(n, e))
    BY DEF with_split
  <2>2. /\ DOMAIN lower = DOMAIN stake_list
        /\ lower[a].last_update_delegated_lamports = last_update(a) - n
        /\ \A x \in DOMAIN stake_list \ {a} : lower[x] = stake_list[x]
    BY ReducedAt
  <2> HIDE DEF lower
  <2>3. /\ DOMAIN stake_list' = DOMAIN lower \cup {b}
        /\ stake_list'[b] = new_stake_record(n, e)
        /\ \A x \in DOMAIN lower \ {b} : stake_list'[x] = lower[x]
    BY ONLY <2>1 DEF Put
  <2>4. a \in DOMAIN stake_list /\ b \notin DOMAIN stake_list
    BY <1>1, <1>2
  <2> QED BY ONLY <2>2, <2>3, <2>4
<1>4. /\ stake_list'[b].last_update_delegated_lamports = n
      /\ stake_list'[b].is_emergency_unstaking = e
  BY <1>3, NewRecordAt
<1>5. MovedOnly({a, b})
  BY <1>1, <1>2, <1>3 DEF MovedOnly, Unmoved, is_active
<1>6. Gains(a, v, - n, 0, 0)
  BY <1>1, <1>2, <1>3 DEF Gains, active_at, cooling_at, is_active, last_update
<1>7. Gains(b, v, 0,
            IF e = 0 THEN n ELSE 0, IF e = 1 THEN n ELSE 0)
  BY <1>1, <1>2, <1>3, <1>4
     DEF Gains, active_at, cooling_at, is_active, last_update
<1> QED BY <1>1, <1>2, <1>5, <1>6, <1>7

LEMMA NewAccountCools ==
  ASSUME NEW v \in Validator, NEW n \in Nat,
         NEW status \in {"activating", "active"}
  PROVE  LET native == deactivated(new_stake_account(v, n, status, "marinade"))
         IN  /\ native.voter = v
             /\ native.status \in {"inactive", "deactivating"}
             /\ native.stake = n /\ native.balance = n
             /\ native.owner = "marinade"
BY DEF deactivated, new_stake_account

LEMMA DeactivateSplitStakeCounts ==
  ASSUME IInv, IInv', Counted, NEW a \in DOMAIN stake_list,
         NEW b \in StakeAccount, DeactivateSplitStake(a, b)
  PROVE  Counted'
<1> PICK v \in Validator : v = stake_accounts[a].voter
  BY StakesAreTyped DEF IInv, TypeOK, StakeTypes
<1> DEFINE n == last_update(a) - stake_account_target(a, v)
           native == deactivated(new_stake_account(v, n,
                       stake_accounts[a].status, "marinade"))
<1>1. /\ a \in DOMAIN stake_accounts /\ v \in DOMAIN validator_list
      /\ is_active(a) /\ stake_delta < 0 /\ v \in Validator
  BY StakesAreTyped DEF IInv, TypeOK, StakeTypes, DeactivateSplitStake,
         DeactivateStakeAllowed
<1>2. n \in Nat
  BY <1>1, StakeAccountTargetTypes, StakesAreTyped
<1> HIDE DEF n
<1>3. /\ split(a, b, n, native)
      /\ stake_list' = with_split(a, b, n, 0)
      /\ StartDelayedUnstake(v, n, TRUE)
  BY DEF DeactivateSplitStake, n
<1>4. native.voter = v /\ native.status \in {"inactive", "deactivating"}
  BY <1>1, <1>2, NewAccountCools DEF is_active
<1> HIDE DEF native
<1>5. /\ a \in StakeAccount /\ a # b /\ MovedOnly({a, b})
      /\ Gains(a, v, - n, 0, 0)
      /\ Gains(b, v, 0, IF 0 = 0 THEN n ELSE 0, IF 0 = 1 THEN n ELSE 0)
  BY <1>1, <1>2, <1>3, <1>4, SplitAccountCools
<1>6. ActiveBooked(v, - n) /\ CoolingBooked(n, 0)
  BY <1>1, <1>2, <1>3, DelayedUnstakeIsBooked
<1>7. Gains(b, v, 0, n, 0)
  BY <1>5
<1>8. /\ ActiveBooked(v, - n + 0) /\ CoolingBooked(0 + n, 0 + 0)
      /\ - n \in Int
  BY <1>2, <1>6
<1> QED BY <1>1, <1>2, <1>5, <1>7, <1>8, CountsTwo

LEMMA OverTargetTypes ==
  ASSUME IInv, NEW a, NEW v, NEW desired \in Nat,
         PartialUnstakeAllowed(a, v, desired)
  PROVE  Lesser(desired, over_target(v)) \in Nat
<1>1. v \in DOMAIN validator_list /\ total_active_balance + stake_delta \in Nat
        /\ over_target(v) > min_stake
  BY StateTypes DEF PartialUnstakeAllowed, IInv, TypeOK, ValidatorTypes
<1>2. validator_stake_target(v, total_active_balance + stake_delta) \in Nat
  BY <1>1, TargetTypes
<1>3. validator_list[v].active_balance \in Nat /\ min_stake \in Nat
  BY <1>1, ConfigTypes
     DEF IInv, TypeOK, ValidatorTypes, ValidatorRecord, min_stake
<1>4. over_target(v) \in Int
  BY <1>2, <1>3 DEF over_target
<1> QED BY <1>1, <1>3, <1>4 DEF Lesser

LEMMA PartialUnstakeSplitCounts ==
  ASSUME IInv, IInv', Counted, NEW a \in DOMAIN stake_list,
         NEW b \in StakeAccount, NEW desired \in Nat,
         PartialUnstakeSplit(a, b, desired)
  PROVE  Counted'
<1> PICK v \in Validator : v = stake_accounts[a].voter
  BY StakesAreTyped DEF IInv, TypeOK, StakeTypes
<1> DEFINE n == Lesser(desired, over_target(v))
           native == deactivated(new_stake_account(v, n,
                       stake_accounts[a].status, "marinade"))
<1>1. /\ a \in DOMAIN stake_accounts /\ v \in DOMAIN validator_list
      /\ is_active(a) /\ v \in Validator
      /\ PartialUnstakeAllowed(a, v, desired)
  BY StakesAreTyped DEF IInv, TypeOK, StakeTypes, PartialUnstakeSplit,
         PartialUnstakeAllowed
<1>2. n \in Nat
  BY <1>1, OverTargetTypes
<1> HIDE DEF n
<1>3. /\ split(a, b, n, native)
      /\ stake_list' = with_split(a, b, n, 1)
      /\ StartEmergencyUnstake(v, n)
  BY DEF PartialUnstakeSplit, n
<1>4. native.voter = v /\ native.status \in {"inactive", "deactivating"}
  BY <1>1, <1>2, NewAccountCools DEF is_active
<1> HIDE DEF native
<1>5. /\ a \in StakeAccount /\ a # b /\ MovedOnly({a, b})
      /\ Gains(a, v, - n, 0, 0)
      /\ Gains(b, v, 0, IF 1 = 0 THEN n ELSE 0, IF 1 = 1 THEN n ELSE 0)
  BY <1>1, <1>2, <1>3, <1>4, SplitAccountCools
<1>6. ActiveBooked(v, - n) /\ CoolingBooked(0, n)
  BY <1>1, <1>2, <1>3, EmergencyUnstakeIsBooked
<1>7. Gains(b, v, 0, 0, n)
  BY <1>5
<1>8. /\ ActiveBooked(v, - n + 0) /\ CoolingBooked(0 + 0, 0 + n)
      /\ - n \in Int
  BY <1>2, <1>6
<1> QED BY <1>1, <1>2, <1>5, <1>7, <1>8, CountsTwo

\* What a merge leaves in the two lists
LEMMA MergedAt ==
  ASSUME IInv, NEW dst \in DOMAIN stake_list, NEW src \in DOMAIN stake_list,
         dst # src, NEW n \in Nat,
         stake_accounts' = Without(
           [stake_accounts EXCEPT ![dst].stake = @ + n,
                                  ![dst].balance = @ + n], src),
         stake_list' = Without(
           [stake_list EXCEPT ![dst].last_update_delegated_lamports = @ + n],
           src)
  PROVE  /\ DOMAIN stake_list' = DOMAIN stake_list \ {src}
         /\ DOMAIN stake_accounts' = DOMAIN stake_accounts \ {src}
         /\ stake_list'[dst].last_update_delegated_lamports
              = last_update(dst) + n
         /\ stake_list'[dst].is_emergency_unstaking
              = stake_list[dst].is_emergency_unstaking
         /\ stake_accounts'[dst].stake = stake_accounts[dst].stake + n
         /\ stake_accounts'[dst].balance = stake_accounts[dst].balance + n
         /\ stake_accounts'[dst].status = stake_accounts[dst].status
         /\ stake_accounts'[dst].voter = stake_accounts[dst].voter
         /\ stake_accounts'[dst].owner = stake_accounts[dst].owner
         /\ \A x \in DOMAIN stake_list \ {dst, src} :
              /\ stake_list'[x] = stake_list[x]
              /\ stake_accounts'[x] = stake_accounts[x]
<1> DEFINE more == [stake_accounts EXCEPT ![dst].stake = @ + n,
                                          ![dst].balance = @ + n]
           taller == [stake_list EXCEPT
                        ![dst].last_update_delegated_lamports = @ + n]
<1>1. /\ {dst, src} \subseteq DOMAIN stake_accounts
      /\ DOMAIN stake_list \subseteq DOMAIN stake_accounts
      /\ stake_accounts[dst] \in NativeStake
      /\ stake_list[dst] \in StakeRecord
  BY DEF IInv, TypeOK, StakeTypes
<1>2. stake_accounts' = Without(more, src) /\ stake_list' = Without(taller, src)
  OBVIOUS
<1>3. /\ DOMAIN more = DOMAIN stake_accounts
      /\ more[dst].stake = stake_accounts[dst].stake + n
      /\ more[dst].balance = stake_accounts[dst].balance + n
      /\ more[dst].status = stake_accounts[dst].status
      /\ more[dst].voter = stake_accounts[dst].voter
      /\ more[dst].owner = stake_accounts[dst].owner
      /\ \A x \in DOMAIN stake_accounts \ {dst} : more[x] = stake_accounts[x]
  BY <1>1 DEF NativeStake
<1>4. /\ DOMAIN taller = DOMAIN stake_list
      /\ taller[dst].last_update_delegated_lamports = last_update(dst) + n
      /\ taller[dst].is_emergency_unstaking
           = stake_list[dst].is_emergency_unstaking
      /\ \A x \in DOMAIN stake_list \ {dst} : taller[x] = stake_list[x]
  BY <1>1 DEF StakeRecord, last_update
<1> HIDE DEF more, taller
<1>5. /\ DOMAIN stake_accounts' = DOMAIN more \ {src}
      /\ \A x \in DOMAIN more \ {src} : stake_accounts'[x] = more[x]
      /\ DOMAIN stake_list' = DOMAIN taller \ {src}
      /\ \A x \in DOMAIN taller \ {src} : stake_list'[x] = taller[x]
  BY ONLY <1>2 DEF Without
<1>6. dst \in DOMAIN more \ {src} /\ dst \in DOMAIN taller \ {src}
  BY <1>1, <1>3, <1>4
<1>7. stake_accounts'[dst] = more[dst] /\ stake_list'[dst] = taller[dst]
  BY <1>5, <1>6
<1>8. \A x \in DOMAIN stake_list \ {dst, src} :
        stake_list'[x] = stake_list[x] /\ stake_accounts'[x] = stake_accounts[x]
  BY ONLY <1>1, <1>3, <1>4, <1>5
<1> QED BY ONLY <1>3, <1>4, <1>5, <1>7, <1>8

LEMMA MergeStakesCounts ==
  ASSUME IInv, IInv', Counted,
         NEW dst \in DOMAIN stake_list, NEW src \in DOMAIN stake_list,
         MergeStakes(dst, src)
  PROVE  Counted'
<1> PICK v \in Validator : v = stake_accounts[dst].voter
  BY StakesAreTyped DEF IInv, TypeOK, StakeTypes
<1> DEFINE extra == extra_delegated(dst)
           moved == last_update(src)
           added == moved + extra
<1>1. /\ dst \in StakeAccount /\ src \in StakeAccount /\ v \in Validator
      /\ last_update(dst) \in Nat /\ moved \in Nat /\ extra \in Nat
  BY StakesAreTyped, ConstantTypes
     DEF IInv, TypeOK, StakeTypes, extra_delegated
<1>2. added \in Nat
  BY <1>1
<1>3. /\ dst # src /\ v \in DOMAIN validator_list
      /\ is_active(dst) /\ is_active(src)
      /\ stake_accounts[src].voter = v
      /\ validator_list' =
           [validator_list EXCEPT ![v].active_balance = @ + extra]
      /\ total_active_balance' = total_active_balance + extra
      /\ UNCHANGED coolingVars
  BY DEF MergeStakes, check_stake_amount_and_validator
<1>4. /\ DOMAIN stake_list' = DOMAIN stake_list \ {src}
      /\ stake_list'[dst].last_update_delegated_lamports
           = last_update(dst) + added
      /\ stake_accounts'[dst].status = stake_accounts[dst].status
      /\ stake_accounts'[dst].voter = v
      /\ \A x \in DOMAIN stake_list \ {dst, src} :
           /\ stake_list'[x] = stake_list[x]
           /\ stake_accounts'[x] = stake_accounts[x]
  BY <1>2, <1>3, MergedAt DEF MergeStakes
<1>5. MovedOnly({dst, src})
  BY <1>4 DEF MovedOnly, Unmoved, is_active
<1>6. Gains(dst, v, added, 0, 0)
  <2> HIDE DEF added
  <2> QED BY <1>1, <1>2, <1>3, <1>4
          DEF Gains, active_at, cooling_at, is_active, last_update
<1>7. Gains(src, v, - moved, 0, 0)
  BY <1>1, <1>3, <1>4
     DEF Gains, active_at, cooling_at, is_active, last_update
<1>8. validator_list \in [DOMAIN validator_list -> ValidatorRecord]
  BY DEF IInv, TypeOK, ValidatorTypes
<1> HIDE DEF extra, moved
<1>9. BalanceWritten(v, extra)
  BY <1>3, <1>8 DEF ValidatorRecord, BalanceWritten
<1>10. ActiveBooked(v, extra) /\ CoolingBooked(0, 0)
  BY <1>1, <1>3, <1>9, WrittenIsBooked, NothingBooked
<1>11. added + (- moved) = extra /\ - moved \in Int
  BY <1>1
<1>12. ActiveBooked(v, added + (- moved)) /\ CoolingBooked(0 + 0, 0 + 0)
  BY <1>10, <1>11
<1> HIDE DEF added
<1>13. dst \in StakeAccount /\ src \in StakeAccount /\ dst # src
         /\ v \in Validator
  BY <1>1, <1>3
<1> QED BY <1>2, <1>5, <1>6, <1>7, <1>11, <1>12, <1>13, CountsTwo

LEMMA MoveIsBooked ==
  ASSUME IInv, NEW src \in DOMAIN validator_list,
         NEW dst \in DOMAIN validator_list, src # dst, NEW n \in Nat,
         MoveStake(src, dst, n)
  PROVE  /\ src \in Validator /\ dst \in Validator
         /\ ActiveMoved(src, dst, n) /\ CoolingBooked(0, 0)
<1>1. validator_list \in [DOMAIN validator_list -> ValidatorRecord]
  BY DEF IInv, TypeOK, ValidatorTypes
<1>2. validator_list' = [validator_list EXCEPT
        ![src].active_balance = @ - n, ![dst].active_balance = @ + n]
  BY DEF MoveStake
<1>3. /\ DOMAIN validator_list' = DOMAIN validator_list
      /\ validator_list'[src].active_balance
           = validator_list[src].active_balance - n
      /\ validator_list'[dst].active_balance
           = validator_list[dst].active_balance + n
      /\ \A u \in DOMAIN validator_list \ {src, dst} :
           validator_list'[u] = validator_list[u]
  BY <1>1, <1>2 DEF ValidatorRecord
<1>4. ActiveMoved(src, dst, n)
  BY <1>3 DEF MoveStake, ActiveMoved, balance_at, IInv, TypeOK, ValidatorTypes
<1>5. CoolingBooked(0, 0)
  BY NothingBooked DEF MoveStake
<1> QED BY <1>4, <1>5 DEF IInv, TypeOK, ValidatorTypes

\* The new record that a redelegation leaves at address c
LEMMA RedelegatedGains ==
  ASSUME IInv, NEW c \in StakeAccount, c \notin DOMAIN stake_list,
         NEW dst \in Validator, NEW n \in Nat,
         c \in DOMAIN stake_list',
         stake_list'[c] = new_stake_record(n, 0),
         stake_accounts'[c] =
           new_stake_account(dst, n, "activating", "marinade")
  PROVE  Gains(c, dst, n, 0, 0)
<1>1. /\ stake_list'[c].last_update_delegated_lamports = n
      /\ stake_accounts'[c].voter = dst
      /\ stake_accounts'[c].status = "activating"
  BY NewAccountAt, NewRecordAt
<1> QED BY <1>1 DEF Gains, active_at, cooling_at, is_active, last_update

LEMMA RedelegateWholeStakeCounts ==
  ASSUME IInv, IInv', Counted, NEW a \in DOMAIN stake_list,
         NEW dst \in DOMAIN validator_list, NEW c \in StakeAccount,
         RedelegateWholeStake(a, dst, c)
  PROVE  Counted'
<1> PICK src \in Validator : src = stake_accounts[a].voter
  BY StakesAreTyped DEF IInv, TypeOK, StakeTypes
<1> DEFINE n == last_update(a)
           emptied == [deactivated(stake_accounts[a]) EXCEPT !.balance = @ - n]
           native == new_stake_account(dst, n, "activating", "marinade")
           hollow == [stake_accounts EXCEPT ![a] = emptied]
           zeroed == [stake_list EXCEPT ![a] = new_stake_record(0, 0)]
<1>1. /\ a \in StakeAccount /\ a \in DOMAIN stake_accounts /\ n \in Nat
      /\ src \in DOMAIN validator_list /\ src # dst
      /\ is_active(a) /\ stake_list[a].is_emergency_unstaking = 0
      /\ c \notin DOMAIN stake_accounts
      /\ DOMAIN stake_list \subseteq DOMAIN stake_accounts
      /\ stake_accounts[a] \in NativeStake
  BY StakesAreTyped
     DEF IInv, TypeOK, StakeTypes, RedelegateWholeStake, RedelegateAllowed,
         is_active
<1>2. /\ stake_accounts' = Put(hollow, c, native)
      /\ stake_list' = Put(zeroed, c, new_stake_record(n, 0))
      /\ MoveStake(src, dst, n)
  BY DEF RedelegateWholeStake
<1>3. /\ emptied.status \in {"inactive", "deactivating"}
      /\ emptied.voter = src
  BY <1>1 DEF is_active, deactivated, NativeStake
<1>4. /\ DOMAIN hollow = DOMAIN stake_accounts /\ hollow[a] = emptied
      /\ \A x \in DOMAIN stake_accounts \ {a} : hollow[x] = stake_accounts[x]
  BY <1>1
<1>5. /\ DOMAIN zeroed = DOMAIN stake_list
      /\ zeroed[a] = new_stake_record(0, 0)
      /\ \A x \in DOMAIN stake_list \ {a} : zeroed[x] = stake_list[x]
  BY <1>1
<1> HIDE DEF hollow, zeroed, emptied, native
<1>6. /\ DOMAIN stake_list' = DOMAIN zeroed \cup {c}
      /\ stake_list'[c] = new_stake_record(n, 0)
      /\ \A x \in DOMAIN zeroed \ {c} : stake_list'[x] = zeroed[x]
      /\ stake_accounts'[c] = native
      /\ \A x \in DOMAIN hollow \ {c} : stake_accounts'[x] = hollow[x]
  BY <1>2 DEF Put
<1>7. /\ DOMAIN stake_list' = DOMAIN stake_list \cup {c} /\ a # c
      /\ stake_list'[a] = new_stake_record(0, 0)
      /\ stake_accounts'[a] = emptied
      /\ \A x \in DOMAIN stake_list \ {a} :
           stake_list'[x] = stake_list[x]
             /\ stake_accounts'[x] = stake_accounts[x]
  BY ONLY <1>1, <1>4, <1>5, <1>6
<1>8. MovedOnly({a, c})
  BY <1>1, <1>7 DEF MovedOnly, Unmoved, is_active
<1>9. stake_list'[a].last_update_delegated_lamports = 0
  BY <1>7, NewRecordAt
<1>10. Gains(a, src, - n, 0, 0)
  BY <1>1, <1>3, <1>7, <1>9
     DEF Gains, active_at, cooling_at, is_active, last_update
<1>11. /\ src \in Validator /\ dst \in Validator
       /\ ActiveMoved(src, dst, n) /\ CoolingBooked(0, 0)
  BY <1>1, <1>2, MoveIsBooked
<1>12. Gains(c, dst, n, 0, 0)
  BY <1>1, <1>6, <1>7, <1>11, RedelegatedGains DEF native
<1> HIDE DEF n
<1> QED BY <1>1, <1>7, <1>8, <1>10, <1>11, <1>12, CountsTwoMoved

LEMMA RedelegateSplitStakeCounts ==
  ASSUME IInv, IInv', Counted, NEW a \in DOMAIN stake_list,
         NEW dst \in DOMAIN validator_list,
         NEW b \in StakeAccount, NEW c \in StakeAccount,
         RedelegateSplitStake(a, dst, b, c)
  PROVE  Counted'
<1> PICK src \in Validator : src = stake_accounts[a].voter
  BY StakesAreTyped DEF IInv, TypeOK, StakeTypes
<1> DEFINE n == redelegate_amount(a, src, dst)
           native == new_stake_account(dst, n, "activating", "marinade")
           emptied ==
             [new_stake_account(src, n, "deactivating", "marinade")
                EXCEPT !.balance = 0]
           less == [stake_accounts EXCEPT ![a].stake = @ - n,
                                          ![a].balance = @ - n]
           lower == reduced(a, n)
<1>1. /\ a \in StakeAccount /\ a \in DOMAIN stake_accounts
      /\ src \in DOMAIN validator_list /\ src # dst
      /\ is_active(a) /\ stake_list[a].is_emergency_unstaking = 0
      /\ b \notin DOMAIN stake_accounts /\ c \notin DOMAIN stake_accounts
      /\ b # c /\ DOMAIN stake_list \subseteq DOMAIN stake_accounts
      /\ stake_accounts[a] \in NativeStake /\ last_update(a) \in Nat
  BY StakesAreTyped
     DEF IInv, TypeOK, StakeTypes, RedelegateSplitStake, RedelegateAllowed,
         is_active
<1>2. n \in Nat
  BY RedelegateAmountTypes DEF RedelegateSplitStake
<1> HIDE DEF n
<1>3. /\ stake_accounts' = Put(Put(less, b, emptied), c, native)
      /\ stake_list' = Put(Put(lower, b, new_stake_record(0, 0)),
                           c, new_stake_record(n, 0))
      /\ MoveStake(src, dst, n)
  BY DEF RedelegateSplitStake, n
<1>4. emptied.status = "deactivating"
  BY DEF new_stake_account
<1>5. /\ DOMAIN less = DOMAIN stake_accounts
      /\ less[a].status = stake_accounts[a].status
      /\ less[a].voter = stake_accounts[a].voter
      /\ \A x \in DOMAIN stake_accounts \ {a} : less[x] = stake_accounts[x]
  BY <1>1 DEF NativeStake
<1>6. /\ DOMAIN lower = DOMAIN stake_list
      /\ lower[a].last_update_delegated_lamports = last_update(a) - n
      /\ \A x \in DOMAIN stake_list \ {a} : lower[x] = stake_list[x]
  BY <1>2, ReducedAt
<1> HIDE DEF less, lower, emptied, native
<1>7. /\ DOMAIN stake_list' = DOMAIN lower \cup {b, c}
      /\ stake_list'[c] = new_stake_record(n, 0)
      /\ stake_list'[b] = new_stake_record(0, 0)
      /\ \A x \in DOMAIN lower \ {b, c} : stake_list'[x] = lower[x]
      /\ stake_accounts'[c] = native
      /\ stake_accounts'[b] = emptied
      /\ \A x \in DOMAIN less \ {b, c} : stake_accounts'[x] = less[x]
  BY <1>1, <1>3 DEF Put
<1>8. /\ DOMAIN stake_list' = DOMAIN stake_list \cup {b, c}
      /\ a # b /\ a # c
      /\ stake_list'[a] = lower[a] /\ stake_accounts'[a] = less[a]
      /\ \A x \in DOMAIN stake_list \ {a} :
           stake_list'[x] = stake_list[x]
             /\ stake_accounts'[x] = stake_accounts[x]
  BY ONLY <1>1, <1>5, <1>6, <1>7
<1>9. MovedOnly({a, b, c})
  BY <1>1, <1>8 DEF MovedOnly, Unmoved, is_active
<1>10. Gains(a, src, - n, 0, 0)
  BY <1>1, <1>2, <1>5, <1>6, <1>8
     DEF Gains, active_at, cooling_at, is_active, last_update
<1>11. /\ src \in Validator /\ dst \in Validator
       /\ ActiveMoved(src, dst, n) /\ CoolingBooked(0, 0)
  BY <1>1, <1>2, <1>3, MoveIsBooked
<1>12. stake_list'[b].last_update_delegated_lamports = 0
  BY <1>7, NewRecordAt
<1>13. Gains(b, src, 0, 0, 0)
  BY <1>1, <1>4, <1>7, <1>12
     DEF Gains, active_at, cooling_at, is_active, last_update
<1>14. Gains(c, dst, n, 0, 0)
  BY <1>1, <1>2, <1>7, <1>8, <1>11, RedelegatedGains DEF native
<1> QED BY <1>1, <1>2, <1>8, <1>9, <1>10, <1>11, <1>13, <1>14,
           CountsThreeMoved

---------------------------------------------------------------------------
(* The instructions of users and of the manager, and the chain             *)

LEMMA DepositStakeAccountCounts ==
  ASSUME IInv, IInv', Counted, NEW a \in DOMAIN stake_accounts,
         DepositStakeAccount(a)
  PROVE  Counted'
<1> PICK v \in Validator : v = stake_accounts[a].voter
  BY StakesAreTyped DEF IInv, TypeOK, StakeTypes
<1> DEFINE n == stake_accounts[a].stake
<1>1. /\ a \in StakeAccount /\ n \in Nat /\ v \in DOMAIN validator_list
      /\ is_active(a) /\ stake_accounts[a] \in NativeStake
  BY StakesAreTyped DEF IInv, TypeOK, StakeTypes, DepositStakeAccount,
     DepositStakeAccountAllowed
<1>2. /\ stake_accounts' = [stake_accounts EXCEPT ![a].owner = "marinade"]
      /\ stake_list' = Put(stake_list, a, new_stake_record(n, 0))
      /\ a \notin DOMAIN stake_list
      /\ validator_list' =
           [validator_list EXCEPT ![v].active_balance = @ + n]
      /\ total_active_balance' = total_active_balance + n
      /\ UNCHANGED coolingVars
  BY DEF DepositStakeAccount, add_stake
<1>3. /\ stake_accounts'[a].voter = v
      /\ stake_accounts'[a].status = stake_accounts[a].status
      /\ \A x \in DOMAIN stake_accounts \ {a} :
           stake_accounts'[x] = stake_accounts[x]
  BY <1>1, <1>2 DEF NativeStake
<1> HIDE DEF n
<1>4. /\ DOMAIN stake_list' = DOMAIN stake_list \cup {a}
      /\ stake_list'[a] = new_stake_record(n, 0)
      /\ \A x \in DOMAIN stake_list : stake_list'[x] = stake_list[x]
  BY ONLY <1>2 DEF Put
<1>5. DOMAIN stake_list \subseteq DOMAIN stake_accounts
        /\ stake_list'[a].last_update_delegated_lamports = n
  BY <1>4, NewRecordAt DEF IInv, TypeOK, StakeTypes
<1>6. MovedOnly({a})
  BY <1>2, <1>3, <1>4, <1>5 DEF MovedOnly, Unmoved, is_active
<1>7. Gains(a, v, n, 0, 0)
  <2>1. /\ a \notin DOMAIN stake_list /\ a \in DOMAIN stake_list'
        /\ is_active(a)' /\ stake_accounts'[a].voter = v
        /\ last_update(a)' = n
    BY <1>1, <1>2, <1>3, <1>4, <1>5 DEF is_active, last_update
  <2> QED BY ONLY <1>1, <2>1 DEF Gains, active_at, cooling_at
<1>8. validator_list \in [DOMAIN validator_list -> ValidatorRecord]
  BY DEF IInv, TypeOK, ValidatorTypes
<1>9. BalanceWritten(v, n)
  BY <1>1, <1>2, <1>8 DEF ValidatorRecord, BalanceWritten
<1>10. v \in Validator /\ ActiveBooked(v, n) /\ CoolingBooked(0, 0)
  BY <1>1, <1>2, <1>9, WrittenIsBooked, NothingBooked
<1> QED BY <1>1, <1>6, <1>7, <1>10, CountsOne

LEMMA SplitLamportsTypes ==
  ASSUME IInv, NEW a, NEW b, NEW m \in Nat, WithdrawStakeAccount(a, b, m)
  PROVE  split_lamports(m) \in Nat
<1> DEFINE value == msol_to_sol(m)
<1>1. value \in Nat
  BY PriceTypes
<1>2. split_lamports(m)
        = value - FeeCentsApply(config.withdraw_stake_account_fee, value)
  BY DEF split_lamports
<1> HIDE DEF value
<1>3. FeeCentsApply(config.withdraw_stake_account_fee, value) \in Nat
  BY <1>1, FeeCentsIsBounded, ConfigTypes
<1>4. split_lamports(m) >= config.min_stake
  BY DEF WithdrawStakeAccount, WithdrawStakeAccountAllowed, min_stake
<1> QED BY <1>1, <1>2, <1>3, <1>4, ConfigTypes

LEMMA WithdrawStakeAccountCounts ==
  ASSUME IInv, IInv', Counted, NEW a \in DOMAIN stake_list,
         NEW b \in StakeAccount, NEW m \in Nat, WithdrawStakeAccount(a, b, m)
  PROVE  Counted'
<1> PICK v \in Validator : v = stake_accounts[a].voter
  BY StakesAreTyped DEF IInv, TypeOK, StakeTypes
<1> DEFINE n == split_lamports(m)
           native ==
             new_stake_account(v, n, stake_accounts[a].status, "user")
<1>1. /\ a \in StakeAccount /\ a \in DOMAIN stake_accounts
      /\ v \in DOMAIN validator_list /\ is_active(a)
      /\ last_update(a) \in Nat
      /\ DOMAIN stake_list \subseteq DOMAIN stake_accounts
  BY StakesAreTyped DEF IInv, TypeOK, StakeTypes, WithdrawStakeAccount,
     WithdrawStakeAccountAllowed
<1>2. n \in Nat
  BY SplitLamportsTypes
<1> HIDE DEF n
<1>3. /\ split(a, b, n, native)
      /\ stake_list' = reduced(a, n)
      /\ validator_list' =
           [validator_list EXCEPT ![v].active_balance = @ - n]
      /\ total_active_balance' = total_active_balance - n
      /\ UNCHANGED coolingVars
  BY DEF WithdrawStakeAccount, n
<1> HIDE DEF native
<1>4. /\ b \notin DOMAIN stake_accounts /\ b # a
      /\ stake_accounts'[a].status = stake_accounts[a].status
      /\ stake_accounts'[a].voter = stake_accounts[a].voter
      /\ \A x \in DOMAIN stake_accounts \ {a} :
           stake_accounts'[x] = stake_accounts[x]
  <2>1. a \in DOMAIN stake_accounts /\ split(a, b, n, native)
    BY <1>1, <1>3
  <2> QED BY ONLY IInv, <1>2, <2>1, SplitAt
<1>5. /\ DOMAIN stake_list' = DOMAIN stake_list
      /\ stake_list'[a].last_update_delegated_lamports = last_update(a) - n
      /\ \A x \in DOMAIN stake_list \ {a} : stake_list'[x] = stake_list[x]
  BY <1>2, <1>3, ReducedAt
<1>6. MovedOnly({a})
  BY <1>1, <1>4, <1>5 DEF MovedOnly, Unmoved, is_active
<1>7. Gains(a, v, - n, 0, 0)
  BY <1>1, <1>2, <1>4, <1>5
     DEF Gains, active_at, cooling_at, is_active, last_update
<1>8. /\ validator_list \in [DOMAIN validator_list -> ValidatorRecord]
      /\ validator_list[v].active_balance \in Nat
      /\ total_active_balance \in Nat
  BY <1>1 DEF IInv, TypeOK, ValidatorTypes, ValidatorRecord
<1>9. BalanceWritten(v, - n)
  BY <1>1, <1>2, <1>3, <1>8 DEF ValidatorRecord, BalanceWritten
<1>10. total_active_balance' = total_active_balance + (- n) /\ - n \in Int
  BY <1>2, <1>3, <1>8
<1>11. v \in Validator /\ ActiveBooked(v, - n) /\ CoolingBooked(0, 0)
  BY <1>1, <1>3, <1>9, <1>10, WrittenIsBooked, NothingBooked
<1> QED BY <1>1, <1>6, <1>7, <1>10, <1>11, CountsOne

\* Instructions that leave the records and their counters alone
LEMMA NothingMoved ==
  ASSUME IInv, IInv', Counted, UNCHANGED stakeVars, UNCHANGED validatorVars,
         UNCHANGED coolingVars
  PROVE  Counted'
<1>1. MovedOnly({})
  BY DEF MovedOnly, Unmoved, is_active, stakeVars
<1>2. \A w \in Validator : balance_at(w)' = balance_at(w)
  BY DEF balance_at, validatorVars
<1> QED BY <1>1, <1>2, CountsStay DEF validatorVars

LEMMA AddValidatorCounts ==
  ASSUME IInv, IInv', Counted, NEW v \in Validator, NEW score,
         AddValidator(v, score)
  PROVE  Counted'
<1>1. /\ v \notin DOMAIN validator_list
      /\ validator_list' = Put(validator_list, v, new_validator(score))
      /\ UNCHANGED <<stakeVars, coolingVars, total_active_balance>>
  BY DEF AddValidator
<1>2. MovedOnly({})
  BY <1>1 DEF MovedOnly, Unmoved, is_active, stakeVars
<1>3. new_validator(score).active_balance = 0
  BY DEF new_validator
<1>4. \A w \in Validator : balance_at(w)' = balance_at(w)
  BY <1>1, <1>3 DEF balance_at, Put
<1> QED BY <1>1, <1>2, <1>4, CountsStay

LEMMA RemoveValidatorCounts ==
  ASSUME IInv, IInv', Counted, NEW v \in DOMAIN validator_list,
         RemoveValidator(v)
  PROVE  Counted'
<1>1. /\ validator_list[v].active_balance = 0
      /\ validator_list' = Without(validator_list, v)
      /\ UNCHANGED <<stakeVars, coolingVars, total_active_balance>>
  BY DEF RemoveValidator
<1>2. MovedOnly({})
  BY <1>1 DEF MovedOnly, Unmoved, is_active, stakeVars
<1>3. \A w \in Validator : balance_at(w)' = balance_at(w)
  BY <1>1 DEF balance_at, Without
<1> QED BY <1>1, <1>2, <1>3, CountsStay

LEMMA SetValidatorScoreCounts ==
  ASSUME IInv, IInv', Counted, NEW v \in DOMAIN validator_list, NEW score,
         SetValidatorScore(v, score)
  PROVE  Counted'
<1>1. /\ validator_list' = [validator_list EXCEPT ![v].score = score]
      /\ UNCHANGED <<stakeVars, coolingVars, total_active_balance>>
  BY DEF SetValidatorScore
<1>2. MovedOnly({})
  BY <1>1 DEF MovedOnly, Unmoved, is_active, stakeVars
<1>3. validator_list \in [DOMAIN validator_list -> ValidatorRecord]
  BY DEF IInv, TypeOK, ValidatorTypes
<1>4. \A w \in Validator : balance_at(w)' = balance_at(w)
  BY <1>1, <1>3 DEF balance_at, ValidatorRecord
<1> QED BY <1>1, <1>2, <1>4, CountsStay

LEMMA NextEpochCounts ==
  ASSUME IInv, IInv', Counted, NEW rewarded \in SUBSET DOMAIN stake_accounts,
         NextEpoch(rewarded)
  PROVE  Counted'
<1> DEFINE reward(a) == IF a \in rewarded THEN 1 ELSE 0
<1>1. /\ stake_accounts' = [a \in DOMAIN stake_accounts |->
           AtEpochEnd(stake_accounts[a], reward(a))]
      /\ validator_list' = [v \in DOMAIN validator_list |->
           [validator_list[v] EXCEPT !.ran = FALSE]]
      /\ UNCHANGED <<stake_list, coolingVars, total_active_balance>>
  BY DEF NextEpoch
<1>2. /\ \A a \in DOMAIN stake_accounts : stake_accounts[a] \in NativeStake
      /\ DOMAIN stake_list \subseteq DOMAIN stake_accounts
      /\ \A v \in DOMAIN validator_list : validator_list[v] \in ValidatorRecord
  BY DEF IInv, TypeOK, StakeTypes, ValidatorTypes
<1> HIDE DEF reward
<1>3. ASSUME NEW a \in DOMAIN stake_accounts
      PROVE  /\ stake_accounts'[a].voter = stake_accounts[a].voter
             /\ is_active(a)' <=> is_active(a)
  BY <1>1, <1>2, <1>3 DEF AtEpochEnd, NativeStake, Statuses, is_active
<1>4. MovedOnly({})
  BY <1>1, <1>2, <1>3 DEF MovedOnly, Unmoved
<1>5. \A w \in Validator : balance_at(w)' = balance_at(w)
  BY <1>1, <1>2 DEF balance_at, ValidatorRecord
<1> QED BY <1>1, <1>4, <1>5, CountsStay

\* Stakers and slashes change no voter and no status of an account.
LEMMA StakersCount ==
  ASSUME IInv, IInv', Counted, StakersNext \/ SlashNext
  PROVE  Counted'
<1>1. UNCHANGED <<stake_list, validatorVars, coolingVars>>
  BY DEF StakersNext, SlashNext, UserStakes, PayStakeAccount, Slash, Nobody
<1>2. \A x \in DOMAIN stake_accounts :
        /\ stake_accounts'[x].voter = stake_accounts[x].voter
        /\ stake_accounts'[x].status = stake_accounts[x].status
  <2> SUFFICES ASSUME NEW x \in DOMAIN stake_accounts
               PROVE  /\ stake_accounts'[x].voter = stake_accounts[x].voter
                      /\ stake_accounts'[x].status = stake_accounts[x].status
    OBVIOUS
  <2>1. stake_accounts[x] \in NativeStake
          /\ stake_accounts \in [DOMAIN stake_accounts -> NativeStake]
    BY DEF IInv, TypeOK, StakeTypes
  <2>2. ASSUME NEW a \in StakeAccount, NEW v \in Validator,
               NEW l \in Lamports, UserStakes(a, v, l)
        PROVE  stake_accounts'[x] = stake_accounts[x]
    BY <2>2 DEF UserStakes, Put
  <2>3. ASSUME NEW a \in DOMAIN stake_accounts, NEW l \in Lamports,
               PayStakeAccount(a, l)
        PROVE  /\ stake_accounts'[x].voter = stake_accounts[x].voter
               /\ stake_accounts'[x].status = stake_accounts[x].status
    BY <2>1, <2>3 DEF PayStakeAccount, NativeStake
  <2>4. ASSUME NEW a \in DOMAIN stake_accounts, NEW l \in Lamports,
               Slash(a, l)
        PROVE  /\ stake_accounts'[x].voter = stake_accounts[x].voter
               /\ stake_accounts'[x].status = stake_accounts[x].status
    BY <2>1, <2>4 DEF Slash, NativeStake
  <2> QED BY <2>2, <2>3, <2>4 DEF StakersNext, SlashNext
<1>3. MovedOnly({})
  BY <1>1, <1>2 DEF MovedOnly, Unmoved, is_active, IInv, TypeOK, StakeTypes
<1>4. \A w \in Validator : balance_at(w)' = balance_at(w)
  BY <1>1 DEF balance_at, validatorVars
<1> QED BY <1>1, <1>3, <1>4, CountsStay DEF validatorVars

\* Instructions that touch neither records nor what counts them
LEMMA OthersMoveNothing ==
  ASSUME \/ \E l \in Lamports : Deposit(l)
         \/ \E t \in Ticket, m \in Lamports : OrderUnstake(t, m)
         \/ \E t \in DOMAIN tickets : Claim(t)
         \/ LiquidityPoolNext
         \/ \E v \in DOMAIN validator_list : StakeReserveReturnsEarly(v)
         \/ \E runs \in ExtraRuns : ConfigValidatorSystem(runs)
         \/ AdminNext
         \/ Tick
         \/ UnbookedNext
         \/ UNCHANGED vars
  PROVE  UNCHANGED stakeVars /\ UNCHANGED validatorVars /\ UNCHANGED coolingVars
<1>1. ASSUME NEW l \in Lamports, Deposit(l)
      PROVE  UNCHANGED <<stakeVars, validatorVars, coolingVars>>
  BY <1>1 DEF Deposit
<1>2. ASSUME NEW t \in Ticket, NEW m \in Lamports, OrderUnstake(t, m)
      PROVE  UNCHANGED <<stakeVars, validatorVars, coolingVars>>
  BY <1>2 DEF OrderUnstake
<1>3. ASSUME NEW t \in DOMAIN tickets, Claim(t)
      PROVE  UNCHANGED <<stakeVars, validatorVars, coolingVars>>
  BY <1>3 DEF Claim
<1>4. CASE LiquidityPoolNext
  BY <1>4 DEF LiquidityPoolNext, AddLiquidity, RemoveLiquidity, LiquidUnstake
<1>5. ASSUME NEW v \in DOMAIN validator_list, StakeReserveReturnsEarly(v)
      PROVE  UNCHANGED <<stakeVars, validatorVars, coolingVars>>
  BY <1>5 DEF StakeReserveReturnsEarly
<1>6. ASSUME NEW runs \in ExtraRuns, ConfigValidatorSystem(runs)
      PROVE  UNCHANGED <<stakeVars, validatorVars, coolingVars>>
  BY <1>6 DEF ConfigValidatorSystem
<1>7. CASE AdminNext
  BY <1>7 DEF AdminNext, Pause, Resume, ConfigMarinade, ConfigLp,
     ChangeAuthority, ReallocStakeList, ReallocValidatorList, Books
<1>8. CASE Tick
  BY <1>8 DEF Tick, Nobody
<1>9. CASE UnbookedNext
  BY <1>9 DEF UnbookedNext, PayReserve, BurnMsol, BurnLp, Nobody
<1>10. CASE UNCHANGED vars
  BY <1>10 DEF vars
<1> QED BY <1>1, <1>2, <1>3, <1>4, <1>5, <1>6, <1>7, <1>8, <1>9, <1>10

LEMMA InitCounts == Init => Counted
<1> SUFFICES ASSUME NEW d \in InitializeData, Initialize(d) PROVE Counted
  BY DEF Init
<1>1. DOMAIN Nothing = {}
  BY DEF Nothing
<1>2. /\ DOMAIN stake_list = {} /\ DOMAIN validator_list = {}
      /\ total_active_balance = 0
      /\ delayed_unstake_cooling_down = 0 /\ emergency_cooling_down = 0
  BY <1>1 DEF Initialize, EmptyBooks
<1>3. \A S, f : f = [x \in S |-> 0] => Total(f) = 0
  <2> SUFFICES ASSUME NEW S, NEW f, f = [x \in S |-> 0] PROVE Total(f) = 0
    OBVIOUS
  <2>1. Units(f) = {}
    BY DEF Units
  <2> QED BY <2>1, FS_EmptySet DEF Total
<1>4. \A v \in Validator : Total(ActiveStake(v)) = 0
  BY <1>2, <1>3 DEF ActiveStake, active_at
<1>5. Total(CoolingStake(0)) = 0 /\ Total(CoolingStake(1)) = 0
  BY <1>2, <1>3 DEF CoolingStake, cooling_at
<1>6. Total(Balances) = 0
  BY <1>2, <1>3 DEF Balances, balance_at
<1> QED BY <1>2, <1>4, <1>5, <1>6 DEF Counted, balance_at

LEMMA NextCounts == IInv /\ IInv' /\ Counted /\ [Next]_vars => Counted'
<1> SUFFICES ASSUME IInv, IInv', Counted, [Next]_vars PROVE Counted'
  OBVIOUS
<1>0. Lamports \subseteq Nat
  BY ConstantTypes
<1>1. CASE \/ \E l \in Lamports : Deposit(l)
           \/ \E t \in Ticket, m \in Lamports : OrderUnstake(t, m)
           \/ \E t \in DOMAIN tickets : Claim(t)
           \/ LiquidityPoolNext
           \/ \E v \in DOMAIN validator_list : StakeReserveReturnsEarly(v)
           \/ \E runs \in ExtraRuns : ConfigValidatorSystem(runs)
           \/ AdminNext
           \/ Tick
           \/ UnbookedNext
           \/ UNCHANGED vars
  BY <1>1, OthersMoveNothing, NothingMoved
<1>2. CASE StakeAccountsNext
  BY <1>0, <1>2, DepositStakeAccountCounts, WithdrawStakeAccountCounts
     DEF StakeAccountsNext
<1>3. CASE /\ CrankNext
           /\ ~ \E v \in DOMAIN validator_list : StakeReserveReturnsEarly(v)
  BY <1>3, UpdateActiveCounts, UpdateDeactivatedCounts, StakeReserveCounts,
     DeactivateWholeStakeCounts, DeactivateSplitStakeCounts, MergeStakesCounts
     DEF CrankNext
<1>4. CASE RedelegateNext
  BY <1>4, RedelegateWholeStakeCounts, RedelegateSplitStakeCounts
     DEF RedelegateNext
<1>5. CASE UnstakeNext
  BY <1>0, <1>5, EmergencyUnstakeCounts, PartialUnstakeWholeCounts,
     PartialUnstakeSplitCounts DEF UnstakeNext
<1>6. CASE /\ ValidatorsNext
           /\ ~ \E runs \in ExtraRuns : ConfigValidatorSystem(runs)
  BY <1>6, AddValidatorCounts, RemoveValidatorCounts, SetValidatorScoreCounts
     DEF ValidatorsNext
<1>7. CASE ClockNext /\ ~ Tick
  BY <1>7, NextEpochCounts DEF ClockNext
<1>8. CASE StakersNext \/ SlashNext
  BY <1>8, StakersCount
<1> QED BY <1>1, <1>2, <1>3, <1>4, <1>5, <1>6, <1>7, <1>8
        DEF Next, UnslashedNext, ProgramNext, UsersNext

\* Through every split, merge, redelegation, update, deposit and withdrawal of
\* stake accounts, a validator's active_balance is what its records say, and
\* the two cooling counters are what is being deactivated: no instruction that
\* subtracts a record from a counter can fail on it, and nothing that the
\* clock, stakers or a slash do with the accounts disturbs it.
THEOREM StakeStaysCounted == Spec => []StakeIsCounted
<1>1. Init => IInv /\ Counted
  BY InitKeeps, InitCounts
<1>2. IInv /\ Counted /\ [Next]_vars => (IInv /\ Counted)'
  BY NextKeeps, NextCounts
<1>3. IInv /\ Counted => StakeIsCounted
  BY CountedOverAddresses
<1> QED BY <1>1, <1>2, <1>3, PTL DEF Spec

---------------------------------------------------------------------------
(* Stake accounts hold what the list counts for them                       *)

\* An account that earns has what the record says delegated as well, so that
\* update_active finds nothing lost.  A deactivated one may hold less than its
\* delegation: what a redelegation took from it, its record has lost too.
BackedAt(a) ==
  /\ stake_accounts[a].owner = "marinade"
  /\ last_update(a) <= stake_accounts[a].balance
  /\ is_active(a) => last_update(a) <= stake_accounts[a].stake

Backed == \A a \in DOMAIN stake_list : BackedAt(a)

KeptOutside(S) ==
  \A x \in DOMAIN stake_list' \ S :
    /\ x \in DOMAIN stake_list
    /\ stake_list'[x] = stake_list[x]
    /\ stake_accounts'[x] = stake_accounts[x]

LEMMA BackedOutside ==
  ASSUME Backed, NEW S, KeptOutside(S),
         \A x \in S : x \in DOMAIN stake_list' => BackedAt(x)'
  PROVE  Backed'
BY DEF Backed, BackedAt, KeptOutside, last_update, is_active

LEMMA UpdateActiveBacks ==
  ASSUME IInv, Backed, NEW a \in DOMAIN stake_list, UpdateActive(a)
  PROVE  Backed'
<1>1. /\ a \in DOMAIN stake_accounts /\ stake_accounts[a].stake \in Nat
      /\ DOMAIN stake_list \subseteq DOMAIN stake_accounts
  BY StakesAreTyped DEF IInv, TypeOK, StakeTypes
<1>2. KeptOutside({a})
  BY <1>1, UpdateActiveAt DEF KeptOutside
<1>3. BackedAt(a)'
  BY <1>1, UpdateActiveAt DEF Backed, BackedAt, last_update, is_active
<1> QED BY <1>2, <1>3, BackedOutside

LEMMA UpdateDeactivatedBacks ==
  ASSUME IInv, Backed, NEW a \in DOMAIN stake_list, UpdateDeactivated(a)
  PROVE  Backed'
<1>1. /\ stake_list' = Without(stake_list, a)
      /\ stake_accounts' = Without(stake_accounts, a)
  BY DEF UpdateDeactivated
<1>2. KeptOutside({})
  BY <1>1 DEF KeptOutside, Without, IInv, TypeOK, StakeTypes
<1> QED BY <1>2, BackedOutside

\* A new account that holds what its record says
LEMMA NewIsBacked ==
  ASSUME NEW x, NEW n \in Nat, NEW v, NEW status, NEW e,
         stake_list'[x] = new_stake_record(n, e),
         stake_accounts'[x] = new_stake_account(v, n, status, "marinade")
  PROVE  BackedAt(x)'
BY DEF BackedAt, last_update, new_stake_record, new_stake_account

LEMMA StakeReserveBacks ==
  ASSUME IInv, Backed, NEW v \in DOMAIN validator_list,
         NEW a \in StakeAccount, StakeReserve(v, a)
  PROVE  Backed'
<1> DEFINE n == reserve_stake_target(v)
           native == new_stake_account(v, n, "activating", "marinade")
<1>1. n \in Nat
  BY ReserveTargetTypes DEF StakeReserve, TakeStakeRun
<1>2. /\ stake_accounts' = Put(stake_accounts, a, native)
      /\ stake_list' = Put(stake_list, a, new_stake_record(n, 0))
  BY DEF StakeReserve, add_stake
<1> HIDE DEF n, native
<1>3. /\ KeptOutside({a})
      /\ stake_list'[a] = new_stake_record(n, 0)
      /\ stake_accounts'[a] = native
  BY <1>2 DEF KeptOutside, Put, IInv, TypeOK, StakeTypes
<1>4. BackedAt(a)'
  BY <1>1, <1>3, NewIsBacked DEF native
<1> QED BY <1>3, <1>4, BackedOutside

\* Deactivating a whole account takes nothing from it.
LEMMA WholeAccountBacks ==
  ASSUME IInv, Backed, NEW a \in DOMAIN stake_list, is_active(a),
         stake_accounts' =
           [stake_accounts EXCEPT ![a] = deactivated(stake_accounts[a])],
         NEW e \in {0, 1}, MarkedAs(a, e)
  PROVE  Backed'
<1> DEFINE native == stake_accounts[a]
<1>1. /\ a \in DOMAIN stake_accounts
      /\ stake_accounts \in [DOMAIN stake_accounts -> NativeStake]
      /\ DOMAIN stake_list \subseteq DOMAIN stake_accounts
      /\ native \in NativeStake /\ native.status \in {"activating", "active"}
  BY DEF IInv, TypeOK, StakeTypes, is_active
<1>2. stake_accounts'[a] = deactivated(native)
  BY <1>1
<1>3. KeptOutside({a})
  BY <1>1 DEF KeptOutside, MarkedAs
<1>4. native.owner = "marinade" /\ last_update(a) <= native.balance
  BY DEF Backed, BackedAt
<1> HIDE DEF native
<1>5. /\ deactivated(native).balance = native.balance
      /\ deactivated(native).owner = native.owner
      /\ deactivated(native).status \in {"inactive", "deactivating"}
  BY <1>1, DeactivatedAt
<1>6. BackedAt(a)'
  BY <1>2, <1>4, <1>5 DEF BackedAt, MarkedAs, last_update, is_active
<1> QED BY <1>3, <1>6, BackedOutside

LEMMA DeactivateWholeStakeBacks ==
  ASSUME IInv, Backed, NEW a \in DOMAIN stake_list, DeactivateWholeStake(a)
  PROVE  Backed'
<1>1. /\ is_active(a) /\ stake_list[a].is_emergency_unstaking = 0
      /\ stake_accounts' =
           [stake_accounts EXCEPT ![a] = deactivated(stake_accounts[a])]
      /\ stake_list' = stake_list
  BY DEF DeactivateWholeStake, DeactivateStakeAllowed
<1>2. MarkedAs(a, 0)
  BY <1>1 DEF MarkedAs, last_update
<1> QED BY <1>1, <1>2, WholeAccountBacks

LEMMA WholeEmergencyBacks ==
  ASSUME IInv, Backed, NEW a \in DOMAIN stake_list, is_active(a),
         UnstakeWholeAccount(a)
  PROVE  Backed'
<1>1. stake_list[a] \in StakeRecord
        /\ stake_list \in [DOMAIN stake_list -> StakeRecord]
  BY DEF IInv, TypeOK, StakeTypes
<1>2. MarkedAs(a, 1)
  BY <1>1 DEF UnstakeWholeAccount, MarkedAs, last_update, StakeRecord
<1> QED BY <1>2, WholeAccountBacks DEF UnstakeWholeAccount

\* The source of a split keeps what its record keeps.
LEMMA SourceIsBacked ==
  ASSUME IInv, Backed, NEW a \in DOMAIN stake_list, NEW n \in Nat,
         stake_accounts'[a].stake = stake_accounts[a].stake - n,
         stake_accounts'[a].balance = stake_accounts[a].balance - n,
         stake_accounts'[a].status = stake_accounts[a].status,
         stake_accounts'[a].owner = stake_accounts[a].owner,
         stake_list'[a].last_update_delegated_lamports = last_update(a) - n
  PROVE  BackedAt(a)'
<1>1. /\ stake_accounts[a].stake \in Nat /\ stake_accounts[a].balance \in Nat
      /\ last_update(a) \in Nat
  BY StakesAreTyped DEF IInv, TypeOK, StakeTypes
<1>2. BackedAt(a)
  BY DEF Backed
<1>3. last_update(a)' = last_update(a) - n
  BY DEF last_update
<1> QED BY <1>1, <1>2, <1>3 DEF BackedAt, is_active

LEMMA SplitAccountBacks ==
  ASSUME IInv, Backed, NEW a \in DOMAIN stake_list, NEW b \in StakeAccount,
         NEW n \in Nat, NEW native, NEW e,
         split(a, b, n, native), stake_list' = with_split(a, b, n, e),
         native.owner = "marinade", native.balance = n,
         native.status \in {"inactive", "deactivating"}
  PROVE  Backed'
<1>1. a \in DOMAIN stake_accounts
        /\ DOMAIN stake_list \subseteq DOMAIN stake_accounts
  BY DEF IInv, TypeOK, StakeTypes
<1>2. /\ b \notin DOMAIN stake_accounts /\ b # a
      /\ stake_accounts'[b] = native
      /\ stake_accounts'[a].stake = stake_accounts[a].stake - n
      /\ stake_accounts'[a].balance = stake_accounts[a].balance - n
      /\ stake_accounts'[a].status = stake_accounts[a].status
      /\ stake_accounts'[a].owner = stake_accounts[a].owner
      /\ \A x \in DOMAIN stake_accounts \ {a} :
           stake_accounts'[x] = stake_accounts[x]
  <2>1. a \in DOMAIN stake_accounts /\ split(a, b, n, native)
    BY <1>1
  <2> QED BY ONLY IInv, n \in Nat, <2>1, SplitAt
<1> DEFINE lower == reduced(a, n)
<1>3. stake_list' = Put(lower, b, new_stake_record(n, e))
  BY DEF with_split
<1>4. /\ DOMAIN lower = DOMAIN stake_list
      /\ lower[a].last_update_delegated_lamports = last_update(a) - n
      /\ \A x \in DOMAIN stake_list \ {a} : lower[x] = stake_list[x]
  BY ReducedAt
<1> HIDE DEF lower
<1>5. /\ DOMAIN stake_list' = DOMAIN lower \cup {b}
      /\ stake_list'[b] = new_stake_record(n, e)
      /\ \A x \in DOMAIN lower \ {b} : stake_list'[x] = lower[x]
  BY ONLY <1>3 DEF Put
<1>6. KeptOutside({a, b}) /\ stake_list'[a] = lower[a]
  BY ONLY <1>1, <1>2, <1>4, <1>5, a \in DOMAIN stake_list DEF KeptOutside
<1>7. BackedAt(a)'
  BY <1>2, <1>4, <1>6, SourceIsBacked
<1>8. BackedAt(b)'
  <2>1. stake_list'[b].last_update_delegated_lamports = n
    BY <1>5, NewRecordAt
  <2> QED BY <1>2, <2>1 DEF BackedAt, last_update, is_active
<1> QED BY <1>6, <1>7, <1>8, BackedOutside

LEMMA DeactivateSplitStakeBacks ==
  ASSUME IInv, Backed, NEW a \in DOMAIN stake_list, NEW b \in StakeAccount,
         DeactivateSplitStake(a, b)
  PROVE  Backed'
<1> PICK v \in Validator : v = stake_accounts[a].voter
  BY StakesAreTyped DEF IInv, TypeOK, StakeTypes
<1> DEFINE n == last_update(a) - stake_account_target(a, v)
           native == deactivated(new_stake_account(v, n,
                       stake_accounts[a].status, "marinade"))
<1>1. /\ a \in DOMAIN stake_accounts /\ v \in DOMAIN validator_list
      /\ is_active(a) /\ stake_delta < 0 /\ v \in Validator
  BY StakesAreTyped DEF IInv, TypeOK, StakeTypes, DeactivateSplitStake,
         DeactivateStakeAllowed
<1>2. n \in Nat
  BY <1>1, StakeAccountTargetTypes, StakesAreTyped
<1> HIDE DEF n
<1>3. split(a, b, n, native) /\ stake_list' = with_split(a, b, n, 0)
  BY DEF DeactivateSplitStake, n
<1>4. /\ native.owner = "marinade" /\ native.balance = n
      /\ native.status \in {"inactive", "deactivating"}
  BY <1>1, <1>2, NewAccountCools DEF is_active
<1> HIDE DEF native
<1> QED BY <1>2, <1>3, <1>4, SplitAccountBacks

LEMMA PartialUnstakeSplitBacks ==
  ASSUME IInv, Backed, NEW a \in DOMAIN stake_list, NEW b \in StakeAccount,
         NEW desired \in Nat, PartialUnstakeSplit(a, b, desired)
  PROVE  Backed'
<1> PICK v \in Validator : v = stake_accounts[a].voter
  BY StakesAreTyped DEF IInv, TypeOK, StakeTypes
<1> DEFINE n == Lesser(desired, over_target(v))
           native == deactivated(new_stake_account(v, n,
                       stake_accounts[a].status, "marinade"))
<1>1. is_active(a) /\ PartialUnstakeAllowed(a, v, desired)
  BY DEF PartialUnstakeSplit, PartialUnstakeAllowed
<1>2. n \in Nat
  BY <1>1, OverTargetTypes
<1> HIDE DEF n
<1>3. split(a, b, n, native) /\ stake_list' = with_split(a, b, n, 1)
  BY DEF PartialUnstakeSplit, n
<1>4. /\ native.owner = "marinade" /\ native.balance = n
      /\ native.status \in {"inactive", "deactivating"}
  BY <1>1, <1>2, NewAccountCools DEF is_active
<1> HIDE DEF native
<1> QED BY <1>2, <1>3, <1>4, SplitAccountBacks

LEMMA MergeStakesBacks ==
  ASSUME IInv, Backed, NEW dst \in DOMAIN stake_list,
         NEW src \in DOMAIN stake_list, MergeStakes(dst, src)
  PROVE  Backed'
<1> DEFINE n == last_update(src) + extra_delegated(dst)
<1>1. /\ n \in Nat /\ last_update(dst) \in Nat
      /\ dst \in DOMAIN stake_accounts
      /\ stake_accounts[dst].stake \in Nat
      /\ stake_accounts[dst].balance \in Nat
      /\ DOMAIN stake_list \subseteq DOMAIN stake_accounts
  BY StakesAreTyped, ConstantTypes
     DEF IInv, TypeOK, StakeTypes, extra_delegated
<1> HIDE DEF n
<1>2. /\ dst # src
      /\ stake_accounts' = Without(
           [stake_accounts EXCEPT ![dst].stake = @ + n,
                                  ![dst].balance = @ + n], src)
      /\ stake_list' = Without(
           [stake_list EXCEPT ![dst].last_update_delegated_lamports = @ + n],
           src)
  BY DEF MergeStakes, n
<1>3. /\ DOMAIN stake_list' = DOMAIN stake_list \ {src}
      /\ stake_list'[dst].last_update_delegated_lamports
           = last_update(dst) + n
      /\ stake_accounts'[dst].stake = stake_accounts[dst].stake + n
      /\ stake_accounts'[dst].balance = stake_accounts[dst].balance + n
      /\ stake_accounts'[dst].status = stake_accounts[dst].status
      /\ stake_accounts'[dst].owner = stake_accounts[dst].owner
      /\ \A x \in DOMAIN stake_list \ {dst, src} :
           /\ stake_list'[x] = stake_list[x]
           /\ stake_accounts'[x] = stake_accounts[x]
  BY <1>1, <1>2, MergedAt
<1>4. KeptOutside({dst})
  BY ONLY <1>3 DEF KeptOutside
<1>5. BackedAt(dst)
  BY DEF Backed
<1>6. last_update(dst)' = last_update(dst) + n
  BY <1>3 DEF last_update
<1>7. BackedAt(dst)'
  BY ONLY <1>1, <1>3, <1>5, <1>6 DEF BackedAt, is_active
<1> QED BY <1>4, <1>7, BackedOutside

\* An account that a redelegation leaves behind: nothing is counted for it.
LEMMA EmptiedIsBacked ==
  ASSUME NEW x, stake_list'[x] = new_stake_record(0, 0),
         stake_accounts'[x].owner = "marinade",
         stake_accounts'[x].balance \in Nat,
         stake_accounts'[x].status \in {"inactive", "deactivating"}
  PROVE  BackedAt(x)'
BY NewRecordAt DEF BackedAt, last_update, is_active

LEMMA RedelegateWholeStakeBacks ==
  ASSUME IInv, Backed, NEW a \in DOMAIN stake_list,
         NEW dst \in DOMAIN validator_list, NEW c \in StakeAccount,
         RedelegateWholeStake(a, dst, c)
  PROVE  Backed'
<1> DEFINE n == last_update(a)
           emptied == [deactivated(stake_accounts[a]) EXCEPT !.balance = @ - n]
           native == new_stake_account(dst, n, "activating", "marinade")
           hollow == [stake_accounts EXCEPT ![a] = emptied]
           zeroed == [stake_list EXCEPT ![a] = new_stake_record(0, 0)]
<1>1. /\ a \in DOMAIN stake_accounts /\ n \in Nat
      /\ stake_accounts[a].status = "active"
      /\ n <= stake_accounts[a].balance /\ stake_accounts[a].balance \in Nat
      /\ c \notin DOMAIN stake_accounts
      /\ DOMAIN stake_list \subseteq DOMAIN stake_accounts
      /\ stake_accounts[a] \in NativeStake
      /\ stake_accounts[a].owner = "marinade"
  BY StakesAreTyped
     DEF IInv, TypeOK, StakeTypes, RedelegateWholeStake, RedelegateAllowed,
         Backed, BackedAt
<1>2. /\ stake_accounts' = Put(hollow, c, native)
      /\ stake_list' = Put(zeroed, c, new_stake_record(n, 0))
  BY DEF RedelegateWholeStake
<1>3. /\ emptied.status \in {"inactive", "deactivating"}
      /\ emptied.owner = "marinade"
      /\ emptied.balance \in Nat
  BY <1>1 DEF deactivated, NativeStake
<1>4. /\ DOMAIN hollow = DOMAIN stake_accounts /\ hollow[a] = emptied
      /\ \A x \in DOMAIN stake_accounts \ {a} : hollow[x] = stake_accounts[x]
  BY <1>1
<1>5. /\ DOMAIN zeroed = DOMAIN stake_list
      /\ zeroed[a] = new_stake_record(0, 0)
      /\ \A x \in DOMAIN stake_list \ {a} : zeroed[x] = stake_list[x]
  BY <1>1
<1> HIDE DEF hollow, zeroed, emptied, native
<1>6. /\ DOMAIN stake_list' = DOMAIN zeroed \cup {c}
      /\ stake_list'[c] = new_stake_record(n, 0)
      /\ \A x \in DOMAIN zeroed \ {c} : stake_list'[x] = zeroed[x]
      /\ stake_accounts'[c] = native
      /\ \A x \in DOMAIN hollow \ {c} : stake_accounts'[x] = hollow[x]
  BY <1>2 DEF Put
<1>7. /\ KeptOutside({a, c}) /\ a # c
      /\ stake_list'[a] = new_stake_record(0, 0)
      /\ stake_accounts'[a] = emptied
  BY ONLY <1>1, <1>4, <1>5, <1>6, a \in DOMAIN stake_list DEF KeptOutside
<1>8. BackedAt(a)'
  BY <1>3, <1>7, EmptiedIsBacked
<1> HIDE DEF n
<1>9. BackedAt(c)'
  BY <1>1, <1>6, NewIsBacked DEF native
<1> QED BY <1>7, <1>8, <1>9, BackedOutside

LEMMA RedelegateSplitStakeBacks ==
  ASSUME IInv, Backed, NEW a \in DOMAIN stake_list,
         NEW dst \in DOMAIN validator_list,
         NEW b \in StakeAccount, NEW c \in StakeAccount,
         RedelegateSplitStake(a, dst, b, c)
  PROVE  Backed'
<1> PICK src \in Validator : src = stake_accounts[a].voter
  BY StakesAreTyped DEF IInv, TypeOK, StakeTypes
<1> DEFINE n == redelegate_amount(a, src, dst)
           native == new_stake_account(dst, n, "activating", "marinade")
           emptied ==
             [new_stake_account(src, n, "deactivating", "marinade")
                EXCEPT !.balance = 0]
           less == [stake_accounts EXCEPT ![a].stake = @ - n,
                                          ![a].balance = @ - n]
           lower == reduced(a, n)
<1>1. /\ a \in DOMAIN stake_accounts
      /\ b \notin DOMAIN stake_accounts /\ c \notin DOMAIN stake_accounts
      /\ b # c /\ DOMAIN stake_list \subseteq DOMAIN stake_accounts
      /\ stake_accounts[a] \in NativeStake
  BY StakesAreTyped DEF IInv, TypeOK, StakeTypes, RedelegateSplitStake
<1>2. n \in Nat
  BY RedelegateAmountTypes DEF RedelegateSplitStake
<1> HIDE DEF n
<1>3. /\ stake_accounts' = Put(Put(less, b, emptied), c, native)
      /\ stake_list' = Put(Put(lower, b, new_stake_record(0, 0)),
                           c, new_stake_record(n, 0))
  BY DEF RedelegateSplitStake, n
<1>4. /\ emptied.status = "deactivating" /\ emptied.balance = 0
      /\ emptied.owner = "marinade"
  BY DEF new_stake_account
<1>5. /\ DOMAIN less = DOMAIN stake_accounts
      /\ less[a].stake = stake_accounts[a].stake - n
      /\ less[a].balance = stake_accounts[a].balance - n
      /\ less[a].status = stake_accounts[a].status
      /\ less[a].owner = stake_accounts[a].owner
      /\ \A x \in DOMAIN stake_accounts \ {a} : less[x] = stake_accounts[x]
  BY <1>1 DEF NativeStake
<1>6. /\ DOMAIN lower = DOMAIN stake_list
      /\ lower[a].last_update_delegated_lamports = last_update(a) - n
      /\ \A x \in DOMAIN stake_list \ {a} : lower[x] = stake_list[x]
  BY <1>2, ReducedAt
<1> HIDE DEF less, lower, emptied, native
<1>7. /\ DOMAIN stake_list' = DOMAIN lower \cup {b, c}
      /\ stake_list'[c] = new_stake_record(n, 0)
      /\ stake_list'[b] = new_stake_record(0, 0)
      /\ \A x \in DOMAIN lower \ {b, c} : stake_list'[x] = lower[x]
      /\ stake_accounts'[c] = native
      /\ stake_accounts'[b] = emptied
      /\ \A x \in DOMAIN less \ {b, c} : stake_accounts'[x] = less[x]
  BY <1>1, <1>3 DEF Put
<1>8. /\ KeptOutside({a, b, c})
      /\ stake_list'[a] = lower[a] /\ stake_accounts'[a] = less[a]
  BY ONLY <1>1, <1>5, <1>6, <1>7, a \in DOMAIN stake_list DEF KeptOutside
<1>9. BackedAt(a)'
  BY <1>2, <1>5, <1>6, <1>8, SourceIsBacked
<1>10. BackedAt(b)'
  BY <1>4, <1>7, EmptiedIsBacked
<1>11. BackedAt(c)'
  BY <1>2, <1>7, NewIsBacked DEF native
<1> QED BY <1>8, <1>9, <1>10, <1>11, BackedOutside

LEMMA DepositStakeAccountBacks ==
  ASSUME IInv, Backed, NEW a \in DOMAIN stake_accounts, DepositStakeAccount(a)
  PROVE  Backed'
<1> DEFINE native == stake_accounts[a]
           n == native.stake
<1>1. /\ native \in NativeStake /\ n \in Nat /\ native.balance = n
      /\ stake_accounts' = [stake_accounts EXCEPT ![a].owner = "marinade"]
      /\ stake_list' = Put(stake_list, a, new_stake_record(n, 0))
  BY StakesAreTyped DEF DepositStakeAccount, add_stake,
     DepositStakeAccountAllowed
<1>2. /\ stake_accounts'[a].owner = "marinade"
      /\ stake_accounts'[a].stake = n /\ stake_accounts'[a].balance = n
      /\ \A x \in DOMAIN stake_accounts \ {a} :
           stake_accounts'[x] = stake_accounts[x]
  BY <1>1 DEF NativeStake
<1>3. DOMAIN stake_list \subseteq DOMAIN stake_accounts
  BY DEF IInv, TypeOK, StakeTypes
<1> HIDE DEF n
<1>4. KeptOutside({a}) /\ stake_list'[a] = new_stake_record(n, 0)
  BY <1>1, <1>2, <1>3 DEF KeptOutside, Put
<1>5. last_update(a)' = n
  BY <1>4, NewRecordAt DEF last_update
<1>6. BackedAt(a)'
  BY ONLY <1>1, <1>2, <1>5 DEF BackedAt, is_active
<1> QED BY <1>4, <1>6, BackedOutside

LEMMA WithdrawStakeAccountBacks ==
  ASSUME IInv, Backed, NEW a \in DOMAIN stake_list, NEW b \in StakeAccount,
         NEW m \in Nat, WithdrawStakeAccount(a, b, m)
  PROVE  Backed'
<1> DEFINE n == split_lamports(m)
           native == new_stake_account(stake_accounts[a].voter, n,
                                       stake_accounts[a].status, "user")
<1>1. /\ a \in DOMAIN stake_accounts /\ n \in Nat
      /\ DOMAIN stake_list \subseteq DOMAIN stake_accounts
  BY SplitLamportsTypes DEF IInv, TypeOK, StakeTypes
<1> HIDE DEF n
<1>2. split(a, b, n, native) /\ stake_list' = reduced(a, n)
  BY DEF WithdrawStakeAccount, n
<1> HIDE DEF native
<1>3. /\ b \notin DOMAIN stake_accounts
      /\ stake_accounts'[a].stake = stake_accounts[a].stake - n
      /\ stake_accounts'[a].balance = stake_accounts[a].balance - n
      /\ stake_accounts'[a].status = stake_accounts[a].status
      /\ stake_accounts'[a].owner = stake_accounts[a].owner
      /\ \A x \in DOMAIN stake_accounts \ {a} :
           stake_accounts'[x] = stake_accounts[x]
  <2>1. a \in DOMAIN stake_accounts /\ split(a, b, n, native)
    BY <1>1, <1>2
  <2>2. n \in Nat
    BY <1>1
  <2> QED BY ONLY IInv, <2>1, <2>2, SplitAt
<1>4. /\ DOMAIN stake_list' = DOMAIN stake_list
      /\ stake_list'[a].last_update_delegated_lamports = last_update(a) - n
      /\ \A x \in DOMAIN stake_list \ {a} : stake_list'[x] = stake_list[x]
  BY <1>1, <1>2, ReducedAt
<1>5. KeptOutside({a})
  BY ONLY <1>1, <1>3, <1>4 DEF KeptOutside
<1>6. BackedAt(a)'
  BY <1>1, <1>3, <1>4, SourceIsBacked
<1> QED BY <1>5, <1>6, BackedOutside

\* Steps that take nothing from an account and make none active
Untaken(x) ==
  /\ stake_accounts'[x].owner = stake_accounts[x].owner
  /\ stake_accounts'[x].balance \in Nat
  /\ stake_accounts'[x].stake \in Nat
  /\ stake_accounts'[x].balance >= stake_accounts[x].balance
  /\ stake_accounts'[x].stake >= stake_accounts[x].stake
  /\ is_active(x)' => is_active(x)

LEMMA UntakenIsBacked ==
  ASSUME IInv, Backed, UNCHANGED stake_list,
         \A x \in DOMAIN stake_list : Untaken(x)
  PROVE  Backed'
<1> SUFFICES ASSUME NEW x \in DOMAIN stake_list PROVE BackedAt(x)'
  BY DEF Backed
<1>1. BackedAt(x) /\ Untaken(x) /\ last_update(x)' = last_update(x)
  BY DEF Backed, last_update
<1>2. /\ last_update(x) \in Nat /\ stake_accounts[x].balance \in Nat
      /\ stake_accounts[x].stake \in Nat
  BY StakesAreTyped DEF IInv, TypeOK, StakeTypes
<1> QED BY ONLY <1>1, <1>2 DEF BackedAt, Untaken

LEMMA NextEpochBacks ==
  ASSUME IInv, Backed, NEW rewarded \in SUBSET DOMAIN stake_accounts,
         NextEpoch(rewarded)
  PROVE  Backed'
<1> DEFINE reward(x) == IF x \in rewarded THEN 1 ELSE 0
<1>1. /\ stake_accounts' = [x \in DOMAIN stake_accounts |->
           AtEpochEnd(stake_accounts[x], reward(x))]
      /\ UNCHANGED stake_list
  BY DEF NextEpoch
<1>2. \A x : reward(x) \in Nat
  OBVIOUS
<1> HIDE DEF reward
<1>3. ASSUME NEW x \in DOMAIN stake_list PROVE Untaken(x)
  <2>1. /\ x \in DOMAIN stake_accounts /\ stake_accounts[x] \in NativeStake
        /\ stake_accounts'[x] = AtEpochEnd(stake_accounts[x], reward(x))
    BY <1>1, <1>3 DEF IInv, TypeOK, StakeTypes
  <2> QED BY <1>2, <2>1
          DEF Untaken, AtEpochEnd, NativeStake, Statuses, is_active
<1> QED BY <1>1, <1>3, UntakenIsBacked

LEMMA StakersBack ==
  ASSUME IInv, Backed, StakersNext
  PROVE  Backed'
<1>1. UNCHANGED stake_list
  BY DEF StakersNext, UserStakes, PayStakeAccount
<1>2. ASSUME NEW x \in DOMAIN stake_list PROVE Untaken(x)
  <2>1. /\ stake_accounts[x] \in NativeStake /\ x \in DOMAIN stake_accounts
        /\ stake_accounts \in [DOMAIN stake_accounts -> NativeStake]
    BY <1>2 DEF IInv, TypeOK, StakeTypes
  <2>2. ASSUME NEW a \in StakeAccount, NEW v \in Validator,
               NEW l \in Lamports, UserStakes(a, v, l)
        PROVE  Untaken(x)
    <3>1. stake_accounts'[x] = stake_accounts[x]
      BY <2>1, <2>2 DEF UserStakes, Put
    <3> QED BY <2>1, <3>1 DEF Untaken, is_active, NativeStake
  <2>3. ASSUME NEW a \in DOMAIN stake_accounts, NEW l \in Lamports,
               PayStakeAccount(a, l)
        PROVE  Untaken(x)
    <3>1. l \in Nat
      BY ConstantTypes
    <3>2. stake_accounts' =
            [stake_accounts EXCEPT ![a].balance = @ + l]
      BY <2>3 DEF PayStakeAccount
    <3>3. \/ stake_accounts'[x] = stake_accounts[x]
          \/ stake_accounts'[x] = [stake_accounts[x] EXCEPT !.balance = @ + l]
      BY <2>1, <3>2
    <3> QED BY <2>1, <3>1, <3>3 DEF Untaken, NativeStake, is_active
  <2> QED BY <2>2, <2>3 DEF StakersNext
<1> QED BY <1>1, <1>2, UntakenIsBacked

LEMMA StakesUnchangedBack ==
  ASSUME Backed, UNCHANGED stakeVars
  PROVE  Backed'
BY DEF stakeVars, Backed, BackedAt, last_update, is_active

LEMMA InitBacks == Init => Backed
<1> SUFFICES ASSUME NEW d \in InitializeData, Initialize(d) PROVE Backed
  BY DEF Init
<1> QED BY DEF Initialize, EmptyBooks, Nothing, Backed

LEMMA NextBacks == IInv /\ Backed /\ [UnslashedNext]_vars => Backed'
<1> SUFFICES ASSUME IInv, Backed, [UnslashedNext]_vars PROVE Backed'
  OBVIOUS
<1>0. Lamports \subseteq Nat
  BY ConstantTypes
<1>1. CASE \/ \E l \in Lamports : Deposit(l)
           \/ \E t \in Ticket, m \in Lamports : OrderUnstake(t, m)
           \/ \E t \in DOMAIN tickets : Claim(t)
           \/ LiquidityPoolNext
           \/ \E v \in DOMAIN validator_list : StakeReserveReturnsEarly(v)
           \/ \E runs \in ExtraRuns : ConfigValidatorSystem(runs)
           \/ AdminNext
           \/ Tick
           \/ UnbookedNext
           \/ UNCHANGED vars
  BY <1>1, OthersMoveNothing, StakesUnchangedBack
<1>2. CASE StakeAccountsNext
  BY <1>0, <1>2, DepositStakeAccountBacks, WithdrawStakeAccountBacks
     DEF StakeAccountsNext
<1>3. CASE /\ CrankNext
           /\ ~ \E v \in DOMAIN validator_list : StakeReserveReturnsEarly(v)
  BY <1>3, UpdateActiveBacks, UpdateDeactivatedBacks, StakeReserveBacks,
     DeactivateWholeStakeBacks, DeactivateSplitStakeBacks, MergeStakesBacks
     DEF CrankNext
<1>4. CASE RedelegateNext
  BY <1>4, RedelegateWholeStakeBacks, RedelegateSplitStakeBacks
     DEF RedelegateNext
<1>5. CASE UnstakeNext
  <2>1. ASSUME NEW a \in DOMAIN stake_list, EmergencyUnstake(a)
        PROVE  Backed'
    BY <2>1, WholeEmergencyBacks DEF EmergencyUnstake
  <2>2. ASSUME NEW a \in DOMAIN stake_list, NEW l \in Lamports,
               PartialUnstakeWhole(a, l)
        PROVE  Backed'
    BY <2>2, WholeEmergencyBacks DEF PartialUnstakeWhole, PartialUnstakeAllowed
  <2> QED BY <1>0, <1>5, <2>1, <2>2, PartialUnstakeSplitBacks DEF UnstakeNext
<1>6. CASE /\ ValidatorsNext
           /\ ~ \E runs \in ExtraRuns : ConfigValidatorSystem(runs)
  <2>1. UNCHANGED stakeVars
    BY <1>6 DEF ValidatorsNext, AddValidator, RemoveValidator,
       SetValidatorScore
  <2> QED BY <2>1, StakesUnchangedBack
<1>7. CASE ClockNext /\ ~ Tick
  BY <1>7, NextEpochBacks DEF ClockNext
<1>8. CASE StakersNext
  BY <1>8, StakersBack
<1> QED BY <1>1, <1>2, <1>3, <1>4, <1>5, <1>6, <1>7, <1>8
        DEF UnslashedNext, ProgramNext, UsersNext

\* The program without slashes keeps the invariant of the whole.
LEMMA UnslashedKeeps == IInv /\ [UnslashedNext]_vars => IInv'
<1>1. [UnslashedNext]_vars => [Next]_vars
  BY DEF Next
<1> QED BY <1>1, NextKeeps

\* Unless a stake is slashed, an account holds the lamports that the books
\* count for it, through every split, merge and redelegation.
THEOREM StakeStaysBacked == UnslashedSpec => []StakeIsBacked
<1>1. Init => IInv /\ Backed
  BY InitKeeps, InitBacks
<1>2. IInv /\ Backed /\ [UnslashedNext]_vars => (IInv /\ Backed)'
  BY UnslashedKeeps, NextBacks
<1>3. Backed => StakeIsBacked
  BY DEF Backed, BackedAt, StakeIsBacked
<1> QED BY <1>1, <1>2, <1>3, PTL DEF UnslashedSpec

---------------------------------------------------------------------------
(* What the stake delta allows a step                                      *)

\* Stake that is moved against the delta leaves it alone.
LEMMA MoversMove ==
  ASSUME RedelegateNext \/ UnstakeNext
  PROVE  UNCHANGED reserveVars /\ UNCHANGED delayed_unstake_cooling_down
<1>1. ASSUME NEW v, NEW w, NEW n, MoveStake(v, w, n)
      PROVE  UNCHANGED reserveVars /\ UNCHANGED delayed_unstake_cooling_down
  BY <1>1 DEF MoveStake, coolingVars
<1>2. ASSUME NEW v, NEW n, StartEmergencyUnstake(v, n)
      PROVE  UNCHANGED reserveVars /\ UNCHANGED delayed_unstake_cooling_down
  BY <1>2 DEF StartEmergencyUnstake
<1>3. ASSUME NEW a, NEW dst, NEW c, RedelegateWholeStake(a, dst, c)
      PROVE  UNCHANGED reserveVars /\ UNCHANGED delayed_unstake_cooling_down
  <2>1. \E v, w, n : MoveStake(v, w, n)
    BY <1>3 DEF RedelegateWholeStake
  <2> QED BY <1>1, <2>1
<1>4. ASSUME NEW a, NEW dst, NEW b, NEW c, RedelegateSplitStake(a, dst, b, c)
      PROVE  UNCHANGED reserveVars /\ UNCHANGED delayed_unstake_cooling_down
  <2>1. \E v, w, n : MoveStake(v, w, n)
    BY <1>4 DEF RedelegateSplitStake
  <2> QED BY <1>1, <2>1
<1>5. ASSUME NEW a, EmergencyUnstake(a)
      PROVE  UNCHANGED reserveVars /\ UNCHANGED delayed_unstake_cooling_down
  BY <1>2, <1>5 DEF EmergencyUnstake
<1>6. ASSUME NEW a, NEW l, PartialUnstakeWhole(a, l)
      PROVE  UNCHANGED reserveVars /\ UNCHANGED delayed_unstake_cooling_down
  BY <1>2, <1>6 DEF PartialUnstakeWhole
<1>7. ASSUME NEW a, NEW b, NEW l, PartialUnstakeSplit(a, b, l)
      PROVE  UNCHANGED reserveVars /\ UNCHANGED delayed_unstake_cooling_down
  BY <1>2, <1>7 DEF PartialUnstakeSplit
<1> QED BY <1>3, <1>4, <1>5, <1>6, <1>7 DEF RedelegateNext, UnstakeNext

\* Who stakes from the reserve
LEMMA WhoStakes ==
  ASSUME IInv, [Next]_vars,
         total_active_balance' > total_active_balance,
         reserve_pda' < reserve_pda
  PROVE  \E v \in DOMAIN validator_list, a \in StakeAccount :
           StakeReserve(v, a)
<1> SUFFICES ASSUME ~ \E v \in DOMAIN validator_list, a \in StakeAccount :
                          StakeReserve(v, a)
             PROVE  FALSE
  OBVIOUS
<1>0. /\ reserve_pda \in Nat /\ total_active_balance \in Nat
      /\ \A a \in DOMAIN stake_list :
           /\ stake_accounts[a].balance \in Nat
           /\ stake_accounts[a].stake \in Nat
  BY StakesAreTyped
     DEF IInv, TypeOK, ReserveTypes, ValidatorTypes, StakeTypes
<1>1. ~ UNCHANGED validatorVars /\ ~ UNCHANGED reserveVars
  BY <1>0 DEF validatorVars, reserveVars
<1>2. ~ UsersNext
  BY <1>1, OthersMoveNothing
     DEF UsersNext, StakeAccountsNext, DepositStakeAccount,
         WithdrawStakeAccount
<1>3. ASSUME NEW a \in DOMAIN stake_list, UpdateActive(a)
      PROVE  FALSE
  BY <1>0, <1>3 DEF UpdateActive, extra_lamports, Monus
<1>4. ASSUME NEW a \in DOMAIN stake_list, UpdateDeactivated(a)
      PROVE  FALSE
  BY <1>0, <1>4 DEF UpdateDeactivated
<1>5. ~ CrankNext
  BY <1>1, <1>3, <1>4
     DEF CrankNext, StakeReserveReturnsEarly, DeactivateWholeStake,
         DeactivateSplitStake, StartDelayedUnstake, MergeStakes
<1>6. ~ RedelegateNext /\ ~ UnstakeNext
  BY <1>1, MoversMove
<1>7. ~ ValidatorsNext
  BY <1>1 DEF ValidatorsNext, AddValidator, RemoveValidator,
         SetValidatorScore, ConfigValidatorSystem
<1>8. ~ ClockNext /\ ~ StakersNext /\ ~ SlashNext
  BY <1>1 DEF ClockNext, Tick, NextEpoch, StakersNext, UserStakes,
         PayStakeAccount, SlashNext, Slash
<1> QED BY <1>1, <1>2, <1>5, <1>6, <1>7, <1>8, OthersMoveNothing
        DEF Next, UnslashedNext, ProgramNext

\* What StakeReserve gives is within the delta.
LEMMA StakeIsWithinDelta ==
  ASSUME IInv, NEW v \in DOMAIN validator_list, NEW a \in StakeAccount,
         StakeReserve(v, a)
  PROVE  circulating_ticket_balance' <=
           Monus(reserve_pda', TokenRent) + delayed_unstake_cooling_down'
<1> DEFINE n == reserve_stake_target(v)
<1>1. /\ reserve_pda \in Nat /\ available_reserve_balance \in Nat
      /\ TokenRent \in Nat /\ delayed_unstake_cooling_down \in Nat
      /\ emergency_cooling_down \in Nat /\ circulating_ticket_balance \in Nat
      /\ available_reserve_balance + TokenRent <= reserve_pda
  BY ConstantTypes
     DEF IInv, TypeOK, ReserveTypes, CoolingTypes, TicketTypes,
         BooksAreConservative
<1>2. stake_delta > 0 /\ stake_delta \in Int
  BY StateTypes DEF StakeReserve, TakeStakeRun
<1>3. n \in Nat
  BY <1>2, ReserveTargetTypes
<1>4. n <= stake_delta
  BY <1>2, <1>3 DEF reserve_stake_target, Lesser
<1>5. stake_delta = reserve_pda - TokenRent + delayed_unstake_cooling_down
                      - circulating_ticket_balance
  BY <1>1, <1>2 DEF stake_delta, Lesser, Monus
<1> HIDE DEF n
<1>6. /\ n <= available_reserve_balance
      /\ reserve_pda' = reserve_pda - n
      /\ circulating_ticket_balance' = circulating_ticket_balance
      /\ delayed_unstake_cooling_down' = delayed_unstake_cooling_down
  BY DEF StakeReserve, on_transfer_from_reserve, ticketVars, coolingVars, n
<1>7. Monus(reserve_pda', TokenRent) = reserve_pda - n - TokenRent
  BY <1>1, <1>3, <1>6 DEF Monus
<1> QED BY ONLY <1>1, <1>2, <1>3, <1>4, <1>5, <1>6, <1>7

\* stake_reserve leaves in the reserve whatever the tickets need that is not
\* cooling down for them.
THEOREM StakesTheSurplus == Spec => StakesOnlyTheSurplus
<1> DEFINE A == total_active_balance' > total_active_balance
                  /\ reserve_pda' < reserve_pda
                => circulating_ticket_balance' <=
                     Monus(reserve_pda', TokenRent)
                       + delayed_unstake_cooling_down'
<1>1. IInv /\ [Next]_vars => A
  BY WhoStakes, StakeIsWithinDelta
<1>2. IInv /\ [Next]_vars => [A]_vars
  BY <1>1
<1> QED BY <1>2, Invariance, PTL DEF Spec, StakesOnlyTheSurplus

\* Who unstakes for the tickets
LEMMA WhoUnstakes ==
  ASSUME IInv, [Next]_vars,
         delayed_unstake_cooling_down' > delayed_unstake_cooling_down
  PROVE  \/ \E a \in DOMAIN stake_list : DeactivateWholeStake(a)
         \/ \E a \in DOMAIN stake_list, b \in StakeAccount :
              DeactivateSplitStake(a, b)
<1> SUFFICES ASSUME ~ \E a \in DOMAIN stake_list : DeactivateWholeStake(a),
                    ~ \E a \in DOMAIN stake_list, b \in StakeAccount :
                          DeactivateSplitStake(a, b)
             PROVE  FALSE
  OBVIOUS
<1>0. /\ delayed_unstake_cooling_down \in Nat
      /\ \A a \in DOMAIN stake_list : last_update(a) \in Nat
  BY StakesAreTyped DEF IInv, TypeOK, CoolingTypes, StakeTypes
<1>1. /\ ~ UNCHANGED delayed_unstake_cooling_down
      /\ ~ UNCHANGED coolingVars
  BY <1>0 DEF coolingVars
<1>2. ~ UsersNext
  BY <1>1, OthersMoveNothing
     DEF UsersNext, StakeAccountsNext, DepositStakeAccount,
         WithdrawStakeAccount
<1>3. ASSUME NEW a \in DOMAIN stake_list, UpdateDeactivated(a)
      PROVE  FALSE
  BY <1>0, <1>3 DEF UpdateDeactivated, cooled_down
<1>4. ~ CrankNext
  BY <1>1, <1>3
     DEF CrankNext, UpdateActive, StakeReserve, StakeReserveReturnsEarly,
         MergeStakes
<1>5. ~ RedelegateNext /\ ~ UnstakeNext
  BY <1>1, MoversMove
<1>6. ~ ValidatorsNext
  BY <1>1 DEF ValidatorsNext, AddValidator, RemoveValidator,
         SetValidatorScore, ConfigValidatorSystem
<1>7. ~ ClockNext /\ ~ StakersNext /\ ~ SlashNext
  BY <1>1 DEF ClockNext, Tick, NextEpoch, StakersNext, UserStakes,
         PayStakeAccount, SlashNext, Slash, Nobody
<1> QED BY <1>1, <1>2, <1>4, <1>5, <1>6, <1>7, OthersMoveNothing
        DEF Next, UnslashedNext, ProgramNext

\* What the two commands unstake: no more than the delta, but for the rest of
\* an account that may not be left behind
LEMMA UnstakedWithinDelta ==
  ASSUME IInv, NEW v \in DOMAIN validator_list, NEW n \in Nat, NEW ran,
         StartDelayedUnstake(v, n, ran), stake_delta < 0,
         n < 2 * min_stake - stake_delta
  PROVE  Monus(reserve_pda', TokenRent) + delayed_unstake_cooling_down'
           < circulating_ticket_balance' + 2 * min_stake
<1> DEFINE reserve == Monus(reserve_pda, TokenRent)
<1>1. /\ reserve_pda \in Nat /\ TokenRent \in Nat
      /\ delayed_unstake_cooling_down \in Nat
      /\ emergency_cooling_down \in Nat /\ circulating_ticket_balance \in Nat
      /\ min_stake \in Nat
  BY ConstantTypes, ConfigTypes
     DEF IInv, TypeOK, ReserveTypes, CoolingTypes, TicketTypes, min_stake
<1>2. reserve \in Nat
  BY <1>1 DEF Monus
<1>3. reserve' = reserve /\ UNCHANGED circulating_ticket_balance
  BY DEF StartDelayedUnstake, reserveVars, ticketVars
<1>4. delayed_unstake_cooling_down' = delayed_unstake_cooling_down + n
  BY DEF StartDelayedUnstake
<1> HIDE DEF reserve
<1>5. stake_delta = reserve + delayed_unstake_cooling_down
                      - circulating_ticket_balance + emergency_cooling_down
  BY <1>1, <1>2 DEF stake_delta, Lesser, reserve
<1>6. reserve' + delayed_unstake_cooling_down'
        < circulating_ticket_balance' + 2 * min_stake
  BY ONLY <1>1, <1>2, <1>3, <1>4, <1>5, n \in Nat,
     n < 2 * min_stake - stake_delta
<1> QED BY <1>6 DEF reserve

LEMMA WholeStakeWithinDelta ==
  ASSUME IInv, NEW a \in DOMAIN stake_list, DeactivateWholeStake(a)
  PROVE  Monus(reserve_pda', TokenRent) + delayed_unstake_cooling_down'
           < circulating_ticket_balance' + 2 * min_stake
<1> DEFINE v == stake_accounts[a].voter
           n == last_update(a)
           wanted == Lesser(unstake_from_validator(v), - stake_delta)
<1>1. /\ v \in DOMAIN validator_list /\ stake_delta < 0
      /\ StartDelayedUnstake(v, n, validator_list[v].ran)
      /\ stake_account_target(a, v) < 2 * min_stake
      /\ unstake_from_validator(v) > 0
  BY DEF DeactivateWholeStake, DeactivateStakeAllowed
<1>2. /\ n \in Nat /\ stake_delta \in Int /\ min_stake \in Nat
      /\ min_stake > 0
  BY StateTypes, ConfigTypes, StakesAreTyped
     DEF IInv, TypeOK, StakeTypes, min_stake
<1>3. validator_list[v].active_balance \in Nat /\ total_active_balance \in Nat
  BY <1>1 DEF IInv, TypeOK, ValidatorTypes, ValidatorRecord
<1>4. validator_stake_target(v, Monus(total_active_balance, - stake_delta))
        \in Nat
  <2>1. Monus(total_active_balance, - stake_delta) \in Nat
    BY <1>1, <1>2, <1>3 DEF Monus
  <2> QED BY <1>1, <2>1, TargetTypes
<1>5. unstake_from_validator(v) \in Nat
  BY <1>3, <1>4 DEF unstake_from_validator, Monus
<1>6. wanted \in Nat /\ wanted <= - stake_delta
  BY <1>1, <1>2, <1>5 DEF Lesser
<1>7. stake_account_target(a, v) = Monus(n, wanted)
  BY DEF stake_account_target
<1> HIDE DEF n, wanted
<1>8. n < 2 * min_stake - stake_delta
  BY <1>1, <1>2, <1>6, <1>7 DEF Monus
<1> QED BY <1>1, <1>2, <1>8, UnstakedWithinDelta

LEMMA SplitStakeWithinDelta ==
  ASSUME IInv, NEW a \in DOMAIN stake_list, NEW b \in StakeAccount,
         DeactivateSplitStake(a, b)
  PROVE  Monus(reserve_pda', TokenRent) + delayed_unstake_cooling_down'
           < circulating_ticket_balance' + 2 * min_stake
<1> DEFINE v == stake_accounts[a].voter
           n == last_update(a) - stake_account_target(a, v)
<1>1. /\ v \in DOMAIN validator_list /\ stake_delta < 0
      /\ StartDelayedUnstake(v, n, TRUE)
      /\ n > 0 /\ n <= - stake_delta
  BY DEF DeactivateSplitStake, DeactivateStakeAllowed
<1>2. /\ n \in Nat /\ stake_delta \in Int /\ min_stake \in Nat
      /\ min_stake > 0
  BY <1>1, StateTypes, ConfigTypes, StakesAreTyped, StakeAccountTargetTypes
     DEF IInv, TypeOK, StakeTypes, min_stake
<1> HIDE DEF n
<1>3. n < 2 * min_stake - stake_delta
  BY <1>1, <1>2
<1> QED BY <1>1, <1>2, <1>3, UnstakedWithinDelta

\* However many deactivate_stake commands are run, in whatever order with the
\* tickets that are ordered and claimed, the reserve and what cools down exceed
\* the tickets by less than the two min_stake that no account may be left with.
THEOREM UnstakesWhatTicketsNeed == Spec => UnstakesLittleTooMuch
<1> DEFINE A == delayed_unstake_cooling_down' > delayed_unstake_cooling_down =>
                  Monus(reserve_pda', TokenRent) + delayed_unstake_cooling_down'
                    < circulating_ticket_balance' + 2 * min_stake
<1>1. IInv /\ [Next]_vars => A
  BY WhoUnstakes, WholeStakeWithinDelta, SplitStakeWithinDelta
<1>2. IInv /\ [Next]_vars => [A]_vars
  BY <1>1
<1> QED BY <1>2, Invariance, PTL DEF Spec, UnstakesLittleTooMuch

---------------------------------------------------------------------------
(* Stake that is moved within an epoch                                     *)

NoneMoved == \A v \in DOMAIN validator_list : MovedFrom(v) = 0

\* A step that lowers no balance
LEMMA RisingIsNoMove ==
  ASSUME IInv, IInv',
         \A v \in DOMAIN validator_list \cap DOMAIN validator_list' :
           validator_list'[v].active_balance >= validator_list[v].active_balance
  PROVE  NoneMoved
<1> SUFFICES ASSUME NEW v \in DOMAIN validator_list,
                    v \in DOMAIN validator_list'
             PROVE  Monus(validator_list[v].active_balance,
                          validator_list'[v].active_balance) = 0
  BY DEF NoneMoved, MovedFrom
<1>1. /\ validator_list[v].active_balance \in Nat
      /\ validator_list'[v].active_balance \in Nat
  BY DEF IInv, TypeOK, ValidatorTypes, ValidatorRecord
<1>2. validator_list'[v].active_balance >= validator_list[v].active_balance
  OBVIOUS
<1> QED BY ONLY <1>1, <1>2 DEF Monus

\* A step after which less is staked and no more cools down
LEMMA ReleasingIsNoMove ==
  ASSUME total_active_balance' + emergency_cooling_down'
           # total_active_balance + emergency_cooling_down
  PROVE  NoneMoved
BY DEF NoneMoved, MovedFrom

LEMMA UpdateActiveMovesNone ==
  ASSUME IInv, IInv', Counted, NEW a \in DOMAIN stake_list, UpdateActive(a)
  PROVE  NoneMoved
<1> PICK v \in Validator : v = stake_accounts[a].voter
  BY StakesAreTyped DEF IInv, TypeOK, StakeTypes
<1> DEFINE gain == rewards(a)
           loss == slashed(a)
           before == validator_list[v].active_balance
<1>1. /\ v \in DOMAIN validator_list
      /\ validator_list' = [validator_list EXCEPT
           ![v].active_balance = Monus(@ + gain, loss)]
      /\ total_active_balance' = Monus(total_active_balance + gain, loss)
      /\ emergency_cooling_down' = emergency_cooling_down
      /\ is_active(a)
  BY DEF UpdateActive, coolingVars
<1>2. /\ last_update(a) \in Nat /\ stake_accounts[a].stake \in Nat
      /\ validator_list \in [DOMAIN validator_list -> ValidatorRecord]
      /\ before \in Nat /\ emergency_cooling_down \in Nat
      /\ total_active_balance \in Nat
  BY <1>1, StakesAreTyped DEF IInv, TypeOK, StakeTypes, ValidatorTypes,
     ValidatorRecord, CoolingTypes
<1>3. /\ gain \in Nat /\ loss \in Nat /\ (loss = 0 \/ gain = 0)
      /\ loss <= last_update(a)
  BY <1>2 DEF rewards, slashed, Monus
<1> HIDE DEF gain, loss
<1>4. CASE loss = 0
  <2>1. validator_list'[v].active_balance = before + gain
          /\ \A w \in DOMAIN validator_list \ {v} :
               validator_list'[w] = validator_list[w]
    BY <1>1, <1>2, <1>3, <1>4 DEF Monus, ValidatorRecord
  <2>2. \A w \in DOMAIN validator_list :
          validator_list[w].active_balance \in Nat
    BY <1>2 DEF ValidatorRecord
  <2>3. \A w \in DOMAIN validator_list :
          validator_list'[w].active_balance >= validator_list[w].active_balance
    BY <1>3, <2>1, <2>2
  <2> QED BY <2>3, RisingIsNoMove
<1>5. CASE loss > 0
  <2>1. loss <= total_active_balance /\ gain = 0
    BY <1>1, <1>2, <1>3, <1>5, RecordIsCovered
  <2>2. total_active_balance' < total_active_balance
          /\ total_active_balance' \in Nat
    BY <1>1, <1>2, <1>3, <1>5, <2>1 DEF Monus
  <2> QED BY <1>1, <1>2, <2>2, ReleasingIsNoMove
<1> QED BY <1>3, <1>4, <1>5

LEMMA DelayedUnstakeMovesNone ==
  ASSUME IInv, IInv', NEW v \in DOMAIN validator_list, NEW n \in Nat,
         NEW ran, StartDelayedUnstake(v, n, ran)
  PROVE  NoneMoved
<1>1. /\ total_active_balance' = total_active_balance - n
      /\ emergency_cooling_down' = emergency_cooling_down
      /\ validator_list' = [validator_list EXCEPT
           ![v].active_balance = @ - n, ![v].ran = ran]
  BY DEF StartDelayedUnstake
<1>2. /\ total_active_balance \in Nat /\ emergency_cooling_down \in Nat
      /\ validator_list \in [DOMAIN validator_list -> ValidatorRecord]
  BY DEF IInv, TypeOK, ValidatorTypes, CoolingTypes
<1>3. CASE n = 0
  <2>1. \A w \in DOMAIN validator_list :
          /\ validator_list[w].active_balance \in Nat
          /\ validator_list'[w].active_balance
               = validator_list[w].active_balance
    BY <1>1, <1>2, <1>3 DEF ValidatorRecord
  <2> QED BY <2>1, RisingIsNoMove
<1>4. CASE n > 0
  BY <1>1, <1>2, <1>4, ReleasingIsNoMove
<1> QED BY <1>3, <1>4

\* A validator that is given stake
LEMMA AddingIsNoMove ==
  ASSUME IInv, IInv', NEW v \in DOMAIN validator_list, NEW n \in Nat,
         BalanceWritten(v, n)
  PROVE  NoneMoved
<1>1. \A w \in DOMAIN validator_list : validator_list[w].active_balance \in Nat
  BY DEF IInv, TypeOK, ValidatorTypes, ValidatorRecord
<1>2. \A w \in DOMAIN validator_list :
        validator_list'[w].active_balance >= validator_list[w].active_balance
  BY <1>1 DEF BalanceWritten
<1> QED BY <1>2, RisingIsNoMove

\* Balances that stay as they are
LEMMA KeepingIsNoMove ==
  ASSUME IInv, IInv',
         \A v \in DOMAIN validator_list \cap DOMAIN validator_list' :
           validator_list'[v].active_balance = validator_list[v].active_balance
  PROVE  NoneMoved
<1>1. \A v \in DOMAIN validator_list : validator_list[v].active_balance \in Nat
  BY DEF IInv, TypeOK, ValidatorTypes, ValidatorRecord
<1> QED BY <1>1, RisingIsNoMove

LEMMA CrankMovesNone ==
  ASSUME IInv, IInv', Counted, CrankNext
  PROVE  NoneMoved
<1>0. validator_list \in [DOMAIN validator_list -> ValidatorRecord]
  BY DEF IInv, TypeOK, ValidatorTypes
<1>1. ASSUME NEW a \in DOMAIN stake_list, UpdateDeactivated(a)
      PROVE  NoneMoved
  BY <1>1, KeepingIsNoMove DEF UpdateDeactivated, validatorVars
<1>2. ASSUME NEW v \in DOMAIN validator_list, NEW a \in StakeAccount,
             StakeReserve(v, a)
      PROVE  NoneMoved
  <2> DEFINE n == reserve_stake_target(v)
  <2>1. validator_list' = [validator_list EXCEPT
          ![v].active_balance = @ + n, ![v].ran = TRUE]
    BY <1>2 DEF StakeReserve
  <2>2. n \in Nat
    BY <1>2, ReserveTargetTypes DEF StakeReserve, TakeStakeRun
  <2> HIDE DEF n
  <2>3. BalanceWritten(v, n)
    BY <1>0, <2>1 DEF BalanceWritten, ValidatorRecord
  <2> QED BY <2>2, <2>3, AddingIsNoMove
<1>3. ASSUME NEW v \in DOMAIN validator_list, StakeReserveReturnsEarly(v)
      PROVE  NoneMoved
  BY <1>3, KeepingIsNoMove DEF StakeReserveReturnsEarly, validatorVars
<1>4. ASSUME NEW a \in DOMAIN stake_list, DeactivateWholeStake(a)
      PROVE  NoneMoved
  <2> DEFINE v == stake_accounts[a].voter
             n == last_update(a)
  <2>1. /\ v \in DOMAIN validator_list /\ n \in Nat
        /\ StartDelayedUnstake(v, n, validator_list[v].ran)
    BY <1>4, StakesAreTyped
       DEF DeactivateWholeStake, DeactivateStakeAllowed, IInv, TypeOK,
           StakeTypes
  <2> HIDE DEF v, n
  <2> QED BY <2>1, DelayedUnstakeMovesNone
<1>5. ASSUME NEW a \in DOMAIN stake_list, NEW b \in StakeAccount,
             DeactivateSplitStake(a, b)
      PROVE  NoneMoved
  <2> DEFINE v == stake_accounts[a].voter
             n == last_update(a) - stake_account_target(a, v)
  <2>1. /\ v \in DOMAIN validator_list /\ stake_delta < 0
        /\ StartDelayedUnstake(v, n, TRUE)
    BY <1>5 DEF DeactivateSplitStake, DeactivateStakeAllowed
  <2>2. n \in Nat
    BY <2>1, StakeAccountTargetTypes, StakesAreTyped
       DEF IInv, TypeOK, StakeTypes
  <2> HIDE DEF v, n
  <2> QED BY <2>1, <2>2, DelayedUnstakeMovesNone
<1>6. ASSUME NEW dst \in DOMAIN stake_list, NEW src \in DOMAIN stake_list,
             MergeStakes(dst, src)
      PROVE  NoneMoved
  <2> DEFINE v == stake_accounts[dst].voter
             n == extra_delegated(dst)
  <2>1. /\ v \in DOMAIN validator_list
        /\ validator_list' = [validator_list EXCEPT ![v].active_balance = @ + n]
    BY <1>6 DEF MergeStakes
  <2>2. n \in Nat
    BY ConstantTypes DEF extra_delegated
  <2> HIDE DEF v, n
  <2>3. BalanceWritten(v, n)
    BY <1>0, <2>1 DEF BalanceWritten, ValidatorRecord
  <2> QED BY <2>1, <2>2, <2>3, AddingIsNoMove
<1> QED BY <1>1, <1>2, <1>3, <1>4, <1>5, <1>6, UpdateActiveMovesNone
        DEF CrankNext

LEMMA StakeAccountsMoveNone ==
  ASSUME IInv, IInv', StakeAccountsNext
  PROVE  NoneMoved
<1>0. /\ validator_list \in [DOMAIN validator_list -> ValidatorRecord]
      /\ total_active_balance \in Nat /\ emergency_cooling_down \in Nat
  BY DEF IInv, TypeOK, ValidatorTypes, CoolingTypes
<1>1. ASSUME NEW a \in DOMAIN stake_accounts, DepositStakeAccount(a)
      PROVE  NoneMoved
  <2> DEFINE v == stake_accounts[a].voter
             n == stake_accounts[a].stake
  <2>1. /\ v \in DOMAIN validator_list /\ n \in Nat
        /\ validator_list' = [validator_list EXCEPT ![v].active_balance = @ + n]
    BY <1>1, StakesAreTyped
       DEF DepositStakeAccount, DepositStakeAccountAllowed
  <2> HIDE DEF v, n
  <2>2. BalanceWritten(v, n)
    BY <1>0, <2>1 DEF BalanceWritten, ValidatorRecord
  <2> QED BY <2>1, <2>2, AddingIsNoMove
<1>2. ASSUME NEW a \in DOMAIN stake_list, NEW b \in StakeAccount,
             NEW m \in Lamports, WithdrawStakeAccount(a, b, m)
      PROVE  NoneMoved
  <2> DEFINE n == split_lamports(m)
  <2>1. m \in Nat
    BY ConstantTypes
  <2>2. n \in Nat /\ n >= min_stake /\ min_stake \in Nat /\ min_stake > 0
    BY <1>2, <2>1, SplitLamportsTypes, ConfigTypes
       DEF WithdrawStakeAccount, WithdrawStakeAccountAllowed, min_stake
  <2>3. /\ total_active_balance' = total_active_balance - n
        /\ emergency_cooling_down' = emergency_cooling_down
    BY <1>2 DEF WithdrawStakeAccount, coolingVars
  <2> HIDE DEF n
  <2> QED BY <1>0, <2>2, <2>3, ReleasingIsNoMove
<1> QED BY <1>1, <1>2 DEF StakeAccountsNext

LEMMA ValidatorsMoveNone ==
  ASSUME IInv, IInv', ValidatorsNext \/ ClockNext
  PROVE  NoneMoved
<1>0. validator_list \in [DOMAIN validator_list -> ValidatorRecord]
  BY DEF IInv, TypeOK, ValidatorTypes
<1> DEFINE Kept ==
      \A v \in DOMAIN validator_list \cap DOMAIN validator_list' :
        validator_list'[v].active_balance = validator_list[v].active_balance
<1>1. ASSUME NEW v \in Validator, NEW score \in Scores,
             AddValidator(v, score)
      PROVE  Kept
  BY <1>1 DEF AddValidator, Put
<1>2. ASSUME NEW v \in DOMAIN validator_list, RemoveValidator(v)
      PROVE  Kept
  BY <1>2 DEF RemoveValidator, Without
<1>3. ASSUME NEW v \in DOMAIN validator_list, NEW score \in Scores,
             SetValidatorScore(v, score)
      PROVE  Kept
  BY <1>0, <1>3 DEF SetValidatorScore, ValidatorRecord
<1>4. ASSUME NEW runs \in ExtraRuns, ConfigValidatorSystem(runs)
      PROVE  Kept
  BY <1>4 DEF ConfigValidatorSystem, validatorVars
<1>5. ASSUME Tick
      PROVE  Kept
  BY <1>5 DEF Tick, Nobody, validatorVars
<1>6. ASSUME NEW rewarded \in SUBSET DOMAIN stake_accounts,
             NextEpoch(rewarded)
      PROVE  Kept
  <2>1. validator_list' = [v \in DOMAIN validator_list |->
          [validator_list[v] EXCEPT !.ran = FALSE]]
    BY <1>6 DEF NextEpoch
  <2> QED BY <1>0, <2>1 DEF ValidatorRecord
<1>7. Kept
  BY <1>1, <1>2, <1>3, <1>4, <1>5, <1>6 DEF ValidatorsNext, ClockNext
<1> QED BY <1>7, KeepingIsNoMove

\* All that moves stake against the delta is a redelegation or an unstake of
\* the manager.
LEMMA OthersMoveNone ==
  ASSUME IInv, IInv', Counted, [Next]_vars
  PROVE  RedelegateNext \/ UnstakeNext \/ NoneMoved
<1>1. UNCHANGED validatorVars => NoneMoved
  BY KeepingIsNoMove DEF validatorVars
<1>2. UsersNext => NoneMoved
  BY <1>1, OthersMoveNothing, StakeAccountsMoveNone DEF UsersNext
<1>3. StakersNext \/ SlashNext => NoneMoved
  BY <1>1 DEF StakersNext, SlashNext, UserStakes, PayStakeAccount, Slash,
         Nobody
<1> QED BY <1>1, <1>2, <1>3, OthersMoveNothing, CrankMovesNone,
           ValidatorsMoveNone DEF Next, UnslashedNext, ProgramNext

\* The counter of the moved stake is written by nobody else but forgotten at
\* the end of the epoch.
LEMMA WhoMoves ==
  ASSUME [Next]_vars
  PROVE  \/ RedelegateNext \/ UnstakeNext
         \/ UNCHANGED movedVars
         \/ ~ stake_move_is_current' /\ UNCHANGED stake_moved
<1> SUFFICES ASSUME ~ RedelegateNext, ~ UnstakeNext,
                    ~ \E rewarded \in SUBSET DOMAIN stake_accounts :
                          NextEpoch(rewarded)
             PROVE  UNCHANGED movedVars
  BY DEF NextEpoch
<1>1. UsersNext => UNCHANGED movedVars
  BY DEF UsersNext, Deposit, StakeAccountsNext, DepositStakeAccount,
         WithdrawStakeAccount, OrderUnstake, Claim
<1>2. LiquidityPoolNext => UNCHANGED movedVars
  BY DEF LiquidityPoolNext, AddLiquidity, RemoveLiquidity, LiquidUnstake
<1>3. CrankNext => UNCHANGED movedVars
  <2>1. \A v, n, ran : StartDelayedUnstake(v, n, ran) => UNCHANGED movedVars
    BY DEF StartDelayedUnstake
  <2>2. \A a, b : DeactivateWholeStake(a) \/ DeactivateSplitStake(a, b)
                    => UNCHANGED movedVars
    BY <2>1 DEF DeactivateWholeStake, DeactivateSplitStake
  <2> QED BY <2>2 DEF CrankNext, UpdateActive, UpdateDeactivated,
             StakeReserve, StakeReserveReturnsEarly, MergeStakes
<1>4. ValidatorsNext => UNCHANGED movedVars
  BY DEF ValidatorsNext, AddValidator, RemoveValidator, SetValidatorScore,
         ConfigValidatorSystem
<1>5. AdminNext => UNCHANGED movedVars
  BY DEF AdminNext, Pause, Resume, ConfigMarinade, ConfigLp,
         ChangeAuthority, ReallocStakeList, ReallocValidatorList, Books
<1>6. ClockNext => UNCHANGED movedVars
  BY DEF ClockNext, Tick
<1>7. StakersNext => UNCHANGED movedVars
  BY DEF StakersNext, UserStakes, PayStakeAccount, ClockUnchanged
<1>8. UnbookedNext => UNCHANGED movedVars
  BY DEF UnbookedNext, PayReserve, BurnMsol, BurnLp, ClockUnchanged
<1>9. SlashNext => UNCHANGED movedVars
  BY DEF SlashNext, Slash, ClockUnchanged
<1>10. UNCHANGED vars => UNCHANGED movedVars
  BY DEF vars
<1> QED BY <1>1, <1>2, <1>3, <1>4, <1>5, <1>6, <1>7, <1>8, <1>9, <1>10
        DEF Next, UnslashedNext, ProgramNext

\* What MovesAreCapped says of a step
MoveIsCapped ==
  /\ \A v \in DOMAIN validator_list : MovedFrom(v) > 0 =>
       /\ stake_move_is_current'
       /\ stake_moved' = MovedFrom(v)
            + (IF stake_move_is_current THEN stake_moved ELSE 0)
       /\ stake_moved' <= FeeApply(config.max_stake_moved_per_epoch,
                                  total_lamports_under_control)
  /\ stake_move_is_current' => stake_moved' >= stake_moved
       \/ ~ stake_move_is_current

\* A step that takes n from one validator and counts it as moved
LEMMA CountedMoveIsCapped ==
  ASSUME IInv, NEW v \in DOMAIN validator_list, NEW n \in Nat,
         on_stake_moved(n), DOMAIN validator_list' = DOMAIN validator_list,
         validator_list'[v].active_balance
           = validator_list[v].active_balance - n,
         \A w \in DOMAIN validator_list \ {v} :
           validator_list'[w].active_balance >= validator_list[w].active_balance,
         IInv'
  PROVE  MoveIsCapped
<1> DEFINE cap == FeeApply(config.max_stake_moved_per_epoch,
                           total_lamports_under_control)
           moved == IF stake_move_is_current THEN stake_moved ELSE 0
<1>1. stake_moved \in Nat /\ stake_move_is_current \in BOOLEAN
  BY DEF IInv, TypeOK, MovedTypes
<1>2. \A w \in DOMAIN validator_list :
        /\ validator_list[w].active_balance \in Nat
        /\ validator_list'[w].active_balance \in Nat
  BY DEF IInv, TypeOK, ValidatorTypes, ValidatorRecord
<1>3. /\ moved \in Nat /\ moved + n <= cap
      /\ stake_moved' = moved + n /\ stake_move_is_current' = TRUE
  BY <1>1 DEF on_stake_moved
<1>4. stake_move_is_current => stake_moved' >= stake_moved
  BY <1>1, <1>3
<1>5. MovedFrom(v) = n \/ MovedFrom(v) = 0
  <2>1. Monus(validator_list[v].active_balance,
              validator_list'[v].active_balance) = n
    BY <1>2 DEF Monus
  <2> QED BY <2>1 DEF MovedFrom
<1>6. ASSUME NEW w \in DOMAIN validator_list \ {v} PROVE MovedFrom(w) = 0
  <2>1. Monus(validator_list[w].active_balance,
              validator_list'[w].active_balance) = 0
    BY <1>2 DEF Monus
  <2> QED BY <2>1 DEF MovedFrom
<1> HIDE DEF cap, moved
<1>7. \A w \in DOMAIN validator_list : MovedFrom(w) > 0 =>
        stake_moved' = MovedFrom(w) + moved /\ stake_moved' <= cap
  BY ONLY <1>3, <1>5, <1>6, n \in Nat
<1> QED BY <1>3, <1>4, <1>7 DEF MoveIsCapped, cap, moved

LEMMA MoveStakeIsCapped ==
  ASSUME IInv, IInv', NEW src \in DOMAIN validator_list,
         NEW dst \in DOMAIN validator_list, src # dst, NEW n \in Nat,
         MoveStake(src, dst, n)
  PROVE  MoveIsCapped
<1>1. validator_list \in [DOMAIN validator_list -> ValidatorRecord]
  BY DEF IInv, TypeOK, ValidatorTypes
<1>2. /\ on_stake_moved(n)
      /\ validator_list' = [validator_list EXCEPT
           ![src].active_balance = @ - n, ![dst].active_balance = @ + n]
  BY DEF MoveStake
<1>3. /\ DOMAIN validator_list' = DOMAIN validator_list
      /\ validator_list'[src].active_balance
           = validator_list[src].active_balance - n
      /\ \A w \in DOMAIN validator_list \ {src} :
           validator_list'[w].active_balance >= validator_list[w].active_balance
  BY <1>1, <1>2 DEF ValidatorRecord
<1> QED BY <1>2, <1>3, CountedMoveIsCapped

LEMMA EmergencyUnstakeIsCapped ==
  ASSUME IInv, IInv', NEW v \in DOMAIN validator_list, NEW n \in Nat,
         StartEmergencyUnstake(v, n)
  PROVE  MoveIsCapped
<1>1. validator_list \in [DOMAIN validator_list -> ValidatorRecord]
  BY DEF IInv, TypeOK, ValidatorTypes
<1>2. /\ on_stake_moved(n)
      /\ validator_list' =
           [validator_list EXCEPT ![v].active_balance = @ - n]
  BY DEF StartEmergencyUnstake
<1>3. /\ DOMAIN validator_list' = DOMAIN validator_list
      /\ validator_list'[v].active_balance
           = validator_list[v].active_balance - n
      /\ \A w \in DOMAIN validator_list \ {v} :
           validator_list'[w].active_balance >= validator_list[w].active_balance
  BY <1>1, <1>2 DEF ValidatorRecord
<1> QED BY <1>2, <1>3, CountedMoveIsCapped

\* What the five instructions that move stake take, and from whom
LEMMA MoversAreCapped ==
  ASSUME IInv, IInv', RedelegateNext \/ UnstakeNext
  PROVE  MoveIsCapped
<1>0. Lamports \subseteq Nat
  BY ConstantTypes
<1>1. ASSUME NEW a \in DOMAIN stake_list, NEW dst \in DOMAIN validator_list,
             NEW c \in StakeAccount, RedelegateWholeStake(a, dst, c)
      PROVE  MoveIsCapped
  <2> DEFINE src == stake_accounts[a].voter
             n == last_update(a)
  <2>1. /\ src \in DOMAIN validator_list /\ src # dst /\ n \in Nat
        /\ MoveStake(src, dst, n)
    BY <1>1, StakesAreTyped DEF RedelegateWholeStake, RedelegateAllowed,
       IInv, TypeOK, StakeTypes
  <2> HIDE DEF src, n
  <2> QED BY <2>1, MoveStakeIsCapped
<1>2. ASSUME NEW a \in DOMAIN stake_list, NEW dst \in DOMAIN validator_list,
             NEW b \in StakeAccount, NEW c \in StakeAccount,
             RedelegateSplitStake(a, dst, b, c)
      PROVE  MoveIsCapped
  <2> DEFINE src == stake_accounts[a].voter
             n == redelegate_amount(a, src, dst)
  <2>1. /\ src \in DOMAIN validator_list /\ src # dst
        /\ MoveStake(src, dst, n) /\ RedelegateAllowed(a, src, dst)
    BY <1>2 DEF RedelegateSplitStake, RedelegateAllowed
  <2>2. n \in Nat
    BY <2>1, RedelegateAmountTypes
  <2> HIDE DEF src, n
  <2> QED BY <2>1, <2>2, MoveStakeIsCapped
<1>3. ASSUME NEW a \in DOMAIN stake_list,
             stake_accounts[a].voter \in DOMAIN validator_list,
             StartEmergencyUnstake(stake_accounts[a].voter, last_update(a))
      PROVE  MoveIsCapped
  BY <1>3, StakesAreTyped, EmergencyUnstakeIsCapped
     DEF IInv, TypeOK, StakeTypes
<1>4. ASSUME NEW a \in DOMAIN stake_list, NEW b \in StakeAccount,
             NEW l \in Lamports, PartialUnstakeSplit(a, b, l)
      PROVE  MoveIsCapped
  <2> DEFINE v == stake_accounts[a].voter
             n == Lesser(l, over_target(v))
  <2>1. PartialUnstakeAllowed(a, v, l) /\ StartEmergencyUnstake(v, n)
    BY <1>4 DEF PartialUnstakeSplit
  <2>2. v \in DOMAIN validator_list /\ n \in Nat
    BY <1>0, <2>1, OverTargetTypes DEF PartialUnstakeAllowed
  <2> HIDE DEF v, n
  <2> QED BY <2>1, <2>2, EmergencyUnstakeIsCapped
<1>5. ASSUME NEW a \in DOMAIN stake_list, EmergencyUnstake(a)
      PROVE  MoveIsCapped
  BY <1>3, <1>5 DEF EmergencyUnstake
<1>6. ASSUME NEW a \in DOMAIN stake_list, NEW l \in Lamports,
             PartialUnstakeWhole(a, l)
      PROVE  MoveIsCapped
  BY <1>3, <1>6 DEF PartialUnstakeWhole, PartialUnstakeAllowed
<1> QED BY <1>1, <1>2, <1>4, <1>5, <1>6 DEF RedelegateNext, UnstakeNext

\* Whatever redelegate and the unstake instructions take from a validator is
\* counted for its epoch and stays under the cap of that moment.  This needs
\* the counters to agree with the records: a loss that update_active finds is
\* no move because it leaves the total too.
THEOREM MovesStayCapped == Spec => MovesAreCapped
<1>1. IInv /\ IInv' /\ Counted /\ [Next]_vars => MoveIsCapped
  <2> SUFFICES ASSUME IInv, IInv', Counted, [Next]_vars PROVE MoveIsCapped
    OBVIOUS
  <2>1. stake_moved \in Nat
    BY DEF IInv, TypeOK, MovedTypes
  <2>2. CASE NoneMoved /\ ~ RedelegateNext /\ ~ UnstakeNext
    BY <2>1, <2>2, WhoMoves DEF NoneMoved, MoveIsCapped, movedVars
  <2> QED BY <2>2, OthersMoveNone, MoversAreCapped
<1>2. Spec => [](IInv /\ Counted)
  <2>1. Init => IInv /\ Counted
    BY InitKeeps, InitCounts
  <2>2. IInv /\ Counted /\ [Next]_vars => (IInv /\ Counted)'
    BY NextKeeps, NextCounts
  <2> QED BY <2>1, <2>2, PTL DEF Spec
<1>3. IInv /\ IInv' /\ Counted /\ [Next]_vars => [MoveIsCapped]_vars
  BY <1>1
<1>4. MovesAreCapped <=> [][MoveIsCapped]_vars
  BY PTL DEF MovesAreCapped, MoveIsCapped
<1> QED BY <1>2, <1>3, <1>4, PTL DEF Spec

---------------------------------------------------------------------------
(* How near its target a validator is left                                 *)

\* What StaysNearTarget says of a validator in a step that places stake
NearTarget(v) ==
  LET target == validator_stake_target(v, total_active_balance + stake_delta)
      before == validator_list[v].active_balance
      after == validator_list'[v].active_balance
  IN  /\ after > before => after < target + min_stake
      /\ after < before => after > target - min_stake

LEMMA KeptIsNear ==
  ASSUME IInv, NEW v \in DOMAIN validator_list,
         validator_list'[v].active_balance = validator_list[v].active_balance
  PROVE  NearTarget(v)
<1>1. validator_list[v].active_balance \in Nat
  BY DEF IInv, TypeOK, ValidatorTypes, ValidatorRecord
<1> QED BY <1>1 DEF NearTarget

\* A part of the room below the target, and less than min_stake beyond it
LEMMA StakedIsNear ==
  ASSUME IInv, NEW v \in DOMAIN validator_list, NEW n \in Nat,
         validator_list'[v].active_balance
           = validator_list[v].active_balance + n,
         validator_stake_target(v, total_active_balance + stake_delta) \in Int,
         validator_list[v].active_balance + n
           < validator_stake_target(v, total_active_balance + stake_delta)
               + min_stake
  PROVE  NearTarget(v)
<1>1. validator_list[v].active_balance \in Nat
  BY DEF IInv, TypeOK, ValidatorTypes, ValidatorRecord
<1> QED BY <1>1 DEF NearTarget

LEMMA UnstakedIsNear ==
  ASSUME IInv, NEW v \in DOMAIN validator_list, NEW n \in Nat,
         validator_list'[v].active_balance
           = validator_list[v].active_balance - n,
         validator_stake_target(v, total_active_balance + stake_delta) \in Int,
         validator_list[v].active_balance - n
           > validator_stake_target(v, total_active_balance + stake_delta)
               - min_stake
  PROVE  NearTarget(v)
<1>1. validator_list[v].active_balance \in Nat
  BY DEF IInv, TypeOK, ValidatorTypes, ValidatorRecord
<1> QED BY <1>1 DEF NearTarget

LEMMA StakeReserveIsNear ==
  ASSUME IInv, NEW u \in DOMAIN validator_list, NEW a \in StakeAccount,
         StakeReserve(u, a)
  PROVE  \A v \in DOMAIN validator_list : NearTarget(v)
<1> DEFINE n == reserve_stake_target(u)
           target == validator_stake_target(u,
                       total_active_balance + stake_delta)
           before == validator_list[u].active_balance
<1>1. /\ validator_list' = [validator_list EXCEPT
           ![u].active_balance = @ + n, ![u].ran = TRUE]
      /\ stake_delta > 0 /\ n > 0
  BY DEF StakeReserve, TakeStakeRun
<1>2. /\ validator_list \in [DOMAIN validator_list -> ValidatorRecord]
      /\ before \in Nat /\ total_active_balance \in Nat
      /\ stake_delta \in Int /\ min_stake \in Nat /\ min_stake > 0
  BY StateTypes, ConfigTypes
     DEF IInv, TypeOK, ValidatorTypes, ValidatorRecord, min_stake
<1>3. n \in Nat /\ target \in Nat
  BY <1>1, <1>2, ReserveTargetTypes, TargetTypes
<1>4. n = IF target <= before THEN 0
          ELSE IF stake_delta - Lesser(Monus(target, before), stake_delta)
                    < min_stake
                 THEN stake_delta
                 ELSE Lesser(Monus(target, before), stake_delta)
  BY DEF reserve_stake_target
<1> HIDE DEF target
<1>5. before + n < target + min_stake
  <2> HIDE DEF n, before
  <2> QED BY <1>1, <1>2, <1>3, <1>4 DEF Lesser, Monus
<1> HIDE DEF n
<1>6. validator_list'[u].active_balance = before + n
        /\ \A v \in DOMAIN validator_list \ {u} :
             validator_list'[v] = validator_list[v]
  BY <1>1, <1>2 DEF ValidatorRecord
<1>7. NearTarget(u)
  BY <1>3, <1>5, <1>6, StakedIsNear DEF target
<1> QED BY <1>6, <1>7, KeptIsNear

\* A redelegation of n lamports between two validators that it leaves near
LEMMA MoveIsNear ==
  ASSUME IInv, NEW src \in DOMAIN validator_list,
         NEW dst \in DOMAIN validator_list, src # dst, NEW n \in Nat,
         MoveStake(src, dst, n),
         stake_target_of(src) \in Int, stake_target_of(dst) \in Int,
         validator_list[src].active_balance - n
           > stake_target_of(src) - min_stake,
         validator_list[dst].active_balance + n
           < stake_target_of(dst) + min_stake
  PROVE  \A v \in DOMAIN validator_list : NearTarget(v)
<1>1. validator_list \in [DOMAIN validator_list -> ValidatorRecord]
  BY DEF IInv, TypeOK, ValidatorTypes
<1>2. validator_list' = [validator_list EXCEPT
        ![src].active_balance = @ - n, ![dst].active_balance = @ + n]
  BY DEF MoveStake
<1>3. /\ validator_list'[src].active_balance
           = validator_list[src].active_balance - n
      /\ validator_list'[dst].active_balance
           = validator_list[dst].active_balance + n
      /\ \A v \in DOMAIN validator_list \ {src, dst} :
           validator_list'[v] = validator_list[v]
  BY <1>1, <1>2 DEF ValidatorRecord
<1>4. NearTarget(src)
  BY <1>3, UnstakedIsNear DEF stake_target_of
<1>5. NearTarget(dst)
  BY <1>3, StakedIsNear DEF stake_target_of
<1> QED BY <1>3, <1>4, <1>5, KeptIsNear

\* What redelegate may take and give
LEMMA RedelegateAmountIsNear ==
  ASSUME IInv, NEW a \in DOMAIN stake_list, NEW src, NEW dst,
         RedelegateAllowed(a, src, dst), NEW n \in Nat,
         n < redelegate_amount(a, src, dst) + min_stake
  PROVE  /\ stake_target_of(src) \in Int /\ stake_target_of(dst) \in Int
         /\ validator_list[src].active_balance - n
              > stake_target_of(src) - min_stake
         /\ validator_list[dst].active_balance + n
              < stake_target_of(dst) + min_stake
<1> DEFINE ts == stake_target_of(src)
           td == stake_target_of(dst)
           s == validator_list[src].active_balance
           d == validator_list[dst].active_balance
           last == last_update(a)
           most == redelegate_amount(a, src, dst)
<1>1. /\ {src, dst} \subseteq DOMAIN validator_list
      /\ total_active_balance + stake_delta >= 0
      /\ total_active_balance + stake_delta \in Int
      /\ last \in Nat /\ min_stake \in Nat
  BY StateTypes, ConfigTypes, StakesAreTyped
     DEF RedelegateAllowed, IInv, TypeOK, ValidatorTypes, StakeTypes, min_stake
<1>2. ts \in Nat /\ td \in Nat /\ s \in Nat /\ d \in Nat
  BY <1>1, TargetTypes
     DEF stake_target_of, IInv, TypeOK, ValidatorTypes, ValidatorRecord
<1>3. most = Lesser(td - d, Lesser(s - ts, last))
  BY DEF redelegate_amount
<1> HIDE DEF ts, td, s, d, last, most
<1>4. most <= td - d /\ most <= s - ts /\ most \in Int
  BY <1>1, <1>2, <1>3 DEF Lesser
<1>5. n < most + min_stake
  BY DEF most
<1>6. s - n > ts - min_stake /\ d + n < td + min_stake
  BY ONLY <1>1, <1>2, <1>4, <1>5, n \in Nat
<1> QED BY <1>2, <1>6 DEF ts, td, s, d

LEMMA RedelegationIsNear ==
  ASSUME IInv, RedelegateNext
  PROVE  \A v \in DOMAIN validator_list : NearTarget(v)
<1>0. min_stake \in Nat /\ min_stake > 0
  BY ConfigTypes DEF min_stake
<1>1. ASSUME NEW a \in DOMAIN stake_list, NEW dst \in DOMAIN validator_list,
             NEW c \in StakeAccount, RedelegateWholeStake(a, dst, c)
      PROVE  \A v \in DOMAIN validator_list : NearTarget(v)
  <2> DEFINE src == stake_accounts[a].voter
             n == last_update(a)
             most == redelegate_amount(a, src, dst)
  <2>1. /\ src \in DOMAIN validator_list /\ src # dst /\ n \in Nat
        /\ MoveStake(src, dst, n) /\ RedelegateAllowed(a, src, dst)
        /\ n - most < min_stake
    BY <1>1, StakesAreTyped DEF RedelegateWholeStake, RedelegateAllowed,
       IInv, TypeOK, StakeTypes
  <2>2. most \in Nat
    BY <2>1, RedelegateAmountTypes
  <2> HIDE DEF src, n
  <2>3. n < most + min_stake
    <3> HIDE DEF most
    <3> QED BY <1>0, <2>1, <2>2
  <2>4. /\ stake_target_of(src) \in Int /\ stake_target_of(dst) \in Int
        /\ validator_list[src].active_balance - n
             > stake_target_of(src) - min_stake
        /\ validator_list[dst].active_balance + n
             < stake_target_of(dst) + min_stake
    BY <2>1, <2>3, RedelegateAmountIsNear
  <2> QED BY <2>1, <2>4, MoveIsNear
<1>2. ASSUME NEW a \in DOMAIN stake_list, NEW dst \in DOMAIN validator_list,
             NEW b \in StakeAccount, NEW c \in StakeAccount,
             RedelegateSplitStake(a, dst, b, c)
      PROVE  \A v \in DOMAIN validator_list : NearTarget(v)
  <2> DEFINE src == stake_accounts[a].voter
             n == redelegate_amount(a, src, dst)
  <2>1. /\ src \in DOMAIN validator_list /\ src # dst
        /\ MoveStake(src, dst, n) /\ RedelegateAllowed(a, src, dst)
    BY <1>2 DEF RedelegateSplitStake, RedelegateAllowed
  <2>2. n \in Nat
    BY <2>1, RedelegateAmountTypes
  <2>3. n < n + min_stake
    <3> HIDE DEF n
    <3> QED BY <1>0, <2>2
  <2> HIDE DEF src
  <2>4. /\ stake_target_of(src) \in Int /\ stake_target_of(dst) \in Int
        /\ validator_list[src].active_balance - n
             > stake_target_of(src) - min_stake
        /\ validator_list[dst].active_balance + n
             < stake_target_of(dst) + min_stake
    BY <2>1, <2>2, <2>3, RedelegateAmountIsNear
  <2> HIDE DEF n
  <2> QED BY <2>1, <2>2, <2>4, MoveIsNear
<1> QED BY <1>1, <1>2 DEF RedelegateNext

\* An unstake of the manager that leaves its validator near the target
LEMMA StartUnstakeIsNear ==
  ASSUME IInv, NEW v \in DOMAIN validator_list, NEW n \in Nat,
         StartEmergencyUnstake(v, n),
         validator_stake_target(v, total_active_balance + stake_delta) \in Int,
         validator_list[v].active_balance - n
           > validator_stake_target(v, total_active_balance + stake_delta)
               - min_stake
  PROVE  \A w \in DOMAIN validator_list : NearTarget(w)
<1>1. validator_list \in [DOMAIN validator_list -> ValidatorRecord]
  BY DEF IInv, TypeOK, ValidatorTypes
<1>2. validator_list' = [validator_list EXCEPT ![v].active_balance = @ - n]
  BY DEF StartEmergencyUnstake
<1>3. /\ validator_list'[v].active_balance
           = validator_list[v].active_balance - n
      /\ \A w \in DOMAIN validator_list \ {v} :
           validator_list'[w] = validator_list[w]
  BY <1>1, <1>2 DEF ValidatorRecord
<1>4. NearTarget(v)
  BY <1>3, UnstakedIsNear
<1> QED BY <1>3, <1>4, KeptIsNear

\* A validator without score has no target.
LEMMA EmergencyUnstakeIsNear ==
  ASSUME IInv, NEW a \in DOMAIN stake_list, EmergencyUnstake(a)
  PROVE  \A w \in DOMAIN validator_list : NearTarget(w)
<1> DEFINE v == stake_accounts[a].voter
           n == last_update(a)
           total == total_active_balance + stake_delta
           target == validator_stake_target(v, total)
           before == validator_list[v].active_balance
<1>1. /\ v \in DOMAIN validator_list /\ validator_list[v].score = 0
      /\ StartEmergencyUnstake(v, n) /\ n <= before
  BY DEF EmergencyUnstake, StartEmergencyUnstake
<1>2. /\ n \in Nat /\ before \in Nat /\ total \in Int
      /\ total_validator_score \in Nat
      /\ min_stake \in Nat /\ min_stake > 0
  BY <1>1, StakesAreTyped, StateTypes, ConfigTypes
     DEF IInv, TypeOK, StakeTypes, ValidatorTypes, ValidatorRecord, min_stake
<1>3. target = 0
  <2>1. \A score \in Nat : (total * 0) \div score = 0 \/ score = 0
    <3> HIDE DEF total
    <3>1. total * 0 = 0
      BY <1>2
    <3>2. \A score \in Nat \ {0} : 0 \div score = 0
      OBVIOUS
    <3> QED BY <3>1, <3>2
  <2> QED BY <1>1, <1>2, <2>1 DEF validator_stake_target, proportional
<1> HIDE DEF n, target, before
<1>4. before - n > target - min_stake
  BY ONLY <1>1, <1>2, <1>3
<1>5. target \in Int /\ n \in Nat
  BY <1>2, <1>3
<1> HIDE DEF v
<1> QED BY <1>1, <1>4, <1>5, StartUnstakeIsNear DEF target, before

LEMMA OverTargetIsNear ==
  ASSUME IInv, NEW a \in DOMAIN stake_list, NEW v, NEW desired \in Nat,
         PartialUnstakeAllowed(a, v, desired), NEW n \in Nat,
         n < Lesser(desired, over_target(v)) + min_stake,
         StartEmergencyUnstake(v, n)
  PROVE  \A w \in DOMAIN validator_list : NearTarget(w)
<1> DEFINE target ==
             validator_stake_target(v, total_active_balance + stake_delta)
           before == validator_list[v].active_balance
           over == over_target(v)
<1>1. /\ v \in DOMAIN validator_list
      /\ total_active_balance + stake_delta \in Nat
      /\ total_active_balance + stake_delta >= 0
      /\ over > min_stake
      /\ min_stake \in Nat
  BY StateTypes, ConfigTypes
     DEF PartialUnstakeAllowed, IInv, TypeOK, ValidatorTypes, min_stake
<1>2. target \in Nat /\ before \in Nat
  BY <1>1, TargetTypes DEF IInv, TypeOK, ValidatorTypes, ValidatorRecord
<1>3. over = before - target
  BY DEF over_target
<1>4. n < Lesser(desired, over) + min_stake
  OBVIOUS
<1> HIDE DEF target, before, over
<1>5. before - n > target - min_stake
  BY ONLY <1>1, <1>2, <1>3, <1>4, n \in Nat, desired \in Nat DEF Lesser
<1> QED BY <1>1, <1>2, <1>5, StartUnstakeIsNear DEF target, before

LEMMA UnstakeIsNear ==
  ASSUME IInv, UnstakeNext
  PROVE  \A w \in DOMAIN validator_list : NearTarget(w)
<1>0. Lamports \subseteq Nat /\ min_stake \in Nat /\ min_stake > 0
  BY ConstantTypes, ConfigTypes DEF min_stake
<1>1. ASSUME NEW a \in DOMAIN stake_list, NEW l \in Lamports,
             PartialUnstakeWhole(a, l)
      PROVE  \A w \in DOMAIN validator_list : NearTarget(w)
  <2> DEFINE v == stake_accounts[a].voter
             n == last_update(a)
             most == Lesser(l, over_target(v))
  <2>1. /\ PartialUnstakeAllowed(a, v, l) /\ StartEmergencyUnstake(v, n)
        /\ Monus(n, most) < min_stake
    BY <1>1 DEF PartialUnstakeWhole
  <2>2. n \in Nat /\ most \in Nat /\ l \in Nat
    BY <1>0, <2>1, OverTargetTypes, StakesAreTyped
       DEF IInv, TypeOK, StakeTypes
  <2> HIDE DEF n, v
  <2>3. n < most + min_stake
    <3> HIDE DEF most
    <3> QED BY <1>0, <2>1, <2>2 DEF Monus
  <2> QED BY <2>1, <2>2, <2>3, OverTargetIsNear
<1>2. ASSUME NEW a \in DOMAIN stake_list, NEW b \in StakeAccount,
             NEW l \in Lamports, PartialUnstakeSplit(a, b, l)
      PROVE  \A w \in DOMAIN validator_list : NearTarget(w)
  <2> DEFINE v == stake_accounts[a].voter
             n == Lesser(l, over_target(v))
  <2>1. PartialUnstakeAllowed(a, v, l) /\ StartEmergencyUnstake(v, n)
    BY <1>2 DEF PartialUnstakeSplit
  <2>2. n \in Nat /\ l \in Nat
    BY <1>0, <2>1, OverTargetTypes
  <2> HIDE DEF v
  <2>3. n < n + min_stake
    <3> HIDE DEF n
    <3> QED BY <1>0, <2>2
  <2> QED BY <2>1, <2>2, <2>3, OverTargetIsNear
<1> QED BY <1>1, <1>2, EmergencyUnstakeIsNear DEF UnstakeNext

\* stake_reserve, redelegate and the unstake instructions never take a
\* validator past its target by min_stake or more, on either side, although
\* they may not leave less than min_stake behind in an account.
THEOREM StakeStaysNearTarget == Spec => StaysNearTarget
<1> DEFINE A == StakeIsPlaced =>
                  \A v \in DOMAIN validator_list : NearTarget(v)
<1>1. IInv /\ [Next]_vars => A
  <2> SUFFICES ASSUME IInv, [Next]_vars, StakeIsPlaced
               PROVE  \A v \in DOMAIN validator_list : NearTarget(v)
    OBVIOUS
  <2>1. CASE reserve_pda' < reserve_pda
               /\ total_active_balance' > total_active_balance
    BY <2>1, WhoStakes, StakeReserveIsNear
  <2>2. CASE stake_move_is_current' /\ movedVars' # movedVars
    BY <2>2, WhoMoves, RedelegationIsNear, UnstakeIsNear
  <2> QED BY <2>1, <2>2 DEF StakeIsPlaced
<1>2. IInv /\ [Next]_vars => [A]_vars
  BY <1>1
<1>3. StaysNearTarget <=> [][A]_vars
  BY PTL DEF StaysNearTarget, NearTarget
<1> QED BY <1>2, <1>3, Invariance, PTL DEF Spec
===========================================================================
