---------------------------- MODULE TotalsProofs ---------------------------
(***************************************************************************)
(* Facts about Total: what it is of nothing, and how it changes when the   *)
(* value of one element is added, removed or replaced.  They all follow    *)
(* from one of them, TotalSplits.                                          *)
(***************************************************************************)
EXTENDS Totals, FiniteSetTheorems, TLAPS

\* A finite function hands out finitely many units.
LEMMA UnitsAreFinite ==
  ASSUME NEW D, IsFiniteSet(D), NEW f \in [D -> Nat]
  PROVE  IsFiniteSet(Units(f))
<1> DEFINE part == [x \in D |-> {x} \X (1 .. f[x])]
           parts == {{x} \X (1 .. f[x]) : x \in D}
<1>1. part \in Surjection(D, parts)
  BY DEF Surjection
<1>2. IsFiniteSet(parts)
  <2> HIDE DEF part, parts
  <2> QED BY <1>1, FS_Surjection
<1>3. ASSUME NEW P \in parts PROVE IsFiniteSet(P)
  <2>1. PICK x \in D : P = {x} \X (1 .. f[x])
    OBVIOUS
  <2>2. f[x] \in Int
    OBVIOUS
  <2>3. IsFiniteSet(1 .. f[x])
    BY <2>2, FS_Interval
  <2>4. IsFiniteSet({x})
    BY FS_Singleton
  <2> QED BY <2>1, <2>3, <2>4, FS_Product
<1>4. IsFiniteSet(UNION parts)
  <2> HIDE DEF parts
  <2> QED BY <1>2, <1>3, FS_UNION
<1>5. Units(f) = UNION parts
  BY DEF Units
<1> QED BY <1>4, <1>5

\* A total is a natural number.
LEMMA TotalIsNat ==
  ASSUME NEW D, IsFiniteSet(D), NEW f \in [D -> Nat]
  PROVE  Total(f) \in Nat
BY UnitsAreFinite, FS_CardinalityType DEF Total

\* The total of nothing is 0.
LEMMA TotalOfNothing ==
  ASSUME NEW f, DOMAIN f = {}
  PROVE  Total(f) = 0
<1>1. Units(f) = {}
  BY DEF Units
<1> QED BY <1>1, FS_EmptySet DEF Total

\* A total is what one element has, and the total of the others.
LEMMA TotalSplits ==
  ASSUME NEW D, IsFiniteSet(D), NEW f \in [D -> Nat], NEW x \in D
  PROVE  /\ Total(Without(f, x)) \in Nat
         /\ Total(f) = Total(Without(f, x)) + f[x]
<1> DEFINE rest == Without(f, x)
           share == {x} \X (1 .. f[x])
<1>1. rest \in [D \ {x} -> Nat] /\ IsFiniteSet(D \ {x})
  BY FS_RemoveElement DEF Without
<1>2. IsFiniteSet(Units(rest)) /\ IsFiniteSet(Units(f))
  <2> HIDE DEF rest
  <2> QED BY <1>1, UnitsAreFinite
<1>3. IsFiniteSet(share) /\ Cardinality(share) = f[x]
  <2>1. f[x] \in Nat
    OBVIOUS
  <2>2. IsFiniteSet(1 .. f[x]) /\ Cardinality(1 .. f[x]) = f[x]
    BY <2>1, FS_Interval
  <2>3. IsFiniteSet({x}) /\ Cardinality({x}) = 1
    BY FS_Singleton
  <2>4. /\ IsFiniteSet(share)
        /\ Cardinality(share) = Cardinality({x}) * Cardinality(1 .. f[x])
    BY <2>2, <2>3, FS_Product
  <2> QED BY <2>1, <2>2, <2>3, <2>4
<1>4. Units(f) = Units(rest) \cup share
  BY DEF Units, Without
<1>5. Units(rest) \cap share = {}
  BY DEF Units, Without
<1>6. /\ Cardinality(Units(rest)) \in Nat
      /\ Cardinality(Units(f)) = Cardinality(Units(rest))
           + Cardinality(share) - Cardinality(Units(rest) \cap share)
  <2> HIDE DEF rest, share
  <2> QED BY <1>2, <1>3, <1>4, FS_Union, FS_CardinalityType
<1>7. Cardinality(Units(rest) \cap share) = 0
  BY <1>5, FS_EmptySet
<1> QED BY <1>3, <1>6, <1>7 DEF Total

\* An element that is put adds its value to the total of the others.
LEMMA TotalOfPut ==
  ASSUME NEW D, IsFiniteSet(D), NEW f \in [D -> Nat], NEW x, NEW n \in Nat
  PROVE  /\ x \notin D => Total(Put(f, x, n)) = Total(f) + n
         /\ x \in D => Total(Put(f, x, n)) = Total(f) - f[x] + n
<1> DEFINE g == Put(f, x, n)
<1>1. g \in [D \cup {x} -> Nat] /\ IsFiniteSet(D \cup {x}) /\ g[x] = n
  BY FS_AddElement DEF Put
<1>2. /\ Total(Without(g, x)) \in Nat
      /\ Total(g) = Total(Without(g, x)) + n
  <2> HIDE DEF g
  <2> QED BY <1>1, TotalSplits
<1>3. CASE x \notin D
  <2>1. Without(g, x) = f
    BY <1>3 DEF Without, Put
  <2> QED BY <1>2, <1>3, <2>1
<1>4. CASE x \in D
  <2>1. Without(g, x) = Without(f, x)
    BY <1>4 DEF Without, Put
  <2>2. Total(f) = Total(Without(f, x)) + f[x] /\ f[x] \in Nat
    BY <1>4, TotalSplits
  <2> QED BY <1>2, <1>4, <2>1, <2>2
<1> QED BY <1>3, <1>4

\* Elements with nothing do not count.
LEMMA TotalIgnoresZeros ==
  ASSUME NEW D, NEW E, D \subseteq E,
         NEW f \in [D -> Nat], NEW g \in [E -> Nat],
         \A x \in D : g[x] = f[x],
         \A x \in E \ D : g[x] = 0
  PROVE  Total(f) = Total(g)
<1>1. Units(f) \subseteq Units(g)
  BY DEF Units
<1>2. \A x \in E \ D : {x} \X (1 .. g[x]) = {}
  OBVIOUS
<1>3. Units(g) \subseteq Units(f)
  BY <1>2 DEF Units
<1>4. Units(f) = Units(g)
  BY <1>1, <1>3
<1> QED BY <1>4 DEF Total

\* A total follows the one element that changes, ...
LEMMA TotalFollowsOne ==
  ASSUME NEW D, IsFiniteSet(D), NEW f \in [D -> Nat], NEW g \in [D -> Nat],
         NEW a \in D, \A x \in D \ {a} : g[x] = f[x]
  PROVE  /\ Total(f) \in Nat /\ f[a] <= Total(f)
         /\ Total(g) = Total(f) - f[a] + g[a]
<1>1. Without(f, a) = Without(g, a)
  BY DEF Without
<1>2. /\ Total(Without(f, a)) \in Nat
      /\ Total(f) = Total(Without(f, a)) + f[a]
      /\ Total(g) = Total(Without(g, a)) + g[a]
  BY TotalSplits
<1>3. f[a] \in Nat /\ g[a] \in Nat
  OBVIOUS
<1> QED BY <1>1, <1>2, <1>3

\* ... the two, ...
LEMMA TotalFollowsTwo ==
  ASSUME NEW D, IsFiniteSet(D), NEW f \in [D -> Nat], NEW g \in [D -> Nat],
         NEW a \in D, NEW b \in D, a # b,
         \A x \in D \ {a, b} : g[x] = f[x]
  PROVE  Total(g) = Total(f) - f[a] + g[a] - f[b] + g[b]
<1> DEFINE h == [x \in D |-> IF x = a THEN g[a] ELSE f[x]]
<1>1. h \in [D -> Nat] /\ h[a] = g[a] /\ h[b] = f[b]
  OBVIOUS
<1>2. \A x \in D \ {a} : h[x] = f[x]
  OBVIOUS
<1>3. \A x \in D \ {b} : g[x] = h[x]
  OBVIOUS
<1> HIDE DEF h
<1>4. Total(f) \in Nat /\ Total(h) = Total(f) - f[a] + h[a]
  BY <1>1, <1>2, TotalFollowsOne
<1>5. Total(h) \in Nat /\ Total(g) = Total(h) - h[b] + g[b]
  BY <1>1, <1>3, TotalFollowsOne
<1>6. f[a] \in Nat /\ f[b] \in Nat /\ g[a] \in Nat /\ g[b] \in Nat
  OBVIOUS
<1> QED BY <1>1, <1>4, <1>5, <1>6

\* ... or the three.
LEMMA TotalFollowsThree ==
  ASSUME NEW D, IsFiniteSet(D), NEW f \in [D -> Nat], NEW g \in [D -> Nat],
         NEW a \in D, NEW b \in D, NEW c \in D, a # b, a # c, b # c,
         \A x \in D \ {a, b, c} : g[x] = f[x]
  PROVE  Total(g) = Total(f) - f[a] + g[a] - f[b] + g[b] - f[c] + g[c]
<1> DEFINE h == [x \in D |-> IF x = a THEN g[a] ELSE f[x]]
<1>1. h \in [D -> Nat] /\ h[a] = g[a] /\ h[b] = f[b] /\ h[c] = f[c]
  OBVIOUS
<1>2. \A x \in D \ {a} : h[x] = f[x]
  OBVIOUS
<1>3. \A x \in D \ {b, c} : g[x] = h[x]
  OBVIOUS
<1> HIDE DEF h
<1>4. Total(f) \in Nat /\ Total(h) = Total(f) - f[a] + h[a]
  BY <1>1, <1>2, TotalFollowsOne
<1>5. Total(g) = Total(h) - h[b] + g[b] - h[c] + g[c]
  BY <1>1, <1>3, TotalFollowsTwo
<1>6. f[a] \in Nat /\ f[b] \in Nat /\ f[c] \in Nat
        /\ g[a] \in Nat /\ g[b] \in Nat /\ g[c] \in Nat
  OBVIOUS
<1> QED BY <1>1, <1>4, <1>5, <1>6
===========================================================================
