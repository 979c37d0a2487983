----------------------------- MODULE Arithmetic -----------------------------
(***************************************************************************)
(* Lemmas about natural numbers that several proofs rest on: the least     *)
(* element of a set, which stands in for induction, division with          *)
(* remainder and powers of two.                                            *)
(***************************************************************************)
EXTENDS Integers, FiniteSets, FiniteSetTheorems, FunctionTheorems, NaturalsInduction,
        WellFoundedInduction, TLAPS

\* A set of naturals that is not empty has a least element.
LEMMA LeastNatural ==
  ASSUME NEW S, S \subseteq Nat, S # {}
  PROVE  \E m \in S : \A l \in S : m <= l
<1> DEFINE R == OpToRel(<, Nat)
<1>1. IsWellFoundedOn(R, Nat)
  BY NatLessThanWellFounded, Zenon
<1>2. \A x, y \in Nat : y < x => <<y, x>> \in R
  BY DEF OpToRel
<1> HIDE DEF R
<1>3. PICK m \in S : \A l \in S : ~ (<<l, m>> \in R)
  BY <1>1, WFMin, Zenon
<1>4. \A l \in S : ~ (l < m)
  BY <1>2, <1>3, Zenon
<1>5. \A l \in S : m <= l
  BY <1>4
<1> QED
  BY <1>5, Zenon

\* A set that has 0 and each number up to n after the one before it has them all.
LEMMA Upwards ==
  ASSUME NEW n \in Nat, NEW D, 0 \in D, \A k \in 0..n - 1 : k \in D => k + 1 \in D
  PROVE  \A k \in 0..n : k \in D
<1> DEFINE S == {k \in 0..n : k \notin D}
<1>1. S = {}
  <2> SUFFICES ASSUME S # {} PROVE FALSE
    OBVIOUS
  <2>1. PICK m \in S : \A k \in S : m <= k
    <3>1. S \subseteq Nat
      OBVIOUS
    <3> HIDE DEF S
    <3> QED
      BY <3>1, LeastNatural
  <2>2. m - 1 \in 0..n - 1 /\ m - 1 \in 0..n /\ (m - 1) + 1 = m /\ ~(m <= m - 1)
    BY <2>1
  <2>3. m - 1 \in D
    BY <2>1, <2>2
  <2> QED
    BY <2>1, <2>2, <2>3
<1> QED
  BY <1>1

\* A recursion over 0..n from b whose step g stays in S, and the function it defines.
Recursive(n, S, b, g) == n \in Nat /\ b \in S /\ g \in [S \X (1..n) -> S]
Unfolds(n, S, b, g, f) == /\ f \in [0..n -> S] /\ f[0] = b
                          /\ \A k \in 1..n : f[k] = g[<<f[k - 1], k>>]

\* Such a function exists, which is what a recursive definition needs to be one.
LEMMA Recursion ==
  ASSUME NEW n, NEW S, NEW b, NEW g, Recursive(n, S, b, g)
  PROVE  \E f : Unfolds(n, S, b, g, f)
<1> DEFINE Runs(m, f) == Unfolds(m, S, b, g, f)
           Good == {m \in 0..n : \E f : Runs(m, f)}
<1> USE DEF Recursive, Unfolds
<1>1. 0 \in Good
  <2> DEFINE f == [k \in 0..0 |-> b]
  <2>1. Runs(0, f)
    OBVIOUS
  <2> HIDE DEF Runs, f
  <2> QED
    BY <2>1
<1>2. ASSUME NEW m \in 0..n - 1, m \in Good PROVE m + 1 \in Good
  <2>1. PICK f : Runs(m, f)
    BY <1>2
  <2> DEFINE h == [k \in 0..m + 1 |-> IF k = m + 1 THEN g[<<f[m], m + 1>>] ELSE f[k]]
  <2>2. f[m] \in S /\ m + 1 \in 1..n
    BY <2>1
  <2>3. g[<<f[m], m + 1>>] \in S
    BY <2>2
  <2>4. h \in [0..m + 1 -> S] /\ h[0] = b
    BY <2>1, <2>3
  <2>5. ASSUME NEW k \in 1..m + 1 PROVE h[k] = g[<<h[k - 1], k>>]
    <3>1. CASE k = m + 1
      <4>1. k \in 0..m + 1 /\ k - 1 = m /\ m \in 0..m + 1 /\ m # m + 1
        BY <3>1
      <4>2. h[k] = g[<<f[m], k>>] /\ h[k - 1] = f[m]
        BY <3>1, <4>1
      <4> HIDE DEF h
      <4> QED
        BY <4>2
    <3>2. CASE k # m + 1
      <4>1. k \in 1..m /\ k \in 0..m + 1 /\ k - 1 \in 0..m + 1 /\ k - 1 # m + 1
        BY <3>2
      <4>2. h[k] = f[k] /\ h[k - 1] = f[k - 1]
        BY <3>2, <4>1
      <4> HIDE DEF h
      <4> QED
        BY <2>1, <4>1, <4>2
    <3> QED
      BY <3>1, <3>2
  <2>6. Runs(m + 1, h)
    <3> HIDE DEF h
    <3> QED
      BY <2>4, <2>5
  <2> HIDE DEF Runs, h
  <2> QED
    BY <2>6
<1>3. n \in Good
  <2>1. n \in Nat
    OBVIOUS
  <2> HIDE DEF Good
  <2> QED
    BY <1>1, <1>2, <2>1, Upwards
<1> QED
  BY <1>3

\* What division and remainder are, the way the provers can use it.
LEMMA DivMod ==
  ASSUME NEW a \in Int, NEW d \in Nat \ {0}
  PROVE  /\ a \div d \in Int /\ a % d \in 0..d - 1
         /\ a = d * (a \div d) + (a % d)
<1>1. a \div d \in Int
  OBVIOUS
<1>2. a % d \in 0..d - 1
  OBVIOUS
<1>3. a = d * (a \div d) + (a % d)
  OBVIOUS
<1> QED
  BY <1>1, <1>2, <1>3

\* A quotient is within the bounds of its dividend.
LEMMA DivBounds ==
  ASSUME NEW a \in Nat, NEW d \in Nat \ {0}, NEW m \in Nat, a < d * m
  PROVE  a \div d \in 0..m - 1
<1> DEFINE q == a \div d
<1>1. q \in Int /\ a % d \in 0..d - 1 /\ a = d * q + (a % d)
  BY DivMod
<1>2. q < m
  <2>1. SUFFICES ASSUME q >= m PROVE FALSE
    BY <1>1
  <2>2. d * q >= d * m
    BY <1>1, <2>1
  <2> QED
    BY <1>1, <2>2
<1>3. q >= 0
  <2>1. SUFFICES ASSUME q <= -1 PROVE FALSE
    BY <1>1
  <2>2. d * q <= d * (-1)
    BY <1>1, <2>1
  <2> QED
    BY <1>1, <2>2
<1> QED
  BY <1>1, <1>2, <1>3

\* Quotient and remainder are the only ones with that product and sum.
LEMMA Quotient ==
  ASSUME NEW d \in Nat \ {0}, NEW q \in Int, NEW r \in 0..d - 1
  PROVE  (d * q + r) \div d = q /\ (d * q + r) % d = r
<1> DEFINE a == d * q + r
           p == a \div d
           s == a % d
<1>1. a \in Int
  OBVIOUS
<1>2. p \in Int /\ s \in 0..d - 1 /\ a = d * p + s
  BY <1>1, DivMod
<1>3. d * (p - q) = r - s
  <2>1. d * p + s = d * q + r
    BY <1>2
  <2> HIDE DEF a, p, s
  <2> QED
    BY <1>2, <2>1
<1> HIDE DEF a, p, s
<1>4. ~(p - q >= 1)
  <2> SUFFICES ASSUME p - q >= 1 PROVE FALSE
    OBVIOUS
  <2>1. d * (p - q) >= d
    BY <1>2
  <2> QED
    BY <1>2, <1>3, <2>1
<1>5. ~(p - q <= -1)
  <2> SUFFICES ASSUME p - q <= -1 PROVE FALSE
    OBVIOUS
  <2>1. d * (p - q) <= -d
    BY <1>2
  <2> QED
    BY <1>2, <1>3, <2>1
<1>6. p = q
  BY <1>2, <1>4, <1>5
<1>7. s = r
  BY <1>2, <1>3, <1>6
<1> QED
  BY <1>6, <1>7 DEF p, s, a

\* Division goes digit by digit: by a and then by b as by their product.
LEMMA Digits ==
  ASSUME NEW x \in Int, NEW a \in Nat \ {0}, NEW b \in Nat \ {0}
  PROVE  /\ x \div (a * b) = (x \div a) \div b
         /\ (x % (a * b)) \div a = ((x \div a) % b)
         /\ ((x % (a * b)) % a) = x % a
<1> DEFINE q == x \div a
           r == x % a
           p == q \div b
           s == q % b
           t == a * s + r
<1>1. q \in Int /\ r \in 0..a - 1 /\ x = a * q + r
  BY DivMod
<1>2. p \in Int /\ s \in 0..b - 1 /\ q = b * p + s
  <2> HIDE DEF q
  <2> QED
    BY <1>1, DivMod
<1> HIDE DEF q, r, p, s
<1>3. a * b \in Nat \ {0} /\ t \in 0..a * b - 1
  <2>1. a * s >= 0 /\ a * s <= a * (b - 1)
    BY <1>2
  <2>2. a * (b - 1) = a * b - a
    OBVIOUS
  <2>3. a * b >= a
    OBVIOUS
  <2> DEFINE m == a * s
             n == a * b
  <2>4. m \in Int /\ n \in Int
    BY <1>2
  <2> HIDE DEF m, n
  <2> QED
    BY <1>1, <2>1, <2>2, <2>3, <2>4 DEF m, n
<1>4. x = (a * b) * p + t
  <2>1. a * (b * p + s) = (a * b) * p + a * s
    BY <1>2
  <2> QED
    BY <1>1, <1>2, <2>1
<1>5. x \div (a * b) = p /\ x % (a * b) = t
  <2> DEFINE d == a * b
  <2>1. d \in Nat \ {0} /\ t \in 0..d - 1 /\ x = d * p + t
    BY <1>3, <1>4
  <2> HIDE DEF d, t
  <2>2. x \div d = p /\ x % d = t
    BY <1>2, <2>1, Quotient
  <2> QED
    BY <2>2 DEF d
<1>6. t \div a = s /\ t % a = r
  BY <1>1, <1>2, Quotient
<1> QED
  BY <1>5, <1>6 DEF q, r, p, s

\* A power of two is the number of subsets, so the next one is its double.
LEMMA NextPower ==
  ASSUME NEW n \in Nat
  PROVE  2 ^ n \in Nat /\ 2 ^ (n + 1) = 2 * 2 ^ n
<1> DEFINE S == 1..n
           T == 1..n + 1
           Old == SUBSET S
           New == {X \cup {n + 1} : X \in Old}
           f == [X \in Old |-> X \cup {n + 1}]
<1>1. IsFiniteSet(S) /\ Cardinality(S) = n /\ IsFiniteSet(T) /\ Cardinality(T) = n + 1
  <2>1. (n > 0 => n - 1 + 1 = n) /\ (n + 1) - 1 + 1 = n + 1
    OBVIOUS
  <2> QED
    BY <2>1, FS_Interval
<1>2. /\ IsFiniteSet(Old) /\ Cardinality(Old) = 2 ^ n /\ Cardinality(Old) \in Nat
      /\ IsFiniteSet(SUBSET T) /\ Cardinality(SUBSET T) = 2 ^ (n + 1)
  <2> HIDE DEF S, T
  <2>1. /\ IsFiniteSet(SUBSET S) /\ Cardinality(SUBSET S) = 2 ^ Cardinality(S)
        /\ IsFiniteSet(SUBSET T) /\ Cardinality(SUBSET T) = 2 ^ Cardinality(T)
    BY <1>1, FS_SUBSET
  <2> QED
    BY <1>1, <2>1, FS_CardinalityType
<1>3. n + 1 \notin S /\ T = S \cup {n + 1}
  OBVIOUS
<1> HIDE DEF S, T
<1>4. SUBSET T = Old \cup New
  <2>1. ASSUME NEW X \in SUBSET T, n + 1 \in X PROVE X \in New
    <3>1. X \ {n + 1} \in Old /\ X = (X \ {n + 1}) \cup {n + 1}
      BY <1>3, <2>1
    <3> QED
      BY <3>1
  <2>2. ASSUME NEW X \in SUBSET T, n + 1 \notin X PROVE X \in Old
    BY <1>3, <2>2
  <2>3. Old \subseteq SUBSET T /\ New \subseteq SUBSET T
    BY <1>3
  <2> HIDE DEF Old, New
  <2> QED
    BY <2>1, <2>2, <2>3
<1>5. Old \cap New = {}
  BY <1>3
<1>6. f \in Bijection(Old, New)
  <2>1. f \in [Old -> New]
    OBVIOUS
  <2>2. \A X, Y \in Old : f[X] = f[Y] => X = Y
    <3> SUFFICES ASSUME NEW X \in Old, NEW Y \in Old, X \cup {n + 1} = Y \cup {n + 1} PROVE X = Y
      OBVIOUS
    <3>1. n + 1 \notin X /\ n + 1 \notin Y
      BY <1>3
    <3>2. \A e : e \in X <=> e \in Y
      BY <3>1
    <3> QED
      BY <3>2
  <2>3. \A Y \in New : \E X \in Old : f[X] = Y
    OBVIOUS
  <2> HIDE DEF f, Old, New
  <2>4. f \in Injection(Old, New)
    BY <2>1, <2>2 DEF Injection, IsInjective
  <2>5. f \in Surjection(Old, New)
    BY <2>1, <2>3 DEF Surjection
  <2> QED
    BY <2>4, <2>5 DEF Bijection
<1> HIDE DEF f, Old, New
<1>7. IsFiniteSet(New) /\ Cardinality(New) = Cardinality(Old)
  <2>1. ExistsBijection(Old, New)
    BY <1>6 DEF ExistsBijection
  <2> QED
    BY <1>2, <2>1, FS_Bijection
<1>8. Cardinality(Old \cup New) = Cardinality(Old) + Cardinality(New) - Cardinality(Old \cap New)
  BY <1>2, <1>7, FS_Union
<1>9. Cardinality(Old \cap New) = 0
  BY <1>5, FS_EmptySet
<1>10. PICK c \in Nat : c = Cardinality(Old)
  BY <1>2
<1>11. Cardinality(Old \cup New) = c + c - 0
  BY <1>7, <1>8, <1>9, <1>10, Zenon
<1>12. 2 ^ n = c /\ 2 ^ (n + 1) = c + c - 0
  BY <1>2, <1>4, <1>10, <1>11, Zenon
<1> QED
  BY <1>12

\* Powers of two are positive, and the power of a sum is the product.
LEMMA Powers ==
  ASSUME NEW a \in Nat, NEW b \in Nat
  PROVE  /\ 2 ^ a \in Nat \ {0} /\ 2 ^ 0 = 1 /\ 2 ^ 1 = 2
         /\ 2 ^ (a + b) = 2 ^ a * 2 ^ b
         /\ a < b => 2 ^ a < 2 ^ b
<1>1. 2 ^ 0 = 1 /\ 2 ^ 1 = 2
  OBVIOUS
<1>2. ASSUME NEW n \in Nat PROVE 2 ^ n \in Nat \ {0}
  <2> DEFINE S == {k \in Nat : 2 ^ k = 0}
  <2>1. S = {}
    <3> SUFFICES ASSUME S # {} PROVE FALSE
      OBVIOUS
    <3>1. PICK m \in S : \A k \in S : m <= k
      <4>1. S \subseteq Nat
        OBVIOUS
      <4> HIDE DEF S
      <4> QED
        BY <4>1, LeastNatural
    <3>2. m \in Nat /\ 2 ^ m = 0
      BY <3>1
    <3>3. m # 0
      <4>1. m = 0 => 2 ^ m = 2 ^ 0
        BY Zenon
      <4> QED
        BY <1>1, <3>2, <4>1
    <3>4. m - 1 \in Nat /\ (m - 1) + 1 = m
      BY <3>2, <3>3
    <3>5. 2 ^ (m - 1) \in Nat /\ 2 ^ m = 2 * 2 ^ (m - 1)
      BY <3>4, NextPower
    <3>6. 2 ^ (m - 1) = 0
      BY <3>2, <3>5
    <3>7. m - 1 \in S
      BY <3>4, <3>6
    <3>8. m <= m - 1
      <4> HIDE DEF S
      <4> QED
        BY <3>1, <3>7
    <3> QED
      BY <3>2, <3>8
  <2> QED
    BY <2>1, NextPower
<1>3. ASSUME NEW p \in Nat, NEW n \in Nat PROVE 2 ^ (p + n) = 2 ^ p * 2 ^ n
  <2> DEFINE S == {k \in Nat : 2 ^ (p + k) # 2 ^ p * 2 ^ k}
  <2>1. S = {}
    <3> SUFFICES ASSUME S # {} PROVE FALSE
      OBVIOUS
    <3>1. PICK m \in S : \A k \in S : m <= k
      <4>1. S \subseteq Nat
        OBVIOUS
      <4> HIDE DEF S
      <4> QED
        BY <4>1, LeastNatural
    <3>2. m \in Nat /\ 2 ^ (p + m) # 2 ^ p * 2 ^ m
      BY <3>1
    <3>3. m # 0
      <4> SUFFICES ASSUME m = 0 PROVE FALSE
        OBVIOUS
      <4>1. p + m = p /\ 2 ^ m = 1
        BY <1>1
      <4>2. 2 ^ (p + m) = 2 ^ p
        BY <4>1, Zenon
      <4>3. 2 ^ p * 2 ^ m = 2 ^ p
        BY <1>2, <4>1
      <4> QED
        BY <3>2, <4>2, <4>3
    <3>4. m - 1 \in Nat /\ (m - 1) + 1 = m /\ p + (m - 1) \in Nat /\ (p + (m - 1)) + 1 = p + m
      BY <3>2, <3>3
    <3>5. m - 1 \notin S
      <4> HIDE DEF S
      <4>1. ~(m <= m - 1)
        BY <3>2
      <4> QED
        BY <3>1, <4>1
    <3>6. 2 ^ (p + (m - 1)) = 2 ^ p * 2 ^ (m - 1)
      BY <3>4, <3>5, Zenon
    <3>7. 2 ^ m = 2 * 2 ^ (m - 1)
      BY <3>4, NextPower
    <3>8. 2 ^ (p + m) = 2 * 2 ^ (p + (m - 1))
      BY <3>4, NextPower
    <3>9. \A x, y \in Nat : 2 * (x * y) = x * (2 * y)
      OBVIOUS
    <3> QED
      BY <1>2, <3>2, <3>4, <3>6, <3>7, <3>8, <3>9
  <2> QED
    BY <2>1
<1>4. ASSUME a < b PROVE 2 ^ a < 2 ^ b
  <2>1. b - a - 1 \in Nat /\ a + ((b - a - 1) + 1) = b /\ (b - a - 1) + 1 \in Nat
    BY <1>4
  <2>2. PICK c \in Nat : c = b - a - 1
    BY <2>1
  <2>3. 2 ^ b = 2 ^ a * 2 ^ (c + 1) /\ 2 ^ (c + 1) = 2 * 2 ^ c
    BY <1>3, <2>1, <2>2, NextPower
  <2>4. 2 ^ a \in Nat \ {0} /\ 2 ^ c \in Nat \ {0}
    BY <1>2
  <2>5. \A x, y \in Nat \ {0} : x < x * (2 * y)
    OBVIOUS
  <2> QED
    BY <2>3, <2>4, <2>5
<1> QED
  BY <1>1, <1>2, <1>3, <1>4
=============================================================================
