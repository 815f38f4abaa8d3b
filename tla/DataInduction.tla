--------------------------- MODULE DataInduction ----------------------------
(***************************************************************************)
(* Induction over natural numbers, with the predicate given as a set, and  *)
(* what the proofs about recursively computed data need with it: that such *)
(* a function exists, arrays, division with remainder and powers of two.   *)
(***************************************************************************)
EXTENDS Integers, Sequences, SequenceTheorems, FiniteSetTheorems, WellFoundedInduction, TLAPS

\* A nonempty set of naturals has a least element.
LEMMA LeastNat ==
  ASSUME NEW S \in SUBSET Nat, S # {}
  PROVE  \E m \in S : \A k \in S : m <= k
<1>1. PICK m \in S : \A k \in S : ~ (<<k, m>> \in OpToRel(<, Nat))
  BY NatLessThanWellFounded, WFMin
<1>2. \A k \in S : ~ (k < m)
  <2>1. \A k \in S : k < m => <<k, m>> \in OpToRel(<, Nat)
    BY DEF OpToRel
  <2> QED BY <2>1, <1>1
<1>3. \A k \in S : k \in Nat /\ m \in Nat
  BY <1>1
<1>4. \A k \in S : m <= k
  BY <1>2, <1>3
<1> QED BY <1>1, <1>4

\* Induction, for a set instead of a predicate.
LEMMA SetInduction ==
  ASSUME NEW S, 0 \in S, \A n \in Nat : n \in S => n + 1 \in S
  PROVE  \A n \in Nat : n \in S
<1>1. SUFFICES ASSUME NEW n \in Nat, n \notin S PROVE FALSE
  OBVIOUS
<1>2. PICK m \in {k \in Nat : k \notin S} : \A k \in {j \in Nat : j \notin S} : m <= k
  <2>1. n \in {k \in Nat : k \notin S}
    BY <1>1
  <2> QED BY <2>1, LeastNat
<1>3. m # 0
  BY <1>2
<1>4. m - 1 \in Nat /\ m - 1 \in S
  BY <1>2, <1>3
<1> QED BY <1>4, <1>2

\* f is computed along 0 .. n from base by step.
Computed(f, n, base, step) ==
  f = [i \in 0 .. n |-> IF i = 0 THEN base ELSE step[<<i, f[i - 1]>>]]

\* Such a function exists.
LEMMA Computable ==
  ASSUME NEW n \in Nat, NEW T, NEW base \in T, NEW step \in [(1 .. n) \X T -> T]
  PROVE  \E f \in [0 .. n -> T] : Computed(f, n, base, step)
<1> DEFINE Good(k, f) == f \in [0 .. k -> T] /\ f[0] = base /\ \A i \in 1 .. k : f[i] = step[<<i, f[i-1]>>]
           S == {k \in Nat : k <= n => \E f \in [0 .. k -> T] : Good(k, f)}
<1>1. 0 \in S
  <2>1. Good(0, [i \in 0 .. 0 |-> base]) OBVIOUS
  <2> QED BY <2>1
<1>2. ASSUME NEW k \in Nat, k \in S PROVE k + 1 \in S
  <2>1. SUFFICES ASSUME k + 1 <= n PROVE \E f \in [0 .. (k+1) -> T] : Good(k+1, f)
    OBVIOUS
  <2>2. PICK f \in [0 .. k -> T] : Good(k, f) BY <1>2, <2>1
  <2> DEFINE g == [i \in 0 .. (k+1) |-> IF i = k + 1 THEN step[<<k + 1, f[k]>>] ELSE f[i]]
  <2>3. step[<<k+1, f[k]>>] \in T
    <3>1. f[k] \in T BY <2>2
    <3>2. <<k+1, f[k]>> \in (1 .. n) \X T BY <3>1, <2>1
    <3> QED BY <3>2
  <2>4. g \in [0 .. (k+1) -> T]
    <3>1. \A i \in 0 .. (k + 1) : i # k + 1 => i \in 0 .. k OBVIOUS
    <3> QED BY <2>3, <3>1, <2>2
  <2>5. g[0] = base BY <2>2
  <2>6. ASSUME NEW i \in 1 .. (k+1) PROVE g[i] = step[<<i, g[i-1]>>]
    <3>1. CASE i = k + 1
      <4>1. k + 1 \in 0 .. (k+1) /\ k \in 0 .. (k+1) /\ k # k + 1 /\ (k + 1) - 1 = k OBVIOUS
      <4>2. g[k+1] = step[<<k+1, f[k]>>] /\ g[k] = f[k] BY <4>1
      <4> HIDE DEF g
      <4> QED BY <3>1, <4>1, <4>2
    <3>2. CASE i \in 1 .. k
      <4>1. i \in 0 .. (k+1) /\ i - 1 \in 0 .. (k+1) /\ i # k + 1 /\ i - 1 # k + 1 BY <3>2
      <4>2. g[i] = f[i] /\ g[i-1] = f[i-1] BY <4>1
      <4>3. f[i] = step[<<i, f[i-1]>>] BY <3>2, <2>2
      <4> HIDE DEF g
      <4> QED BY <4>2, <4>3
    <3> QED BY <3>1, <3>2
  <2> QED BY <2>4, <2>5, <2>6
<1>3. n \in S
  <2> HIDE DEF S
  <2> QED BY <1>1, <1>2, SetInduction
<1>4. PICK f \in [0 .. n -> T] : Good(n, f) BY <1>3
<1>5. f = [i \in 0 .. n |-> IF i = 0 THEN base ELSE step[<<i, f[i-1]>>]]
  <2>1. \A i \in 0 .. n : i # 0 => i \in 1 .. n OBVIOUS
  <2> QED BY <1>4, <2>1
<1> QED BY <1>5 DEF Computed

-----------------------------------------------------------------------------

\* A sequence, whatever it holds.
IsArray(f) == Len(f) \in Nat /\ f = [i \in 1 .. Len(f) |-> f[i]]

\* Any function on 1 .. n is one, of length n.
LEMMA ArrayLength ==
  ASSUME NEW f, NEW n \in Nat, f = [i \in 1 .. n |-> f[i]]
  PROVE  IsArray(f) /\ Len(f) = n /\ f \in Seq({f[i] : i \in 1 .. n})
<1> DEFINE T == {f[i] : i \in 1 .. n}
<1>1. f \in [1 .. n -> T]
  OBVIOUS
<1>2. f \in Seq(T) /\ Len(f) = n
  BY <1>1
<1> QED BY <1>2 DEF IsArray

\* append of one element.
LEMMA ArrayAppend ==
  ASSUME NEW f, IsArray(f), NEW e
  PROVE  /\ IsArray(Append(f, e)) /\ Len(Append(f, e)) = Len(f) + 1
         /\ \A i \in 1 .. Len(f) : Append(f, e)[i] = f[i]
         /\ Append(f, e)[Len(f) + 1] = e
<1> DEFINE T == {f[i] : i \in 1 .. Len(f)} \cup {e}
<1>1. f \in Seq(T)
  <2>1. f \in [1 .. Len(f) -> T] /\ Len(f) \in Nat
    BY DEF IsArray
  <2> HIDE DEF T
  <2> QED BY <2>1
<1>2. e \in T
  OBVIOUS
<1> HIDE DEF T
<1>3. Append(f, e) \in Seq(T) /\ Len(Append(f, e)) = Len(f) + 1
      /\ \A i \in 1 .. Len(f) : Append(f, e)[i] = f[i]
      /\ Append(f, e)[Len(f) + 1] = e
  BY <1>1, <1>2
<1>4. IsArray(Append(f, e))
  <2> DEFINE a == Append(f, e)
  <2>1. a \in Seq(T)
    BY <1>3
  <2> HIDE DEF a
  <2>2. a \in [1 .. Len(a) -> T] /\ Len(a) \in Nat
    BY <2>1
  <2>3. IsArray(a)
    BY <2>2 DEF IsArray
  <2> QED BY <2>3 DEF a
<1> QED BY <1>3, <1>4

\* Division with remainder.
LEMMA DivMod ==
  ASSUME NEW x \in Nat, NEW P \in Nat \ {0}
  PROVE  x = (x \div P) * P + (x % P) /\ x % P \in 0 .. P - 1 /\ x \div P \in Nat
<1> x \in Int /\ P \in Int /\ P > 0
  OBVIOUS
<1>1. x = P * (x \div P) + (x % P)
  OBVIOUS
<1>2. x \div P \in Int /\ x % P \in 0 .. (P - 1)
  OBVIOUS
<1> DEFINE u == x \div P
<1> HIDE DEF u
<1>3. u \in Nat
  <2>1. x = P * u + (x % P) /\ x % P \in Nat /\ x % P < P /\ u \in Int
    BY <1>1, <1>2 DEF u
  <2>2. ASSUME u < 0 PROVE P * u <= -P
    <3>1. PICK d \in Nat : u = -1 - d
      <4>1. -1 - u \in Nat /\ u = -1 - (-1 - u)
        BY <2>1, <2>2
      <4> QED BY <4>1
    <3>2. P * u = -P - P * d /\ P * d \in Nat
      BY <3>1
    <3> QED BY <3>2
  <2> QED BY <2>1, <2>2
<1>4. P * u = u * P
  BY <1>3
<1> QED BY <1>1, <1>3, <1>4 DEF u

\* A product with a larger factor.
LEMMA MulMono ==
  ASSUME NEW a \in Nat, NEW b \in Nat, NEW P \in Nat, a <= b
  PROVE  a * P <= b * P /\ a * P \in Nat /\ b * P \in Nat
<1>1. PICK d \in Nat : b = a + d
  <2>1. b - a \in Nat /\ b = a + (b - a)
    OBVIOUS
  <2> QED BY <2>1
<1>2. b * P = a * P + d * P
  BY <1>1
<1>3. a * P \in Nat /\ d * P \in Nat
  OBVIOUS
<1> QED BY <1>2, <1>3

\* Quotient and remainder are determined.
LEMMA DivUnique ==
  ASSUME NEW x \in Nat, NEW P \in Nat \ {0}, NEW q \in Nat, NEW r \in 0 .. P - 1, x = q * P + r
  PROVE  x \div P = q /\ x % P = r
<1> DEFINE u == x \div P  v == x % P
<1>1. u \in Nat /\ v \in 0 .. P - 1 /\ x = u * P + v
  BY DivMod
<1> HIDE DEF u, v
<1>2. CASE u < q
  <2>1. (u + 1) * P <= q * P /\ (u + 1) * P = u * P + P
    BY <1>1, <1>2, MulMono
  <2> QED BY <2>1, <1>1
<1>3. CASE q < u
  <2>1. (q + 1) * P <= u * P /\ (q + 1) * P = q * P + P
    BY <1>1, <1>3, MulMono
  <2> QED BY <2>1, <1>1
<1>4. CASE u = q
  BY <1>1, <1>4 DEF u, v
<1> QED BY <1>1, <1>2, <1>3, <1>4

\* A factor may be reduced before a product is.
LEMMA ModTimes ==
  ASSUME NEW a \in Nat, NEW b \in Nat, NEW p \in Nat \ {0}
  PROVE  ((a % p) * b) % p = (a * b) % p /\ (b * (a % p)) % p = (b * a) % p
<1> DEFINE w == a \div p  r == a % p
<1>1. w \in Nat /\ r \in Nat /\ a = w * p + r
  BY DivMod
<1> HIDE DEF w, r
<1> DEFINE u == (r * b) \div p  v == (r * b) % p
<1>2. r * b \in Nat
  BY <1>1
<1>3. u \in Nat /\ v \in 0 .. p - 1 /\ r * b = u * p + v
  <2> DEFINE x == r * b
  <2>1. x = (x \div p) * p + (x % p) /\ x % p \in 0 .. p - 1 /\ x \div p \in Nat
    <3> HIDE DEF x
    <3> QED BY <1>2, DivMod DEF x
  <2> QED BY <2>1
<1> HIDE DEF u, v
<1>4. a * b = (w * b + u) * p + v
  <2>1. a * b = (w * p + r) * b
    BY <1>1
  <2>2. (w * p + r) * b = (w * b) * p + r * b
    BY <1>1
  <2>3. (w * b + u) * p = (w * b) * p + u * p
    BY <1>1, <1>3
  <2>4. w * b \in Nat /\ (w * b) * p \in Nat /\ u * p \in Nat
    BY <1>1, <1>3
  <2> QED BY <2>1, <2>2, <2>3, <2>4, <1>3
<1>5. (a * b) % p = v
  <2> DEFINE x == a * b  y == w * b + u
  <2>1. x \in Nat /\ y \in Nat /\ x = y * p + v
    BY <1>1, <1>3, <1>4
  <2> HIDE DEF x, y
  <2>2. x % p = v
    BY <2>1, <1>3, DivUnique
  <2> QED BY <2>2 DEF x
<1>6. a * b = b * a /\ b * r = r * b
  BY <1>1
<1> QED BY <1>5, <1>6 DEF r, v

-----------------------------------------------------------------------------

\* The next power of two is twice as large: a set with one more element has
\* twice as many subsets.
LEMMA PowerStep ==
  ASSUME NEW n \in Nat
  PROVE  2 ^ n \in Nat \ {0} /\ 2 ^ (n + 1) = 2 * 2 ^ n
<1> DEFINE S == 1 .. n  T == 1 .. (n + 1)  e == n + 1
           U == {X \in SUBSET T : e \in X}
           f == [X \in SUBSET S |-> X \cup {e}]
<1>1. IsFiniteSet(S) /\ Cardinality(S) = n /\ IsFiniteSet(T) /\ Cardinality(T) = n + 1
  <2>1. IsFiniteSet(S) /\ Cardinality(S) = IF 1 > n THEN 0 ELSE n - 1 + 1
    BY FS_Interval
  <2>2. IsFiniteSet(T) /\ Cardinality(T) = IF 1 > n + 1 THEN 0 ELSE (n + 1) - 1 + 1
    <3>1. n + 1 \in Int
      OBVIOUS
    <3> QED BY <3>1, FS_Interval
  <2> QED BY <2>1, <2>2
<1>2. /\ IsFiniteSet(SUBSET S) /\ Cardinality(SUBSET S) = 2 ^ n
      /\ IsFiniteSet(SUBSET T) /\ Cardinality(SUBSET T) = 2 ^ (n + 1)
  BY <1>1, FS_SUBSET
<1>3. SUBSET T = (SUBSET S) \cup U /\ (SUBSET S) \cap U = {} /\ U \subseteq SUBSET T
  <2>1. T = S \cup {e} /\ e \notin S
    OBVIOUS
  <2> HIDE DEF S, T, e
  <2> QED BY <2>1
<1>4. f \in Bijection(SUBSET S, U)
  <2>1. T = S \cup {e} /\ e \notin S
    OBVIOUS
  <2> HIDE DEF S, T, e
  <2>2. f \in [SUBSET S -> U]
    BY <2>1
  <2>3. \A X, Y \in SUBSET S : f[X] = f[Y] => X = Y
    BY <2>1
  <2>4. ASSUME NEW Y \in U PROVE \E X \in SUBSET S : f[X] = Y
    <3>1. Y \ {e} \in SUBSET S /\ f[Y \ {e}] = Y
      BY <2>1
    <3> QED BY <3>1
  <2> HIDE DEF f, U
  <2> QED BY <2>2, <2>3, <2>4 DEF Bijection, Injection, Surjection, IsInjective
<1>5. IsFiniteSet(U) /\ Cardinality(U) = 2 ^ n
  <2>1. ExistsBijection(SUBSET S, U)
    BY <1>4 DEF ExistsBijection
  <2> HIDE DEF S, U, f
  <2> QED BY <2>1, <1>2, FS_Bijection
<1> HIDE DEF S, T, U, f
<1>6. Cardinality({}) = 0
  BY FS_EmptySet
<1>7. Cardinality(SUBSET T) = Cardinality(SUBSET S) + Cardinality(U) - Cardinality((SUBSET S) \cap U)
  BY <1>2, <1>3, <1>5, FS_Union
<1>8. 2 ^ n \in Nat /\ SUBSET S # {}
  <2>1. {} \in SUBSET S
    OBVIOUS
  <2> QED BY <2>1, <1>2, FS_CardinalityType
<1>9. 2 ^ n # 0
  BY <1>2, <1>8, FS_EmptySet
<1> DEFINE p == 2 ^ n  q == 2 ^ (n + 1)  c == Cardinality(SUBSET S)  d == Cardinality(SUBSET T)  u == Cardinality(U)
<1>10. q = d /\ c = p /\ u = p /\ d = c + u - 0
  BY <1>2, <1>3, <1>5, <1>6, <1>7
<1>11. p \in Nat \ {0} /\ p + p = 2 * p
  BY <1>8, <1>9
<1> HIDE DEF p, q, c, d, u
<1>12. q = 2 * p
  BY <1>10, <1>11
<1> QED BY <1>11, <1>12 DEF p, q

\* Powers of two multiply.
LEMMA PowerSum ==
  ASSUME NEW a \in Nat, NEW b \in Nat
  PROVE  2 ^ (a + b) = 2 ^ a * 2 ^ b
<1> DEFINE S == {k \in Nat : 2 ^ (a + k) = 2 ^ a * 2 ^ k}
<1>1. 0 \in S
  <2>1. 2 ^ 0 = 1 /\ a + 0 = a /\ 2 ^ a \in Nat
    BY PowerStep
  <2> QED BY <2>1
<1>2. ASSUME NEW k \in Nat, k \in S PROVE k + 1 \in S
  <2> DEFINE u == 2 ^ a  v == 2 ^ k  w == 2 ^ (a + k)
  <2>1. 2 ^ (k + 1) = 2 * v /\ 2 ^ ((a + k) + 1) = 2 * w /\ w = u * v /\ u \in Nat /\ v \in Nat
    <3>1. a + k \in Nat
      OBVIOUS
    <3>2. 2 ^ (k + 1) = 2 * 2 ^ k /\ 2 ^ ((a + k) + 1) = 2 * 2 ^ (a + k) /\ 2 ^ a \in Nat /\ 2 ^ k \in Nat
      BY <3>1, PowerStep
    <3> QED BY <3>2, <1>2
  <2>2. a + (k + 1) = (a + k) + 1
    OBVIOUS
  <2> HIDE DEF u, v, w
  <2>3. 2 * (u * v) = u * (2 * v)
    BY <2>1
  <2>4. 2 ^ (a + (k + 1)) = 2 * (u * v)
    BY <2>1, <2>2
  <2> QED BY <2>1, <2>3, <2>4 DEF u, v, w
<1> HIDE DEF S
<1>3. b \in S
  BY <1>1, <1>2, SetInduction
<1> QED BY <1>3 DEF S

\* The larger exponent gives the larger power.
LEMMA PowerMono ==
  ASSUME NEW a \in Nat, NEW b \in Nat, a <= b
  PROVE  2 ^ a <= 2 ^ b
<1>1. b - a \in Nat /\ b = a + (b - a)
  OBVIOUS
<1> DEFINE d == b - a  u == 2 ^ a  v == 2 ^ d
<1> HIDE DEF d
<1>2. 2 ^ b = u * v /\ u \in Nat /\ v \in Nat \ {0}
  BY <1>1, PowerSum, PowerStep DEF d
<1> HIDE DEF u, v
<1>3. u * 1 <= u * v
  <2>1. 1 * u <= v * u
    BY <1>2, MulMono
  <2> QED BY <2>1, <1>2
<1> QED BY <1>2, <1>3 DEF u

\* Quotient and remainder exist.
LEMMA DivExists ==
  ASSUME NEW x \in Nat, NEW p \in Nat \ {0}
  PROVE  \E q \in Nat, r \in 0 .. p - 1 : x = q * p + r
<1> DEFINE u == x \div p  v == x % p
<1>1. u \in Nat /\ v \in 0 .. p - 1 /\ x = u * p + v
  BY DivMod
<1> HIDE DEF u, v
<1>2. \E q \in Nat : \E r \in 0 .. p - 1 : x = q * p + r
  BY <1>1
<1> QED BY <1>2

\* A number below p is its own remainder.
LEMMA ModSmall ==
  ASSUME NEW x \in Nat, NEW p \in Nat \ {0}, x < p
  PROVE  x % p = x /\ x \div p = 0
<1>1. x = 0 * p + x /\ x \in 0 .. p - 1
  OBVIOUS
<1> QED BY <1>1, DivUnique

\* A quotient is small if the dividend is.
LEMMA DivSmall ==
  ASSUME NEW x \in Nat, NEW p \in Nat \ {0}, NEW q \in Nat, x < p * q
  PROVE  x \div p < q
<1> DEFINE a == x \div p  r == x % p
<1>1. a \in Nat /\ r \in 0 .. p - 1 /\ x = a * p + r
  BY DivMod
<1> HIDE DEF a, r
<1>2. SUFFICES ASSUME q <= a PROVE FALSE
  BY <1>1 DEF a
<1>3. q * p <= a * p /\ q * p = p * q
  BY <1>1, <1>2, MulMono
<1> DEFINE u == q * p  v == a * p  w == p * q
<1>4. u <= v /\ u = w /\ x = v + r /\ x < w /\ u \in Nat /\ v \in Nat
  BY <1>1, <1>3
<1> HIDE DEF u, v, w
<1> QED BY <1>1, <1>4
=============================================================================
