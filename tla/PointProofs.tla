----------------------------- MODULE PointProofs -----------------------------
(***************************************************************************)
(* Theorems about the group law, for every prime field in which -1 is a    *)
(* square and D is none: whatever formulas and coordinate systems the      *)
(* accumulator passes through, it stands for the sum of the points it was  *)
(* given, and comparisons and encodings depend on that point alone.        *)
(***************************************************************************)
EXTENDS CurvePoint, DataInduction

-----------------------------------------------------------------------------
\* Residues.  Every operation of the field is the residue of an operation on
\* integers, so an identity of polynomials over the integers holds in the field.

Mod(a) == a % P

\* The modulus is at least two, and elements are integers.
LEMMA Elements == /\ P \in Nat \ {0, 1} /\ 0 \in Fe /\ 1 \in Fe
                  /\ \A x \in Fe : x \in Nat /\ x \in Int /\ x < P
BY FieldAssumption DEF Fe

\* A residue is an element, and an element is its own residue.
LEMMA ModIs ==
  ASSUME NEW a \in Int
  PROVE  /\ Mod(a) \in Fe /\ Mod(a) \in Int
         /\ a \in Fe => Mod(a) = a
         /\ \E k \in Int : a = Mod(a) + k * P
<1>1. P \in Int /\ P > 0
  BY Elements
<1>2. a % P \in 0 .. (P - 1) /\ a \div P \in Int /\ a = P * (a \div P) + (a % P)
  BY <1>1
<1>3. P * (a \div P) = (a \div P) * P
  BY <1>1, <1>2
<1>4. ASSUME a \in Fe PROVE a % P = a
  BY <1>4, Elements, ModSmall
<1> QED BY <1>1, <1>2, <1>3, <1>4 DEF Mod, Fe

\* Elements are integers, and their own residues.
LEMMA ElementIs ==
  ASSUME NEW x \in Fe
  PROVE  x \in Int /\ Mod(x) = x
<1>1. x \in Int
  BY Elements
<1> QED BY <1>1, ModIs

\* Only one element differs from an integer by a multiple of the modulus.
LEMMA ModUnique ==
  ASSUME NEW a \in Int, NEW r \in Fe, NEW k \in Int, a = r + k * P
  PROVE  Mod(a) = r
<1>1. PICK j \in Int : a = Mod(a) + j * P
  BY ModIs
<1>s. PICK s \in Int : s = Mod(a)
  BY ModIs
<1> DEFINE n == j - k
<1>2. s \in Int /\ r \in Int /\ P \in Int /\ P > 0 /\ s >= 0 /\ s < P /\ r >= 0 /\ r < P
  BY <1>s, ModIs, Elements DEF Fe
<1>3. n \in Int /\ n * P = r - s
  <2>1. n * P = j * P - k * P
    BY <1>2
  <2>2. r + k * P = s + j * P /\ j * P \in Int /\ k * P \in Int
    BY <1>s, <1>1, <1>2
  <2> QED BY <1>2, <2>1, <2>2
<1> HIDE DEF n
<1>4. CASE n = 0
  BY <1>2, <1>3, <1>4, <1>s
<1>5. CASE n >= 1
  <2>1. n * P >= P
    BY <1>2, <1>3, <1>5
  <2> QED BY <1>2, <1>3, <2>1
<1>6. CASE n <= -1
  <2>1. n * P <= -P
    BY <1>2, <1>3, <1>6
  <2> QED BY <1>2, <1>3, <2>1
<1> QED BY <1>3, <1>4, <1>5, <1>6

\* Integers have one residue exactly when they differ by a multiple of the modulus.
LEMMA ModEq ==
  ASSUME NEW a \in Int, NEW b \in Int
  PROVE  Mod(a) = Mod(b) <=> \E k \in Int : a = b + k * P
<1>s. PICK s \in Fe : s = Mod(a)
  BY ModIs
<1>r. PICK r \in Fe : r = Mod(b)
  BY ModIs
<1>1. PICK i \in Int : a = s + i * P
  BY <1>s, ModIs
<1>2. PICK j \in Int : b = r + j * P
  BY <1>r, ModIs
<1>3. s \in Int /\ r \in Int /\ r \in Fe /\ P \in Int
  BY Elements
<1>4. ASSUME s = r PROVE \E k \in Int : a = b + k * P
  <2>1. i - j \in Int /\ a = b + (i - j) * P
    BY <1>1, <1>2, <1>3, <1>4
  <2> QED BY <2>1
<1>5. ASSUME NEW k \in Int, a = b + k * P PROVE s = r
  <2>1. j + k \in Int /\ a = r + (j + k) * P
    BY <1>2, <1>3, <1>5
  <2> QED BY <2>1, <1>3, <1>s, ModUnique
<1> QED BY <1>4, <1>5, <1>s, <1>r

\* Sums and products of integers respect residues.
LEMMA ModRing ==
  ASSUME NEW a \in Int, NEW b \in Int, NEW c \in Int, NEW d \in Int, Mod(a) = Mod(b), Mod(c) = Mod(d)
  PROVE  Mod(a + c) = Mod(b + d) /\ Mod(a - c) = Mod(b - d) /\ Mod(a * c) = Mod(b * d)
<1>1. PICK i \in Int : a = b + i * P
  BY ModEq
<1>2. PICK j \in Int : c = d + j * P
  BY ModEq
<1>3. P \in Int
  BY Elements
<1>4. i + j \in Int /\ a + c = (b + d) + (i + j) * P
  BY <1>1, <1>2, <1>3
<1>5. i - j \in Int /\ a - c = (b - d) + (i - j) * P
  BY <1>1, <1>2, <1>3
<1>6. b * j + i * d + i * j * P \in Int /\ a * c = b * d + (b * j + i * d + i * j * P) * P
  BY <1>1, <1>2, <1>3
<1> QED BY <1>4, <1>5, <1>6, ModEq, SMTT(30)

\* One side at a time.
LEMMA ModSubst ==
  ASSUME NEW a \in Int, NEW b \in Int, NEW c \in Int, Mod(a) = Mod(b)
  PROVE  /\ Mod(a + c) = Mod(b + c) /\ Mod(a - c) = Mod(b - c) /\ Mod(c - a) = Mod(c - b)
         /\ Mod(a * c) = Mod(b * c) /\ Mod(c * a) = Mod(c * b)
<1>1. PICK i \in Int : a = b + i * P
  BY ModEq
<1>2. P \in Int
  BY Elements
<1>3. a + c = (b + c) + i * P /\ a - c = (b - c) + i * P
  BY <1>1, <1>2
<1>4. -i \in Int /\ c - a = (c - b) + (-i) * P
  BY <1>1, <1>2
<1>5. i * c \in Int /\ a * c = b * c + (i * c) * P /\ c * a = c * b + (i * c) * P
  BY <1>1, <1>2
<1> QED BY <1>3, <1>4, <1>5, ModEq, SMTT(30)

\* The operations of the field.
LEMMA Arithmetic ==
  ASSUME NEW a \in Int, NEW b \in Int
  PROVE  /\ Times(Mod(a), Mod(b)) = Mod(a * b)
         /\ Plus(Mod(a), Mod(b)) = Mod(a + b)
         /\ Minus(Mod(a), Mod(b)) = Mod(a - b)
         /\ Twice(Mod(a)) = Mod(2 * a)
         /\ Minus0(Mod(a)) = Mod(-a)
<1>s. PICK s \in Fe : s = Mod(a)
  BY ModIs
<1>r. PICK r \in Fe : r = Mod(b)
  BY ModIs
<1>1. s \in Int /\ r \in Int /\ Mod(s) = Mod(a) /\ Mod(r) = Mod(b) /\ P \in Int /\ 0 \in Fe
  BY <1>s, <1>r, ModIs, Elements
<1>2. Mod(s * r) = Mod(a * b) /\ Mod(s + r) = Mod(a + b) /\ Mod(s - r) = Mod(a - b)
  BY <1>1, ModRing
<1>3. Mod(s + s) = Mod(a + a) /\ a + a = 2 * a
  BY <1>1, ModRing
<1>4. ASSUME NEW t \in Int PROVE Mod(t + P - s) = Mod(t - a) /\ Mod(t + P - r) = Mod(t - b)
  <2>1. Mod(t - s) = Mod(t - a)
    BY <1>1, ModSubst
  <2>4. Mod(t - r) = Mod(t - b)
    BY <1>1, ModSubst, ZenonT(60)
  <2>2. t + P - s = (t - s) + 1 * P /\ t + P - r = (t - r) + 1 * P
    BY <1>1
  <2>3. Mod(t + P - s) = Mod(t - s) /\ Mod(t + P - r) = Mod(t - r)
    BY <1>1, <2>2, ModEq
  <2> QED BY <2>1, <2>4, <2>3
<1>5. Mod(s + P - r) = Mod(a - b)
  <2>1. Mod(s - b) = Mod(a - b)
    BY <1>1, ModRing
  <2> QED BY <1>1, <1>4, <2>1
<1>6. Mod(0 + P - s) = Mod(-a)
  <2>1. 0 - a = -a
    OBVIOUS
  <2> QED BY <1>4, <2>1
<1> QED BY <1>2, <1>3, <1>5, <1>6, <1>s, <1>r DEF Mod, Times, Plus, Minus, Twice, Minus0

\* On elements themselves.
LEMMA FieldOps ==
  ASSUME NEW x \in Fe, NEW y \in Fe
  PROVE  /\ Times(x, y) = Mod(x * y) /\ Plus(x, y) = Mod(x + y) /\ Minus(x, y) = Mod(x - y)
         /\ Twice(x) = Mod(2 * x) /\ Minus0(x) = Mod(-x)
<1>1. x \in Int /\ y \in Int /\ Mod(x) = x /\ Mod(y) = y
  BY Elements, ModIs
<1> QED BY <1>1, Arithmetic

-----------------------------------------------------------------------------
\* The field and the curve's constant.

\* t[1] differs from t[2] by multiples of t[3], t[5], ... .  The equations are
\* predicates of one tuple, so that a lemma is applied to the terms of its
\* premise, whatever form arithmetic gives them.
Differ1(t) == /\ t[1] \in Int /\ t[2] \in Int /\ t[3] \in Int /\ t[4] \in Int
              /\ t[1] = t[2] + t[3] * t[4]
Differ2(t) == /\ t[1] \in Int /\ t[2] \in Int /\ t[3] \in Int /\ t[4] \in Int /\ t[5] \in Int /\ t[6] \in Int
              /\ t[1] = t[2] + t[3] * t[4] + t[5] * t[6]
Differ4(t) == /\ t[1] \in Int /\ t[2] \in Int /\ t[3] \in Int /\ t[4] \in Int /\ t[5] \in Int
              /\ t[6] \in Int /\ t[7] \in Int /\ t[8] \in Int /\ t[9] \in Int /\ t[10] \in Int
              /\ t[1] = t[2] + t[3] * t[4] + t[5] * t[6] + t[7] * t[8] + t[9] * t[10]
Product(t) == t[1] \in Int /\ t[2] \in Int /\ t[3] \in Int /\ t[1] = t[2] * t[3]

\* What vanishes is a multiple of the modulus.
LEMMA Multiple ==
  ASSUME NEW z \in Int, Mod(z) = 0
  PROVE  \E k \in Int : z = k * P
<1>1. PICK k \in Int : z = Mod(z) + k * P
  BY ModIs
<1> QED BY <1>1, Elements

\* Integers have one residue when their difference is a sum of terms that vanish.
LEMMA Vanish4 ==
  ASSUME NEW t, Differ4(t), Mod(t[3]) = 0, Mod(t[5]) = 0, Mod(t[7]) = 0, Mod(t[9]) = 0
  PROVE  Mod(t[1]) = Mod(t[2])
<1>1. P \in Int
  BY Elements
<1>2. PICK k1 \in Int : t[3] = k1 * P
  BY Multiple DEF Differ4
<1>3. PICK k2 \in Int : t[5] = k2 * P
  BY Multiple DEF Differ4
<1>4. PICK k3 \in Int : t[7] = k3 * P
  BY Multiple DEF Differ4
<1>5. PICK k4 \in Int : t[9] = k4 * P
  BY Multiple DEF Differ4
<1>6. PICK k \in Int : k = k1 * t[4] + k2 * t[6] + k3 * t[8] + k4 * t[10]
  BY DEF Differ4
<1>7. t[1] \in Int /\ t[2] \in Int /\ t[1] = t[2] + k * P
  BY <1>1, <1>2, <1>3, <1>4, <1>5, <1>6 DEF Differ4
<1> QED BY <1>7, ModEq

\* The residue of zero.
LEMMA ModZero == Mod(0) = 0 /\ Mod(1) = 1
BY Elements, ModIs

\* Two terms.
LEMMA Vanish2 ==
  ASSUME NEW t, Differ2(t), Mod(t[3]) = 0, Mod(t[5]) = 0
  PROVE  Mod(t[1]) = Mod(t[2])
<1>1. Differ4(<<t[1], t[2], t[3], t[4], t[5], t[6], 0, 0, 0, 0>>)
  BY DEF Differ2, Differ4
<1> QED BY <1>1, ModZero, Vanish4

\* One.
LEMMA Vanish1 ==
  ASSUME NEW t, Differ1(t), Mod(t[3]) = 0
  PROVE  Mod(t[1]) = Mod(t[2])
<1>1. Differ2(<<t[1], t[2], t[3], t[4], 0, 0>>)
  BY DEF Differ1, Differ2
<1> QED BY <1>1, ModZero, Vanish2

\* A difference vanishes exactly when the residues agree.
LEMMA ModDifference ==
  ASSUME NEW a \in Int, NEW b \in Int
  PROVE  Mod(a - b) = 0 <=> Mod(a) = Mod(b)
<1>1. ASSUME Mod(a - b) = 0 PROVE Mod(a) = Mod(b)
  <2>1. Differ1(<<a, b, a - b, 1>>)
    BY DEF Differ1
  <2> QED BY <1>1, <2>1, Vanish1
<1>2. ASSUME Mod(a) = Mod(b) PROVE Mod(a - b) = 0
  <2>1. PICK k \in Int : a = b + k * P
    BY <1>2, ModEq
  <2>2. a - b \in Int /\ 0 \in Int /\ a - b = 0 + k * P
    BY <2>1, Elements
  <2> QED BY <2>2, ModZero, ModEq
<1> QED BY <1>1, <1>2

\* A product vanishes with a factor.
LEMMA ZeroFactor ==
  ASSUME NEW t, Product(t), Mod(t[2]) = 0 \/ Mod(t[3]) = 0
  PROVE  Mod(t[1]) = 0
<1>1. Differ1(<<t[1], 0, t[2], t[3]>>) /\ Differ1(<<t[1], 0, t[3], t[2]>>)
  BY DEF Product, Differ1
<1> QED BY <1>1, ModZero, Vanish1

\* Inversion.
LEMMA InverseIs ==
  ASSUME NEW x \in Fe, x # 0
  PROVE  Invert(x) \in Fe /\ Mod(x * Invert(x)) = 1
<1>1. x \in 1 .. (P - 1)
  BY Elements DEF Fe
<1>2. PICK y \in 1 .. (P - 1) : (x * y) % P = 1
  BY <1>1, FieldAssumption
<1>3. y \in Fe /\ Times(x, y) = 1
  BY <1>2, Elements DEF Fe, Times
<1>4. Inverses[x] = CHOOSE z \in Fe : Times(x, z) = 1
  BY DEF Inverses
<1>5. Inverses[x] \in Fe /\ Times(x, Inverses[x]) = 1
  BY <1>3, <1>4
<1> QED BY <1>5 DEF Invert, Times, Mod

\* Every integer that does not vanish has an inverse.
LEMMA Reciprocal ==
  ASSUME NEW a \in Int, Mod(a) # 0
  PROVE  \E i \in Int : Mod(a * i - 1) = 0
<1>1. PICK s \in Fe : s = Mod(a)
  BY ModIs
<1>2. PICK i \in Fe : Mod(s * i) = 1
  BY <1>1, InverseIs
<1>3. s \in Int /\ i \in Int /\ s * i \in Int /\ Mod(s) = Mod(a)
  BY <1>1, ElementIs
<1>4. Mod(a - s) = 0
  BY <1>3, ModDifference
<1>5. Mod(s * i - 1) = 0
  <2>1. s * i \in Int /\ 1 \in Int /\ Mod(s * i) = Mod(1)
    BY <1>2, <1>3, ModZero
  <2>2. Mod(s * i - 1) = 0 <=> Mod(s * i) = Mod(1)
    BY ZenonT(30), <2>1, ModDifference
  <2> QED BY <2>1, <2>2
<1>6. Differ2(<<a * i - 1, 0, a - s, i, s * i - 1, 1>>)
  BY <1>3 DEF Differ2
<1>7. Mod(a * i - 1) = 0
  BY <1>4, <1>5, <1>6, Vanish2, ModZero
<1> QED BY <1>3, <1>7

\* The field has no divisors of zero.
LEMMA ZeroProduct ==
  ASSUME NEW t, Product(t), Mod(t[1]) = 0
  PROVE  Mod(t[2]) = 0 \/ Mod(t[3]) = 0
<1> DEFINE a == t[2]  b == t[3]
<1>1. SUFFICES ASSUME Mod(a) # 0 PROVE Mod(b) = 0
  OBVIOUS
<1>2. t[1] \in Int /\ a \in Int /\ b \in Int /\ t[1] = a * b
  BY DEF Product
<1> HIDE DEF a, b
<1>3. PICK i \in Int : Mod(a * i - 1) = 0
  BY <1>1, <1>2, Reciprocal
<1>4. Differ2(<<b, 0, a * i - 1, -b, t[1], i>>)
  BY <1>2 DEF Differ2
<1> QED BY <1>3, <1>4, Vanish2, ModZero

\* t is <<z, a, b, c>> with z = a c - b c.
Cancels(t) == t[1] \in Int /\ t[2] \in Int /\ t[3] \in Int /\ t[4] \in Int /\ t[1] = t[2] * t[4] - t[3] * t[4]

\* A factor c that does not vanish cancels: the residues of a and b agree.
LEMMA Cancel ==
  ASSUME NEW t, Cancels(t), Mod(t[4]) # 0, Mod(t[1]) = 0
  PROVE  Mod(t[2]) = Mod(t[3])
<1>1. Product(<<t[1], t[2] - t[3], t[4]>>) /\ t[2] \in Int /\ t[3] \in Int
  BY DEF Cancels, Product
<1>2. Mod(t[2] - t[3]) = 0
  BY <1>1, ZeroProduct
<1> QED BY <1>1, <1>2, ModDifference

\* Quotients.
LEMMA QuotientIs ==
  ASSUME NEW x \in Fe, NEW y \in Fe, x # 0
  PROVE  /\ Times(y, Invert(x)) \in Fe /\ Mod(Times(y, Invert(x)) * x - y) = 0
         /\ \A q \in Fe : Mod(q * x - y) = 0 => q = Times(y, Invert(x))
<1>1. PICK i \in Fe : i = Invert(x) /\ Mod(x * i) = 1
  BY InverseIs
<1>2. x \in Int /\ y \in Int /\ i \in Int /\ y * i \in Int /\ x * i \in Int /\ Mod(x) = x
  BY ElementIs
<1>3. PICK q \in Fe : q = Times(y, i)
  BY <1>2, ModIs DEF Times, Mod
<1>4. q \in Int /\ Mod(q) = q /\ Mod(q) = Mod(y * i)
  BY <1>2, <1>3, Elements, ModIs DEF Times, Mod
<1>5. Mod(q - y * i) = 0
  BY <1>2, <1>4, ModDifference
<1>6. Mod(x * i - 1) = 0
  <2>1. x * i \in Int /\ 1 \in Int /\ Mod(x * i) = Mod(1)
    BY <1>1, <1>2, ModZero
  <2>2. Mod(x * i - 1) = 0 <=> Mod(x * i) = Mod(1)
    BY ZenonT(30), <2>1, ModDifference
  <2> QED BY <2>1, <2>2
<1>7. Mod(q * x - y) = 0
  <2>1. Differ2(<<q * x - y, 0, q - y * i, x, x * i - 1, y>>)
    BY <1>2, <1>4 DEF Differ2
  <2> QED BY <1>5, <1>6, <2>1, Vanish2, ModZero
<1>8. ASSUME NEW r \in Fe, Mod(r * x - y) = 0 PROVE r = q
  <2>1. r \in Int /\ Mod(r) = r
    BY Elements, ModIs
  <2>2. /\ Differ2(<<r * x - q * x, 0, r * x - y, 1, q * x - y, -1>>)
        /\ Cancels(<<r * x - q * x, r, q, x>>)
    BY <1>2, <1>4, <2>1 DEF Differ2, Cancels
  <2>3. Mod(r * x - q * x) = 0
    BY <1>7, <1>8, <2>2, Vanish2, ModZero
  <2>4. Mod(r) = Mod(q)
    BY <1>2, <2>2, <2>3, Cancel
  <2> QED BY <1>4, <2>1, <2>4
<1> QED BY <1>1, <1>3, <1>7, <1>8

\* Two is not zero: in the field of two elements every element is a square.
LEMMA Odd == P # 2 /\ Mod(2) # 0 /\ P % 2 = 1
<1>1. P # 2
  <2>1. SUFFICES ASSUME P = 2 PROVE FALSE
    OBVIOUS
  <2>2. Fe = {0, 1} /\ (0 * 0) % 2 = 0 /\ (1 * 1) % 2 = 1
    BY <2>1 DEF Fe
  <2> QED BY <2>1, <2>2, PointAssumption DEF Times
<1>2. 2 \in Fe /\ P \in Nat /\ P >= 3
  BY <1>1, Elements DEF Fe
<1>3. Mod(2) = 2
  BY <1>2, ModIs
<1>4. P % 2 = 1
  <2>1. PICK h \in Int, r \in {0, 1} : P = 2 * h + r /\ P % 2 = r
    <3>1. P \div 2 \in Int /\ P % 2 \in {0, 1} /\ P = 2 * (P \div 2) + (P % 2)
      BY <1>2
    <3> QED BY <3>1
  <2>2. SUFFICES ASSUME r = 0 PROVE FALSE
    BY <2>1
  <2>3. P = 2 * h
    BY <2>1, <2>2
  <2>4. h \in Fe /\ h # 0
    BY <1>2, <2>1, <2>3 DEF Fe
  <2>5. Mod(P) = 0
    <3>1. P = 0 + 1 * P /\ P \in Int /\ 1 \in Int /\ 0 \in Fe
      BY Elements
    <3> QED BY <3>1, ModUnique
  <2>6. Mod(h) = h /\ Product(<<P, 2, h>>)
    BY <1>2, <2>1, <2>3, <2>4, ModIs DEF Product
  <2> QED BY <2>4, <2>5, <2>6, <1>3, ZeroProduct
<1> QED BY <1>1, <1>2, <1>3, <1>4

\* t is <<z, a, b>> with z = a^2 - D b^2.
Ratio(t) == t[1] \in Int /\ t[2] \in Int /\ t[3] \in Int /\ t[1] = t[2] * t[2] - D * (t[3] * t[3])

\* D is no square, so it is no quotient of squares either.
LEMMA NonSquare ==
  ASSUME NEW t, Ratio(t), Mod(t[1]) = 0
  PROVE  Mod(t[3]) = 0
<1> DEFINE z == t[1]  a == t[2]  b == t[3]
<1>1. SUFFICES ASSUME Mod(b) # 0 PROVE FALSE
  OBVIOUS
<1>2. z \in Int /\ a \in Int /\ b \in Int /\ z = a * a - D * (b * b)
  BY DEF Ratio
<1> HIDE DEF z, a, b
<1>3. PICK i \in Int : Mod(b * i - 1) = 0
  BY <1>1, <1>2, Reciprocal
<1>4. D \in Fe /\ D \in Int /\ Mod(D) = D
  BY Elements, ModIs, PointAssumption
<1>5. PICK r \in Fe : r = Mod(a * i)
  BY <1>2, ModIs
<1>6. Times(r, r) = Mod((a * i) * (a * i))
  BY <1>2, <1>5, Arithmetic
<1>7. Differ2(<<(a * i) * (a * i), D, z, i * i, b * i - 1, D * (b * i + 1)>>)
  BY <1>2, <1>4 DEF Differ2
<1>8. Mod(z) = 0
  BY DEF z
<1>9. Mod((a * i) * (a * i)) = Mod(D)
  BY <1>3, <1>7, <1>8, Vanish2
<1> QED BY <1>4, <1>6, <1>9, PointAssumption

-----------------------------------------------------------------------------
\* The curve, in integers.

\* How far a pair is from the curve; the term both denominators share; and the
\* numerators of a sum.
Excess(x, y) == y * y - x * x - 1 - D * ((x * x) * (y * y))
Kappa(p, q) == D * ((p[1] * q[1]) * (p[2] * q[2]))
SumX(p, q) == p[1] * q[2] + p[2] * q[1]
SumY(p, q) == p[2] * q[2] + p[1] * q[1]

\* The constant is an element.
LEMMA ConstantIs == D \in Fe /\ D \in Int /\ Mod(D) = D
BY PointAssumption, ElementIs

\* The equation of the curve.
LEMMA OnCurveIs ==
  ASSUME NEW x \in Fe, NEW y \in Fe
  PROVE  OnCurve(x, y) <=> Mod(Excess(x, y)) = 0
<1>1. x \in Int /\ y \in Int /\ Mod(x) = x /\ Mod(y) = y
  BY ElementIs
<1> DEFINE l == y * y - x * x  m == (x * x) * (y * y)
<1>2. Times(y, y) = Mod(y * y) /\ Times(x, x) = Mod(x * x) /\ y * y \in Int /\ x * x \in Int
  BY <1>1, Arithmetic
<1>3. Minus(Times(y, y), Times(x, x)) = Mod(l)
  BY <1>2, Arithmetic
<1>4. Times(Times(x, x), Times(y, y)) = Mod(m) /\ m \in Int /\ l \in Int
  BY <1>1, <1>2, Arithmetic
<1>5. Excess(x, y) = l - (1 + D * m)
  BY <1>1, ConstantIs DEF Excess
<1> HIDE DEF l, m
<1>6. Times(D, Mod(m)) = Mod(D * m) /\ D * m \in Int
  BY <1>4, ConstantIs, Arithmetic
<1>7. PICK n \in Int, r \in Int : n = D * m /\ r = 1 + n
  BY <1>6
<1>8. Plus(Mod(1), Mod(n)) = Mod(r)
  BY <1>7, Arithmetic
<1>9. OnCurve(x, y) <=> Mod(l) = Mod(r)
  BY <1>3, <1>4, <1>6, <1>7, <1>8, ModZero DEF OnCurve
<1>10. Excess(x, y) = l - r
  BY <1>5, <1>7
<1>11. Mod(l - r) = 0 <=> Mod(l) = Mod(r)
  BY <1>4, <1>7, ModDifference
<1> QED BY <1>9, <1>10, <1>11

\* Points.
LEMMA PointIs ==
  /\ \A p \in Points : /\ p[1] \in Fe /\ p[2] \in Fe /\ p = <<p[1], p[2]>>
                       /\ p[1] \in Int /\ p[2] \in Int /\ Mod(p[1]) = p[1] /\ Mod(p[2]) = p[2]
                       /\ Mod(Excess(p[1], p[2])) = 0
  /\ \A x \in Fe, y \in Fe : Mod(Excess(x, y)) = 0 => <<x, y>> \in Points
<1>1. ASSUME NEW p \in Points PROVE p[1] \in Fe /\ p[2] \in Fe /\ p = <<p[1], p[2]>> /\ OnCurve(p[1], p[2])
  BY DEF Points
<1>2. ASSUME NEW p \in Points PROVE p[1] \in Int /\ p[2] \in Int /\ Mod(p[1]) = p[1] /\ Mod(p[2]) = p[2]
  BY <1>1, ElementIs
<1>3. ASSUME NEW x \in Fe, NEW y \in Fe, OnCurve(x, y) PROVE <<x, y>> \in Points
  BY <1>3 DEF Points
<1> QED BY <1>1, <1>2, <1>3, OnCurveIs

\* The terms are integers.
LEMMA TermsIn ==
  ASSUME NEW p \in Points, NEW q \in Points
  PROVE  /\ Kappa(p, q) \in Int /\ SumX(p, q) \in Int /\ SumY(p, q) \in Int
         /\ Excess(p[1], p[2]) \in Int
BY PointIs, ConstantIs DEF Kappa, SumX, SumY, Excess

\* -1 is a square.
LEMMA SquareRoot == \E e \in Int : Mod(e * e + 1) = 0 /\ Mod((-e) * (-e) + 1) = 0
<1>1. PICK e \in Fe : Times(e, e) = P - 1
  BY PointAssumption
<1>2. e \in Int /\ e * e \in Int /\ P \in Int
  BY Elements
<1>3. PICK k \in Int : e * e = Mod(e * e) + k * P
  BY <1>2, ModIs
<1>4. Mod(e * e) = P - 1
  BY <1>1 DEF Times, Mod
<1>5. e * e + 1 = 0 + (k + 1) * P /\ k + 1 \in Int /\ 0 \in Int
  BY <1>2, <1>3, <1>4
<1>6. Mod(e * e + 1) = 0
  BY <1>2, <1>5, ModEq, ModZero
<1>7. (-e) * (-e) + 1 = e * e + 1 /\ -e \in Int
  BY <1>2
<1> QED BY <1>2, <1>6, <1>7

\* If a denominator of p + q vanished, D would be a square: (y1 + e k x1)^2 is
\* D times the square of x1 y1 (y2 + e x2), whichever root e of -1 one takes.
LEMMA NoRatio ==
  ASSUME NEW p \in Points, NEW q \in Points, NEW e \in Int, Mod(e * e + 1) = 0,
         Mod(Kappa(p, q) * Kappa(p, q) - 1) = 0
  PROVE  Mod((p[1] * p[2]) * (q[2] + e * q[1])) = 0
<1>1. PICK x1 \in Int, y1 \in Int : x1 = p[1] /\ y1 = p[2]
  BY PointIs
<1>2. PICK x2 \in Int, y2 \in Int : x2 = q[1] /\ y2 = q[2]
  BY PointIs
<1>3. Mod(Excess(x1, y1)) = 0 /\ Mod(Excess(x2, y2)) = 0
  BY <1>1, <1>2, PointIs
<1>4. D \in Int
  BY ConstantIs
<1> DEFINE k == D * ((x1 * x2) * (y1 * y2))
           m == (x1 * x1) * (y1 * y1)
           a == y1 + e * (k * x1)
           b == (x1 * y1) * (y2 + e * x2)
           z == a * a - D * (b * b)
           c == (x1 * x1) * (k * k) - D * (m * (x2 * x2))
<1>5. Kappa(p, q) = k
  BY <1>1, <1>2 DEF Kappa
<1>6. Mod(k * k - 1) = 0
  BY <1>5
<1>7. Differ4(<<z, 0, Excess(x1, y1), 1, e * e + 1, c, k * k - 1, - (x1 * x1) - 1, Excess(x2, y2), - (D * m)>>)
  BY <1>4 DEF Differ4, Excess
<1>8. Ratio(<<z, a, b>>)
  BY <1>4 DEF Ratio
<1> HIDE DEF k, m, a, z, c
<1>9. Mod(z) = 0
  BY <1>3, <1>6, <1>7, Vanish4, ModZero
<1>10. Mod(b) = 0
  BY <1>8, <1>9, NonSquare
<1> QED BY <1>10, <1>1, <1>2

\* The addition law is complete: its denominators never vanish.
LEMMA Complete ==
  ASSUME NEW p \in Points, NEW q \in Points
  PROVE  Mod(1 + Kappa(p, q)) # 0 /\ Mod(1 - Kappa(p, q)) # 0
<1>1. PICK x1 \in Int, y1 \in Int, x2 \in Int, y2 \in Int : x1 = p[1] /\ y1 = p[2] /\ x2 = q[1] /\ y2 = q[2]
  BY PointIs
<1>2. PICK k \in Int : k = Kappa(p, q)
  BY TermsIn
<1>3. k = D * ((x1 * x2) * (y1 * y2)) /\ D \in Int
  BY <1>1, <1>2, ConstantIs DEF Kappa
<1>4. SUFFICES ASSUME Mod(1 + k) = 0 \/ Mod(1 - k) = 0 PROVE FALSE
  BY <1>2
<1>5. Mod(k * k - 1) = 0
  <2>1. Differ1(<<k * k - 1, 0, 1 + k, k - 1>>) /\ Differ1(<<k * k - 1, 0, 1 - k, -1 - k>>)
    BY DEF Differ1
  <2> QED BY <2>1, <1>4, Vanish1, ModZero
<1>6. PICK e \in Int : Mod(e * e + 1) = 0 /\ Mod((-e) * (-e) + 1) = 0
  BY SquareRoot
<1>7. PICK f \in Int : f = -e /\ Mod(f * f + 1) = 0
  BY <1>6
<1>8. Mod((x1 * y1) * (y2 + e * x2)) = 0 /\ Mod((x1 * y1) * (y2 + f * x2)) = 0
  BY <1>1, <1>2, <1>5, <1>6, <1>7, NoRatio
<1>9. Mod((x1 * y1) * (2 * y2)) = 0
  <2>1. Differ2(<<(x1 * y1) * (2 * y2), 0, (x1 * y1) * (y2 + e * x2), 1, (x1 * y1) * (y2 + f * x2), 1>>)
    BY <1>7 DEF Differ2
  <2> QED BY <2>1, <1>8, Vanish2, ModZero
<1>10. Mod(2 * k) = 0
  <2>1. Differ1(<<2 * k, 0, (x1 * y1) * (2 * y2), D * x2>>)
    BY <1>3 DEF Differ1
  <2> QED BY <2>1, <1>9, Vanish1, ModZero
<1>11. Mod(k) = 0
  <2>1. Product(<<2 * k, 2, k>>)
    BY DEF Product
  <2> QED BY <2>1, <1>10, ZeroProduct, Odd
<1>12. Differ2(<<1, 0, k, k, k * k - 1, -1>>)
  BY DEF Differ2
<1> QED BY <1>5, <1>11, <1>12, Vanish2, ModZero

\* The coordinates of a sum, as quotients.
LEMMA SumIs ==
  ASSUME NEW p \in Points, NEW q \in Points
  PROVE  /\ Sum(p, q)[1] \in Fe /\ Sum(p, q)[2] \in Fe /\ Sum(p, q) = <<Sum(p, q)[1], Sum(p, q)[2]>>
         /\ Mod(Sum(p, q)[1] * (1 + Kappa(p, q)) - SumX(p, q)) = 0
         /\ Mod(Sum(p, q)[2] * (1 - Kappa(p, q)) - SumY(p, q)) = 0
<1>1. PICK x1 \in Int, y1 \in Int, x2 \in Int, y2 \in Int :
        /\ x1 = p[1] /\ y1 = p[2] /\ x2 = q[1] /\ y2 = q[2]
        /\ Mod(x1) = x1 /\ Mod(y1) = y1 /\ Mod(x2) = x2 /\ Mod(y2) = y2
  BY PointIs
<1>2. D \in Int /\ Mod(D) = D
  BY ConstantIs
<1>3. PICK xx \in Int, yy \in Int, k \in Int, n1 \in Int, n2 \in Int :
        /\ xx = x1 * x2 /\ yy = y1 * y2 /\ k = D * (xx * yy)
        /\ n1 = x1 * y2 + y1 * x2 /\ n2 = y1 * y2 + x1 * x2
  BY <1>2
<1>4. k = Kappa(p, q) /\ n1 = SumX(p, q) /\ n2 = SumY(p, q)
  BY <1>1, <1>3 DEF Kappa, SumX, SumY
<1>5. Times(x1, x2) = Mod(xx) /\ Times(y1, y2) = Mod(yy)
  BY <1>1, <1>3, PointIs, FieldOps
<1>6. Times(D, Times(Times(x1, x2), Times(y1, y2))) = Mod(k)
  <2>1. PICK m \in Int : m = xx * yy
    OBVIOUS
  <2>2. Times(Mod(xx), Mod(yy)) = Mod(m)
    BY <2>1, Arithmetic
  <2>3. Times(Mod(D), Mod(m)) = Mod(k)
    BY <1>2, <1>3, <2>1, Arithmetic
  <2> QED BY <1>2, <1>5, <2>2, <2>3
<1>7. Plus(Times(x1, y2), Times(y1, x2)) = Mod(n1) /\ Plus(Times(y1, y2), Times(x1, x2)) = Mod(n2)
  <2>1. PICK a \in Int, b \in Int : a = x1 * y2 /\ b = y1 * x2
    OBVIOUS
  <2>2. Times(x1, y2) = Mod(a) /\ Times(y1, x2) = Mod(b)
    BY <1>1, <2>1, PointIs, FieldOps
  <2>3. n1 = a + b /\ n2 = yy + xx
    BY <1>3, <2>1
  <2> QED BY <1>5, <2>2, <2>3, Arithmetic
<1>8. PICK f \in Int, g \in Int : f = 1 + k /\ g = 1 - k
  OBVIOUS
<1>9. Plus(1, Mod(k)) = Mod(f) /\ Minus(1, Mod(k)) = Mod(g)
  <2>1. Plus(Mod(1), Mod(k)) = Mod(1 + k) /\ Minus(Mod(1), Mod(k)) = Mod(1 - k)
    <3>1. 1 \in Int
      OBVIOUS
    <3> QED BY Zenon, <3>1, Arithmetic
  <2> QED BY <1>8, <2>1, ModZero
<1>10. Mod(f) \in Fe /\ Mod(f) # 0 /\ Mod(g) \in Fe /\ Mod(g) # 0 /\ Mod(n1) \in Fe /\ Mod(n2) \in Fe
  BY <1>4, <1>8, Complete, ModIs
<1> DEFINE s1 == Times(Mod(n1), Invert(Mod(f)))  s2 == Times(Mod(n2), Invert(Mod(g)))
<1>11. Sum(p, q) = <<s1, s2>>
  BY <1>1, <1>6, <1>7, <1>9 DEF Sum
<1>12. /\ s1 \in Fe /\ Mod(s1 * Mod(f) - Mod(n1)) = 0
       /\ s2 \in Fe /\ Mod(s2 * Mod(g) - Mod(n2)) = 0
  BY <1>10, QuotientIs
<1> HIDE DEF s1, s2
<1>13. ASSUME NEW s \in Fe, NEW h \in Int, NEW n \in Int, Mod(s * Mod(h) - Mod(n)) = 0
       PROVE  Mod(s * h - n) = 0
  <2>1. PICK c \in Int, d \in Int : c = Mod(h) /\ d = Mod(n) /\ Mod(c) = Mod(h) /\ Mod(d) = Mod(n)
    BY ModIs
  <2>2. Mod(s * c - d) = 0 /\ Mod(h - c) = 0 /\ Mod(n - d) = 0 /\ s \in Int
    BY <1>13, <2>1, ModDifference, ElementIs, ZenonT(60)
  <2>3. Differ4(<<s * h - n, 0, s * c - d, 1, h - c, s, n - d, -1, 0, 0>>)
    BY <2>2 DEF Differ4
  <2> QED BY <2>2, <2>3, Vanish4, ModZero
<1>14. Mod(s1 * f - n1) = 0 /\ Mod(s2 * g - n2) = 0
  BY <1>12, <1>13
<1> QED BY <1>4, <1>8, <1>11, <1>12, <1>14

\* The sum of points is a point.
LEMMA SumOnCurve ==
  ASSUME NEW p \in Points, NEW q \in Points
  PROVE  Sum(p, q) \in Points
<1>1. PICK x1 \in Int, y1 \in Int, x2 \in Int, y2 \in Int : x1 = p[1] /\ y1 = p[2] /\ x2 = q[1] /\ y2 = q[2]
  BY PointIs
<1>2. PICK s1 \in Fe, s2 \in Fe : s1 = Sum(p, q)[1] /\ s2 = Sum(p, q)[2] /\ Sum(p, q) = <<s1, s2>>
  BY SumIs
<1>3. s1 \in Int /\ s2 \in Int /\ D \in Int
  BY ElementIs, ConstantIs
<1>4. PICK k \in Int, n1 \in Int, n2 \in Int : k = Kappa(p, q) /\ n1 = SumX(p, q) /\ n2 = SumY(p, q)
  BY TermsIn
<1>5. /\ k = D * ((x1 * x2) * (y1 * y2)) /\ n1 = x1 * y2 + y1 * x2 /\ n2 = y1 * y2 + x1 * x2
      /\ Mod(Excess(x1, y1)) = 0 /\ Mod(Excess(x2, y2)) = 0
  BY <1>1, <1>4, PointIs DEF Kappa, SumX, SumY
<1>6. PICK f \in Int, g \in Int : f = 1 + k /\ g = 1 - k
  OBVIOUS
<1>7. Mod(s1 * f - n1) = 0 /\ Mod(s2 * g - n2) = 0 /\ Mod(f) # 0 /\ Mod(g) # 0
  BY <1>2, <1>4, <1>6, SumIs, Complete
<1> DEFINE a1 == s1 * f - n1
           a2 == s2 * g - n2
           h == f * f * (n2 * n2) - g * g * (n1 * n1) - f * f * (g * g) - D * ((n1 * n1) * (n2 * n2))
           z == (f * g) * (f * g) * Excess(s1, s2)
           c1 == (s1 * f + n1) * (- (g * g) - D * ((s2 * g) * (s2 * g)))
           c2 == (s2 * g + n2) * (f * f - D * (n1 * n1))
\* The numerators satisfy the equation that the denominators make homogeneous.
<1>8. Mod(h) = 0
  <2> DEFINE u1 == y1 * y1 - x1 * x1
             u2 == y2 * y2 - x2 * x2
             w1 == D * ((x1 * x1) * (y1 * y1))
             w2 == D * ((x2 * x2) * (y2 * y2))
             b1 == u2 * (1 + w1 * w2) - w2 * (u1 + 1 + w1)
             b2 == (1 + w1) * (1 + w1 * w2) - w1 * (u2 + 1 + w2)
  <2>1. Excess(x1, y1) = u1 - 1 - w1 /\ Excess(x2, y2) = u2 - 1 - w2
    BY <1>3 DEF Excess
  <2>2. h = u1 * u2 * (1 + w1 * w2) - (1 - w1 * w2) * (1 - w1 * w2) - w1 * (u2 * u2) - w2 * (u1 * u1)
    BY <1>3, <1>5, <1>6
  <2>3. u1 \in Int /\ u2 \in Int /\ w1 \in Int /\ w2 \in Int
    BY <1>3
  <2> HIDE DEF u1, u2, w1, w2, h
  <2>4. Differ2(<<h, 0, Excess(x1, y1), b1, Excess(x2, y2), b2>>)
    BY <2>1, <2>2, <2>3 DEF Differ2
  <2> QED BY <1>5, <2>4, Vanish2, ModZero
<1>9. Differ4(<<z, 0, h, 1, a1, c1, a2, c2, 0, 0>>)
  BY <1>3 DEF Differ4, Excess
<1>10. Product(<<z, (f * g) * (f * g), Excess(s1, s2)>>) /\ Product(<<(f * g) * (f * g), f * g, f * g>>)
       /\ Product(<<f * g, f, g>>)
  BY <1>3 DEF Product, Excess
<1> HIDE DEF h, z, c1, c2
<1>11. Mod(z) = 0
  BY <1>7, <1>8, <1>9, Vanish4, ModZero
<1>12. Mod(Excess(s1, s2)) = 0
  BY <1>7, <1>10, <1>11, ZeroProduct
<1> QED BY <1>2, <1>12, PointIs

\* The neutral point and opposites.
LEMMA NeutralIs == Neutral \in Points /\ Neutral[1] = 0 /\ Neutral[2] = 1
<1>1. Excess(0, 1) = 0
  BY ConstantIs DEF Excess
<1> QED BY <1>1, Elements, ModZero, PointIs DEF Neutral

\* The opposite of a point is a point.
LEMMA OppositeIs ==
  ASSUME NEW p \in Points
  PROVE  /\ Opposite(p) \in Points /\ Opposite(p)[2] = p[2] /\ Mod(Opposite(p)[1] + p[1]) = 0
<1>1. p[1] \in Fe /\ p[2] \in Fe /\ p[1] \in Int /\ p[2] \in Int /\ Mod(Excess(p[1], p[2])) = 0
  BY PointIs
<1>2. Minus0(p[1]) = Mod(-p[1])
  BY <1>1, FieldOps
<1>3. PICK x \in Int, y \in Int : x = p[1] /\ y = p[2]
  BY <1>1
<1>4. PICK n \in Fe : n = Mod(-x)
  BY ModIs
<1>5. Opposite(p) = <<n, y>> /\ n \in Int /\ Mod(n) = n
  BY <1>2, <1>3, <1>4, ElementIs DEF Opposite
<1>6. Mod(n + x) = 0
  <2>1. -x \in Int /\ n - (-x) = n + x /\ Mod(n) = Mod(-x)
    BY <1>4, <1>5
  <2>2. Mod(n - (-x)) = 0
    BY Zenon, <1>5, <2>1, ModDifference
  <2> QED BY <2>1, <2>2
<1>7. Differ2(<<Excess(n, y), 0, Excess(x, y), 1, n + x, (x - n) * (1 + D * (y * y))>>)
  BY <1>5, ConstantIs DEF Differ2, Excess
<1>8. Mod(Excess(n, y)) = 0
  BY <1>1, <1>3, <1>6, <1>7, Vanish2, ModZero
<1> QED BY <1>1, <1>3, <1>5, <1>6, <1>8, PointIs

\* A point with a sign is a point.
LEMMA SignedIs ==
  ASSUME NEW p \in Points, NEW negative \in BOOLEAN
  PROVE  Signed(p, negative) \in Points
BY OppositeIs DEF Signed

-----------------------------------------------------------------------------
\* Coordinates.

\* What the formulas take of a point: y - x, y + x and x y.
Low(p) == p[2] - p[1]
High(p) == p[2] + p[1]
Area(p) == p[1] * p[2]

\* They are integers.
LEMMA LinearIn ==
  ASSUME NEW p \in Points
  PROVE  Low(p) \in Int /\ High(p) \in Int /\ Area(p) \in Int
BY PointIs DEF Low, High, Area

\* A nonzero element.
Scale == Fe \ {0}

\* A projective point, without T.
Projective(p, z) == [X |-> Mod(p[1] * z), Y |-> Mod(p[2] * z), Z |-> z]

\* Both kinds of Niels point, and the cached packed point.
ProjectiveNiels(q, w) ==
  [YPlusX |-> Mod(High(q) * w), YMinusX |-> Mod(Low(q) * w), Z |-> w, T2D |-> Mod((2 * D * Area(q)) * w)]
AffineNiels(q) ==
  [YPlusX |-> Mod(High(q) * 1), YMinusX |-> Mod(Low(q) * 1), T2D |-> Mod((2 * D * Area(q)) * 1)]
Cached(q, w) == <<Mod(Low(q) * w), Mod(High(q) * w), Mod((2 * D * Area(q)) * w), Mod(2 * w)>>

\* Scales are integers.
LEMMA ScaleIs ==
  ASSUME NEW z \in Scale
  PROVE  z \in Fe /\ z \in Int /\ Mod(z) = z /\ Mod(z) # 0
BY ElementIs DEF Scale

\* A product of two scaled terms.
LEMMA ScaledProduct ==
  ASSUME NEW a \in Int, NEW z \in Int, NEW b \in Int, NEW w \in Int
  PROVE  Times(Mod(a * z), Mod(b * w)) = Mod((z * w) * (a * b))
<1>1. a * z \in Int /\ b * w \in Int /\ (a * z) * (b * w) = (z * w) * (a * b)
  OBVIOUS
<1>2. Times(Mod(a * z), Mod(b * w)) = Mod((a * z) * (b * w))
  BY Zenon, <1>1, Arithmetic
<1> QED BY Zenon, <1>1, <1>2

\* The coordinates of an extended point.
LEMMA ScaledIs ==
  ASSUME NEW p \in Points, NEW z \in Fe
  PROVE  /\ Scaled(p, z) = [X |-> Mod(p[1] * z), Y |-> Mod(p[2] * z), Z |-> z, T |-> Mod(Area(p) * z)]
         /\ Minus(Mod(p[2] * z), Mod(p[1] * z)) = Mod(Low(p) * z)
         /\ Plus(Mod(p[2] * z), Mod(p[1] * z)) = Mod(High(p) * z)
<1>1. PICK x \in Int, y \in Int, a \in Int : x = p[1] /\ y = p[2] /\ a = x * y
  BY PointIs
<1>2. z \in Int /\ Mod(z) = z
  BY ElementIs
<1>3. Times(p[1], z) = Mod(x * z) /\ Times(p[2], z) = Mod(y * z) /\ Times(p[1], p[2]) = Mod(a) /\ Area(p) = a
  BY <1>1, PointIs, FieldOps DEF Area
<1>4. Times(Mod(a), z) = Mod(a * z)
  <2>1. Times(Mod(a), Mod(z)) = Mod(a * z)
    BY Zenon, <1>2, Arithmetic
  <2> QED BY <1>2, <2>1
<1>5. Minus(Mod(y * z), Mod(x * z)) = Mod(Low(p) * z)
  <2>1. y * z \in Int /\ x * z \in Int /\ y * z - x * z = Low(p) * z
    BY <1>1, <1>2 DEF Low
  <2>2. Minus(Mod(y * z), Mod(x * z)) = Mod(y * z - x * z)
    BY Zenon, <2>1, Arithmetic
  <2> QED BY Zenon, <2>1, <2>2
<1>6. Plus(Mod(y * z), Mod(x * z)) = Mod(High(p) * z)
  <2>1. y * z \in Int /\ x * z \in Int /\ y * z + x * z = High(p) * z
    BY <1>1, <1>2 DEF High
  <2>2. Plus(Mod(y * z), Mod(x * z)) = Mod(y * z + x * z)
    BY Zenon, <2>1, Arithmetic
  <2> QED BY Zenon, <2>1, <2>2
<1> QED BY <1>1, <1>3, <1>4, <1>5, <1>6 DEF Scaled

\* The constant of the formulas.
LEMMA TwiceD == curve2D = Mod(2 * D) /\ 2 * D \in Int
<1>1. Twice(Mod(D)) = Mod(2 * D)
  BY Zenon, ConstantIs, Arithmetic
<1> QED BY <1>1, ConstantIs DEF curve2D

\* Both ways to cache a point for a projective addition.
LEMMA ProjectiveNielsIs ==
  ASSUME NEW q \in Points, NEW w \in Fe
  PROVE  /\ ifmaProjectiveNielsFromPoint(Scaled(q, w)) = ProjectiveNiels(q, w)
         /\ projCachedFromP3(Scaled(q, w)) = ProjectiveNiels(q, w)
         /\ Times(Mod(Area(q) * w), curve2D) = Mod((2 * D * Area(q)) * w)
<1>1. w \in Int
  BY ElementIs
<1>2. /\ Area(q) * w \in Int /\ (Area(q) * w) * (2 * D) = (2 * D * Area(q)) * w
  BY <1>1, LinearIn, TwiceD, ConstantIs
<1>3. Times(Mod(Area(q) * w), Mod(2 * D)) = Mod((Area(q) * w) * (2 * D))
  BY Zenon, <1>2, TwiceD, Arithmetic
<1>4. Times(Mod(Area(q) * w), curve2D) = Mod((2 * D * Area(q)) * w)
  BY Zenon, <1>2, <1>3, TwiceD
<1> QED BY <1>4, ScaledIs DEF ifmaProjectiveNielsFromPoint, projCachedFromP3, ProjectiveNiels

\* Both ways to cache an affine point: Z is divided out.
LEMMA AffineNielsIs ==
  ASSUME NEW q \in Points, NEW w \in Scale
  PROVE  /\ fixedBaseCacheAffine(Scaled(q, w)) = AffineNiels(q)
         /\ affineCachedFromP3(Scaled(q, w)) = AffineNiels(q)
<1>1. w \in Fe /\ w \in Int /\ Mod(w) = w /\ w # 0
  BY ScaleIs DEF Scale
<1>2. PICK i \in Int : i = Invert(w) /\ Mod(i) = i /\ Mod(w * i) = 1
  BY <1>1, InverseIs, ElementIs
<1>3. Mod(w * i - 1) = 0
  <2>1. w * i \in Int /\ Mod(w * i) = Mod(1)
    BY <1>1, <1>2, ModZero
  <2> QED BY <2>1, ModDifference
<1>4. ASSUME NEW a \in Int PROVE Times(Mod(a * w), i) = Mod(a * 1)
  <2>1. a * w \in Int /\ (a * w) * i \in Int
    BY <1>1
  <2>2. Times(Mod(a * w), Mod(i)) = Mod((a * w) * i)
    BY Zenon, <1>2, <2>1, Arithmetic
  <2>3. Differ1(<<(a * w) * i, a * 1, w * i - 1, a>>)
    BY <1>1 DEF Differ1
  <2>4. Mod((a * w) * i) = Mod(a * 1)
    BY <1>3, <2>3, Vanish1
  <2> QED BY <1>2, <2>2, <2>4
<1>5. q[1] \in Int /\ q[2] \in Int /\ Mod(q[1] * 1) = q[1] /\ Mod(q[2] * 1) = q[2] /\ q[1] \in Fe /\ q[2] \in Fe
  <2>1. q[1] \in Int /\ q[2] \in Int /\ Mod(q[1]) = q[1] /\ Mod(q[2]) = q[2] /\ q[1] \in Fe /\ q[2] \in Fe
    BY PointIs
  <2>2. q[1] * 1 = q[1] /\ q[2] * 1 = q[2]
    BY <2>1
  <2> QED BY <2>1, <2>2
<1>6. Times(Mod(q[1] * w), i) = q[1] /\ Times(Mod(q[2] * w), i) = q[2]
  BY <1>4, <1>5
<1>7. /\ Scaled(q, w).X = Mod(q[1] * w) /\ Scaled(q, w).Y = Mod(q[2] * w)
      /\ Scaled(q, w).Z = w /\ Scaled(q, w).T = Mod(Area(q) * w)
      /\ Plus(Mod(q[2] * w), Mod(q[1] * w)) = Mod(High(q) * w)
      /\ Minus(Mod(q[2] * w), Mod(q[1] * w)) = Mod(Low(q) * w)
  BY <1>1, ScaledIs
<1>8. Plus(q[2], q[1]) = Mod(High(q) * 1) /\ Minus(q[2], q[1]) = Mod(Low(q) * 1)
  <2>1. High(q) * 1 = q[2] + q[1] /\ Low(q) * 1 = q[2] - q[1]
    BY <1>5 DEF High, Low
  <2> QED BY <1>5, <2>1, FieldOps
<1>9. Times(Times(q[1], q[2]), curve2D) = Mod((2 * D * Area(q)) * 1)
  <2>1. 1 \in Fe /\ Area(q) * 1 = q[1] * q[2]
    BY <1>5, Elements DEF Area
  <2>2. Times(q[1], q[2]) = Mod(Area(q) * 1)
    BY <1>5, <2>1, FieldOps
  <2> QED BY <2>1, <2>2, ProjectiveNielsIs
<1>10. fixedBaseCacheAffine(Scaled(q, w)) = AffineNiels(q)
  BY <1>2, <1>6, <1>7, <1>8, <1>9 DEF fixedBaseCacheAffine, AffineNiels
<1>11. Times(Mod((2 * D * Area(q)) * w), i) = Mod((2 * D * Area(q)) * 1)
  <2>1. 2 * D * Area(q) \in Int
    BY LinearIn, ConstantIs
  <2> QED BY <1>4, <2>1
<1>12. Times(Mod(High(q) * w), i) = Mod(High(q) * 1) /\ Times(Mod(Low(q) * w), i) = Mod(Low(q) * 1)
  BY <1>4, LinearIn
<1>13. Times(Times(Mod(Area(q) * w), curve2D), i) = Mod((2 * D * Area(q)) * 1)
  BY <1>1, <1>11, ProjectiveNielsIs
<1>14. affineCachedFromP3(Scaled(q, w)) = AffineNiels(q)
  BY <1>2, <1>7, <1>12, <1>13 DEF affineCachedFromP3, AffineNiels
<1> QED BY <1>10, <1>14

\* The linear forms of an opposite: y + x for y - x, and the area changes sign.
LEMMA OppositeForms ==
  ASSUME NEW q \in Points, NEW w \in Int
  PROVE  /\ Mod(High(Opposite(q)) * w) = Mod(Low(q) * w) /\ Mod(Low(Opposite(q)) * w) = Mod(High(q) * w)
         /\ Minus0(Mod((2 * D * Area(q)) * w)) = Mod((2 * D * Area(Opposite(q))) * w)
         /\ Minus0(Mod(q[1] * w)) = Mod(Opposite(q)[1] * w)
         /\ Minus0(Mod(Area(q) * w)) = Mod(Area(Opposite(q)) * w)
<1>1. PICK x \in Int, y \in Int : x = q[1] /\ y = q[2]
  BY PointIs
<1>2. PICK n \in Int : n = Opposite(q)[1] /\ Opposite(q)[2] = y /\ Mod(n + x) = 0
  BY <1>1, OppositeIs, PointIs
<1>3. D \in Int
  BY ConstantIs
<1>4. /\ High(Opposite(q)) = y + n /\ Low(Opposite(q)) = y - n /\ Area(Opposite(q)) = n * y
      /\ High(q) = y + x /\ Low(q) = y - x /\ Area(q) = x * y
  BY <1>1, <1>2 DEF High, Low, Area
<1>5. /\ Differ1(<<(y + n) * w, (y - x) * w, n + x, w>>)
      /\ Differ1(<<(y - n) * w, (y + x) * w, n + x, -w>>)
      /\ Differ1(<<(2 * D * (n * y)) * w, -((2 * D * (x * y)) * w), n + x, (2 * D * y) * w>>)
      /\ Differ1(<<n * w, -(x * w), n + x, w>>)
      /\ Differ1(<<(n * y) * w, -((x * y) * w), n + x, y * w>>)
  BY <1>3 DEF Differ1
<1>6. Mod((y + n) * w) = Mod((y - x) * w) /\ Mod((y - n) * w) = Mod((y + x) * w)
  BY <1>2, <1>5, Vanish1
<1>7. /\ Mod((2 * D * (n * y)) * w) = Mod(-((2 * D * (x * y)) * w))
      /\ Mod(n * w) = Mod(-(x * w)) /\ Mod((n * y) * w) = Mod(-((x * y) * w))
  BY <1>2, <1>5, Vanish1
<1>8. (2 * D * (x * y)) * w \in Int /\ x * w \in Int /\ (x * y) * w \in Int
  BY <1>3
<1>9. /\ Minus0(Mod((2 * D * (x * y)) * w)) = Mod(-((2 * D * (x * y)) * w))
      /\ Minus0(Mod(x * w)) = Mod(-(x * w)) /\ Minus0(Mod((x * y) * w)) = Mod(-((x * y) * w))
  BY Zenon, <1>8, Arithmetic
<1> QED BY <1>1, <1>2, <1>4, <1>6, <1>7, <1>9

\* A negative digit turns a Niels point into that of the opposite.
LEMMA SignedNielsIs ==
  ASSUME NEW q \in Points, NEW w \in Int, NEW negative \in BOOLEAN
  PROVE  /\ SignedNiels(ProjectiveNiels(q, w), negative) = ProjectiveNiels(Signed(q, negative), w)
         /\ SignedNiels(AffineNiels(q), negative) = AffineNiels(Signed(q, negative))
<1>1. CASE negative = FALSE
  BY <1>1 DEF SignedNiels, Signed
<1>2. CASE negative = TRUE
  <2>1. Signed(q, negative) = Opposite(q)
    BY <1>2 DEF Signed
  <2>2. SignedNiels(ProjectiveNiels(q, w), negative) = ProjectiveNiels(Opposite(q), w)
    BY <1>2, OppositeForms DEF SignedNiels, ProjectiveNiels
  <2>3. SignedNiels(AffineNiels(q), negative) = AffineNiels(Opposite(q))
    <3>1. 1 \in Int
      OBVIOUS
    <3>2. /\ Mod(High(Opposite(q)) * 1) = Mod(Low(q) * 1) /\ Mod(Low(Opposite(q)) * 1) = Mod(High(q) * 1)
          /\ Minus0(Mod((2 * D * Area(q)) * 1)) = Mod((2 * D * Area(Opposite(q))) * 1)
      BY Zenon, <3>1, OppositeForms
    <3> QED BY <1>2, <3>2, Zenon DEF SignedNiels, AffineNiels
  <2> QED BY <2>1, <2>2, <2>3
<1> QED BY <1>1, <1>2

\* The opposite, in extended coordinates.
LEMMA NegatedIs ==
  ASSUME NEW q \in Points, NEW w \in Fe
  PROVE  Negated(Scaled(q, w)) = Scaled(Opposite(q), w)
<1>1. w \in Int /\ Opposite(q) \in Points /\ Opposite(q)[2] = q[2]
  BY ElementIs, OppositeIs
<1>2. Scaled(q, w) = [X |-> Mod(q[1] * w), Y |-> Mod(q[2] * w), Z |-> w, T |-> Mod(Area(q) * w)]
  BY Zenon, ScaledIs
<1>3. Scaled(Opposite(q), w) =
        [X |-> Mod(Opposite(q)[1] * w), Y |-> Mod(q[2] * w), Z |-> w, T |-> Mod(Area(Opposite(q)) * w)]
  <2>1. Scaled(Opposite(q), w) = [X |-> Mod(Opposite(q)[1] * w), Y |-> Mod(Opposite(q)[2] * w), Z |-> w,
                                  T |-> Mod(Area(Opposite(q)) * w)]
    BY Zenon, <1>1, ScaledIs
  <2> QED BY Zenon, <1>1, <2>1
<1>4. /\ Minus0(Mod(q[1] * w)) = Mod(Opposite(q)[1] * w)
      /\ Minus0(Mod(Area(q) * w)) = Mod(Area(Opposite(q)) * w)
  BY Zenon, <1>1, OppositeForms
<1>5. ASSUME NEW x, NEW y, NEW z, NEW t
      PROVE  Negated([X |-> x, Y |-> y, Z |-> z, T |-> t]) = [X |-> Minus0(x), Y |-> y, Z |-> z, T |-> Minus0(t)]
  BY DEF Negated
<1>6. Negated(Scaled(q, w)) =
        [X |-> Minus0(Mod(q[1] * w)), Y |-> Mod(q[2] * w), Z |-> w, T |-> Minus0(Mod(Area(q) * w))]
  BY ZenonT(60), <1>2, <1>5
<1> QED BY Zenon, <1>3, <1>4, <1>6

\* A lane without a digit adds the neutral point.
LEMMA IdentityNiels ==
  /\ setIdentityIFMAProjectiveNielsLane = ProjectiveNiels(Neutral, 1)
  /\ identityFixedBaseCached = AffineNiels(Neutral)
<1>1. High(Neutral) * 1 = 1 /\ Low(Neutral) * 1 = 1 /\ (2 * D * Area(Neutral)) * 1 = 0
  BY NeutralIs, ConstantIs DEF High, Low, Area
<1> QED BY <1>1, ModZero DEF setIdentityIFMAProjectiveNielsLane, identityFixedBaseCached, ProjectiveNiels, AffineNiels

-----------------------------------------------------------------------------
\* Completed points.

\* <<E, F, G, H>> completes p: x is E / G and y is H / F.
Completes(k, p) ==
  /\ k = <<k[1], k[2], k[3], k[4]>>
  /\ k[1] \in Fe /\ k[2] \in Fe /\ k[3] \in Fe /\ k[4] \in Fe
  /\ k[2] # 0 /\ k[3] # 0
  /\ Mod(k[1] - p[1] * k[3]) = 0 /\ Mod(k[4] - p[2] * k[2]) = 0

\* The same of integers that are not reduced.
Ratios(t, p) ==
  /\ t = <<t[1], t[2], t[3], t[4]>>
  /\ t[1] \in Int /\ t[2] \in Int /\ t[3] \in Int /\ t[4] \in Int
  /\ Mod(t[2]) # 0 /\ Mod(t[3]) # 0
  /\ Mod(t[1] - p[1] * t[3]) = 0 /\ Mod(t[4] - p[2] * t[2]) = 0

\* Their residues complete the point.
LEMMA RatiosComplete ==
  ASSUME NEW p \in Points, NEW t, Ratios(t, p)
  PROVE  Completes(<<Mod(t[1]), Mod(t[2]), Mod(t[3]), Mod(t[4])>>, p)
<1>1. PICK x \in Int, y \in Int : x = p[1] /\ y = p[2]
  BY PointIs
<1>2. PICK e \in Fe, f \in Fe, g \in Fe, h \in Fe : e = Mod(t[1]) /\ f = Mod(t[2]) /\ g = Mod(t[3]) /\ h = Mod(t[4])
  BY ModIs DEF Ratios
<1>3. ASSUME NEW a \in Int, NEW c \in Fe, c = Mod(a) PROVE c \in Int /\ Mod(c - a) = 0
  <2>1. c \in Int /\ Mod(c) = Mod(a)
    BY <1>3, ElementIs
  <2> QED BY <2>1, ModDifference
<1>4. /\ e \in Int /\ f \in Int /\ g \in Int /\ h \in Int
      /\ Mod(e - t[1]) = 0 /\ Mod(f - t[2]) = 0 /\ Mod(g - t[3]) = 0 /\ Mod(h - t[4]) = 0
  BY <1>2, <1>3 DEF Ratios
<1>5. /\ Differ4(<<e - x * g, 0, t[1] - x * t[3], 1, e - t[1], 1, g - t[3], -x, 0, 0>>)
      /\ Differ4(<<h - y * f, 0, t[4] - y * t[2], 1, h - t[4], 1, f - t[2], -y, 0, 0>>)
  <2>1. PICK t1 \in Int, t2 \in Int, t3 \in Int, t4 \in Int : t1 = t[1] /\ t2 = t[2] /\ t3 = t[3] /\ t4 = t[4]
    BY DEF Ratios
  <2>2. e \in Int /\ f \in Int /\ g \in Int /\ h \in Int
    BY <1>4
  <2>3. /\ Differ4(<<e - x * g, 0, t1 - x * t3, 1, e - t1, 1, g - t3, -x, 0, 0>>)
        /\ Differ4(<<h - y * f, 0, t4 - y * t2, 1, h - t4, 1, f - t2, -y, 0, 0>>)
    BY <2>2 DEF Differ4
  <2> QED BY <2>1, <2>3
<1>6. Mod(t[1] - x * t[3]) = 0 /\ Mod(t[4] - y * t[2]) = 0
  BY <1>1 DEF Ratios
<1>7. Mod(e - x * g) = 0 /\ Mod(h - y * f) = 0
  BY <1>4, <1>5, <1>6, Vanish4, ModZero
<1>8. f # 0 /\ g # 0
  BY <1>2 DEF Ratios
<1>9. Completes(<<e, f, g, h>>, p)
  BY <1>1, <1>7, <1>8 DEF Completes
<1> QED BY <1>2, <1>9

\* The final products turn a completed point into coordinates.
LEMMA CompletesFinal ==
  ASSUME NEW p \in Points, NEW k, Completes(k, p)
  PROVE  \E z \in Scale : /\ ifmaPointFinalProducts(k) = Scaled(p, z)
                          /\ ifmaProjectiveFinalProducts(k) = Projective(p, z)
<1>1. PICK x \in Int, y \in Int : x = p[1] /\ y = p[2]
  BY PointIs
<1>2. PICK e \in Fe, f \in Fe, g \in Fe, h \in Fe : e = k[1] /\ f = k[2] /\ g = k[3] /\ h = k[4]
  BY DEF Completes
<1>3. /\ e \in Int /\ f \in Int /\ g \in Int /\ h \in Int /\ Mod(f) # 0 /\ Mod(g) # 0
      /\ Mod(e - x * g) = 0 /\ Mod(h - y * f) = 0
  BY <1>1, <1>2, ElementIs DEF Completes
<1>4. PICK z \in Fe : z = Times(f, g)
  BY <1>3, ModIs DEF Times, Mod
<1>5. z \in Int /\ Mod(z) = z /\ Mod(z) = Mod(f * g) /\ Mod(z - f * g) = 0
  <2>1. z = Mod(f * g) /\ z \in Int /\ Mod(z) = z /\ f * g \in Int
    BY <1>3, <1>4, ElementIs, FieldOps
  <2> QED BY <2>1, ModDifference
<1>6. z # 0
  <2>1. Product(<<f * g, f, g>>)
    BY <1>3 DEF Product
  <2> QED BY <1>3, <1>5, <2>1, ZeroProduct
<1>7. Times(e, f) = Mod(e * f) /\ Times(h, g) = Mod(h * g) /\ Times(g, h) = Mod(g * h) /\ Times(e, h) = Mod(e * h)
  BY FieldOps
<1>8. /\ Differ2(<<e * f, x * z, e - x * g, f, z - f * g, -x>>)
      /\ Differ2(<<g * h, y * z, h - y * f, g, z - f * g, -y>>)
      /\ Differ4(<<e * h, (x * y) * z, e - x * g, h, h - y * f, x * g, z - f * g, -(x * y), 0, 0>>)
  <2>1. e \in Int /\ f \in Int /\ g \in Int /\ h \in Int /\ z \in Int
    BY <1>3, <1>5
  <2> QED BY <2>1 DEF Differ2, Differ4
<1>9. Mod(e * f) = Mod(x * z) /\ Mod(g * h) = Mod(y * z) /\ Mod(e * h) = Mod((x * y) * z)
  BY <1>3, <1>5, <1>8, Vanish2, Vanish4, ModZero
<1>10. Area(p) = x * y
  BY <1>1 DEF Area
<1>11. ifmaPointFinalProducts(k) = [X |-> Mod(x * z), Y |-> Mod(y * z), Z |-> z, T |-> Mod((x * y) * z)]
  BY <1>2, <1>4, <1>7, <1>9 DEF ifmaPointFinalProducts
<1>12. ifmaProjectiveFinalProducts(k) = [X |-> Mod(x * z), Y |-> Mod(y * z), Z |-> z]
  BY <1>2, <1>4, <1>7, <1>9 DEF ifmaProjectiveFinalProducts
<1>13. ifmaPointFinalProducts(k) = Scaled(p, z) /\ ifmaProjectiveFinalProducts(k) = Projective(p, z)
  BY <1>1, <1>10, <1>11, <1>12, ScaledIs DEF Projective
<1> QED BY <1>6, <1>13 DEF Scale

\* What an addition takes of the two T, with the factor 2D of the cached one.
Third(p, q) == Area(p) * (2 * D * Area(q))

\* The second stage of an addition completes the sum, for any nonzero multiple
\* s of its products.
LEMMA NielsCompletes ==
  ASSUME NEW p \in Points, NEW q \in Points, NEW s \in Int, Mod(s) # 0
  PROVE  Completes(ifmaNielsStage2(Mod(s * (Low(p) * Low(q))), Mod(s * (High(p) * High(q))),
                                   Mod(s * Third(p, q)), Mod(s)), Sum(p, q))
<1>1. PICK x1 \in Int, y1 \in Int, x2 \in Int, y2 \in Int : x1 = p[1] /\ y1 = p[2] /\ x2 = q[1] /\ y2 = q[2]
  BY PointIs
<1>2. PICK s1 \in Int, s2 \in Int, k \in Int, n1 \in Int, n2 \in Int :
        /\ s1 = Sum(p, q)[1] /\ s2 = Sum(p, q)[2] /\ k = Kappa(p, q) /\ n1 = SumX(p, q) /\ n2 = SumY(p, q)
  BY SumIs, TermsIn, ElementIs
<1>3. /\ Mod(s1 * (1 + k) - n1) = 0 /\ Mod(s2 * (1 - k) - n2) = 0
      /\ Mod(1 + k) # 0 /\ Mod(1 - k) # 0 /\ Sum(p, q) \in Points
  BY <1>2, SumIs, Complete, SumOnCurve
<1>4. D \in Int
  BY ConstantIs
<1>5. PICK a \in Int, b \in Int, c \in Int :
        /\ a = s * (Low(p) * Low(q)) /\ b = s * (High(p) * High(q)) /\ c = s * Third(p, q)
        /\ b - a = 2 * s * n1 /\ b + a = 2 * s * n2 /\ 2 * s - c = 2 * s * (1 - k) /\ 2 * s + c = 2 * s * (1 + k)
  <2>1. k = D * ((x1 * x2) * (y1 * y2)) /\ n1 = x1 * y2 + y1 * x2 /\ n2 = y1 * y2 + x1 * x2
    BY <1>1, <1>2 DEF Kappa, SumX, SumY
  <2>2. /\ Low(p) = y1 - x1 /\ Low(q) = y2 - x2 /\ High(p) = y1 + x1 /\ High(q) = y2 + x2
        /\ Third(p, q) = (x1 * y1) * (2 * D * (x2 * y2))
    BY <1>1 DEF Low, High, Area, Third
  <2>3. PICK a \in Int, b \in Int, c \in Int :
          /\ a = s * ((y1 - x1) * (y2 - x2)) /\ b = s * ((y1 + x1) * (y2 + x2))
          /\ c = s * ((x1 * y1) * (2 * D * (x2 * y2)))
    BY <1>4
  <2>4. b - a = 2 * s * n1 /\ b + a = 2 * s * n2
    BY <2>1, <2>3
  <2>5. c = 2 * s * k
    BY <1>4, <2>1, <2>3
  <2>6. 2 * s - c = 2 * s * (1 - k) /\ 2 * s + c = 2 * s * (1 + k)
    BY <2>5
  <2> QED BY <2>2, <2>3, <2>4, <2>6
<1>6. PICK e \in Int, f \in Int, g \in Int, h \in Int : e = b - a /\ f = 2 * s - c /\ g = 2 * s + c /\ h = b + a
  BY <1>5
<1>7. ifmaNielsStage2(Mod(a), Mod(b), Mod(c), Mod(s)) = <<Mod(e), Mod(f), Mod(g), Mod(h)>>
  <2>1. Minus(Mod(b), Mod(a)) = Mod(e) /\ Plus(Mod(b), Mod(a)) = Mod(h) /\ Twice(Mod(s)) = Mod(2 * s) /\ 2 * s \in Int
    <3>1. Minus(Mod(b), Mod(a)) = Mod(b - a) /\ Plus(Mod(b), Mod(a)) = Mod(b + a) /\ Twice(Mod(s)) = Mod(2 * s)
      BY ZenonT(60), <1>5, Arithmetic
    <3> QED BY <1>6, <3>1
  <2>2. Minus(Mod(2 * s), Mod(c)) = Mod(2 * s - c) /\ Plus(Mod(2 * s), Mod(c)) = Mod(2 * s + c)
    BY Zenon, <1>5, <2>1, Arithmetic
  <2> QED BY <1>6, <2>1, <2>2, Zenon DEF ifmaNielsStage2
<1>8. Ratios(<<e, f, g, h>>, Sum(p, q))
  <2>1. /\ Product(<<f, 2 * s, 1 - k>>) /\ Product(<<g, 2 * s, 1 + k>>) /\ Product(<<2 * s, 2, s>>)
        /\ Differ1(<<e - s1 * g, 0, s1 * (1 + k) - n1, -2 * s>>)
        /\ Differ1(<<h - s2 * f, 0, s2 * (1 - k) - n2, -2 * s>>)
    BY <1>5, <1>6 DEF Product, Differ1
  <2>2. Mod(f) # 0 /\ Mod(g) # 0
    BY <1>3, <2>1, ZeroProduct, Odd
  <2>3. Mod(e - s1 * g) = 0 /\ Mod(h - s2 * f) = 0
    BY <1>3, <2>1, Vanish1, ModZero
  <2> QED BY <1>2, <2>2, <2>3 DEF Ratios
<1>9. Completes(<<Mod(e), Mod(f), Mod(g), Mod(h)>>, Sum(p, q))
  BY <1>3, <1>8, RatiosComplete
<1> QED BY <1>5, <1>7, <1>9

\* The second stage of a doubling, and with F and H negated, for s = Z^2.
Doubling(p, s) ==
  <<Mod(s * (2 * Area(p))), Mod(s * (Low(p) * High(p) - 2)), Mod(s * (Low(p) * High(p))),
    Mod(-(s * (p[1] * p[1] + p[2] * p[2])))>>
Flipped(p, s) ==
  <<Mod(s * (2 * Area(p))), Mod(s * (2 - Low(p) * High(p))), Mod(s * (Low(p) * High(p))),
    Mod(s * (p[1] * p[1] + p[2] * p[2]))>>

\* Both complete the double.
LEMMA DoublingCompletes ==
  ASSUME NEW p \in Points, NEW s \in Int, Mod(s) # 0
  PROVE  Completes(Doubling(p, s), Sum(p, p)) /\ Completes(Flipped(p, s), Sum(p, p))
<1>1. PICK x \in Int, y \in Int : x = p[1] /\ y = p[2]
  BY PointIs
<1>2. PICK s1 \in Int, s2 \in Int, k \in Int, n1 \in Int, n2 \in Int :
        /\ s1 = Sum(p, p)[1] /\ s2 = Sum(p, p)[2] /\ k = Kappa(p, p) /\ n1 = SumX(p, p) /\ n2 = SumY(p, p)
  BY SumIs, TermsIn, ElementIs
<1>3. /\ Mod(s1 * (1 + k) - n1) = 0 /\ Mod(s2 * (1 - k) - n2) = 0
      /\ Mod(1 + k) # 0 /\ Mod(1 - k) # 0 /\ Sum(p, p) \in Points
  BY <1>2, SumIs, Complete, SumOnCurve
<1>4. D \in Int
  BY ConstantIs
<1>5. k = D * ((x * x) * (y * y)) /\ n1 = 2 * (x * y) /\ n2 = y * y + x * x
  BY <1>1, <1>2 DEF Kappa, SumX, SumY
<1>6. PICK u \in Int : u = y * y - x * x /\ u - 1 - k = Excess(x, y) /\ Mod(u - 1 - k) = 0
  <2>1. Mod(Excess(x, y)) = 0
    BY <1>1, PointIs
  <2>2. y * y - x * x - 1 - k = Excess(x, y) /\ y * y - x * x \in Int
    BY <1>4, <1>5 DEF Excess
  <2> QED BY <2>1, <2>2
<1>7. PICK e \in Int, f \in Int, g \in Int, h \in Int : e = s * n1 /\ f = s * (u - 2) /\ g = s * u /\ h = -(s * n2)
  OBVIOUS
<1>8. PICK fn \in Int, hn \in Int : fn = s * (2 - u) /\ hn = s * n2
  OBVIOUS
<1>9. Doubling(p, s) = <<Mod(e), Mod(f), Mod(g), Mod(h)>> /\ Flipped(p, s) = <<Mod(e), Mod(fn), Mod(g), Mod(hn)>>
  <2>1. Low(p) * High(p) = u /\ p[1] * p[1] + p[2] * p[2] = n2 /\ 2 * Area(p) = n1
    BY <1>1, <1>5, <1>6 DEF Low, High, Area
  <2> QED BY Zenon, <1>7, <1>8, <2>1 DEF Doubling, Flipped
<1>10. Mod(f) # 0 /\ Mod(fn) # 0 /\ Mod(g) # 0
  <2>1. Product(<<f, s, u - 2>>) /\ Product(<<fn, s, 2 - u>>) /\ Product(<<g, s, u>>)
    BY <1>7, <1>8 DEF Product
  <2>2. /\ Differ2(<<1 - k, 0, u - 1 - k, 1, u - 2, -1>>) /\ Differ2(<<1 - k, 0, u - 1 - k, 1, 2 - u, 1>>)
        /\ Differ2(<<1 + k, 0, u - 1 - k, -1, u, 1>>)
    BY DEF Differ2
  <2>3. Mod(u - 2) # 0 /\ Mod(2 - u) # 0 /\ Mod(u) # 0
    BY <1>3, <1>6, <2>2, Vanish2, ModZero
  <2> QED BY <2>1, <2>3, ZeroProduct
<1>11. /\ Differ2(<<e - s1 * g, 0, s1 * (1 + k) - n1, -s, u - 1 - k, -(s * s1)>>)
       /\ Differ2(<<h - s2 * f, 0, s2 * (1 - k) - n2, s, u - 1 - k, -(s * s2)>>)
       /\ Differ2(<<hn - s2 * fn, 0, s2 * (1 - k) - n2, -s, u - 1 - k, s * s2>>)
  BY <1>7, <1>8 DEF Differ2
<1>12. Mod(e - s1 * g) = 0 /\ Mod(h - s2 * f) = 0 /\ Mod(hn - s2 * fn) = 0
  BY <1>3, <1>6, <1>11, Vanish2, ModZero
<1>13. Ratios(<<e, f, g, h>>, Sum(p, p)) /\ Ratios(<<e, fn, g, hn>>, Sum(p, p))
  BY <1>2, <1>10, <1>12 DEF Ratios
<1>14. Completes(<<Mod(e), Mod(f), Mod(g), Mod(h)>>, Sum(p, p)) /\ Completes(<<Mod(e), Mod(fn), Mod(g), Mod(hn)>>, Sum(p, p))
  <2>1. ASSUME NEW t, Ratios(t, Sum(p, p)) PROVE Completes(<<Mod(t[1]), Mod(t[2]), Mod(t[3]), Mod(t[4])>>, Sum(p, p))
    BY Zenon, <1>3, <2>1, RatiosComplete
  <2> QED BY <1>13, <2>1
<1> QED BY <1>9, <1>14

-----------------------------------------------------------------------------
\* Every implementation of an addition runs through one stage.

Stage(p, q, s) ==
  ifmaNielsStage2(Mod(s * (Low(p) * Low(q))), Mod(s * (High(p) * High(q))), Mod(s * Third(p, q)), Mod(s))
Added(p, q, s) == ifmaPointFinalProducts(Stage(p, q, s))

\* The sum of two points, in some scaling.
StandsForSum(a, p, q) == \E z \in Scale : a = Scaled(Sum(p, q), z)

\* Scales multiply to a scale.
LEMMA ScalesMultiply ==
  ASSUME NEW z \in Scale, NEW w \in Scale
  PROVE  /\ z * w \in Int /\ Mod(z * w) # 0 /\ Times(z, w) = Mod(z * w)
         /\ z * 1 \in Int /\ Mod(z * 1) # 0 /\ z = Mod(z * 1)
<1>1. z \in Int /\ w \in Int /\ Mod(z) = z /\ Mod(z) # 0 /\ Mod(w) # 0 /\ z \in Fe /\ w \in Fe
  BY ScaleIs
<1>2. Product(<<z * w, z, w>>) /\ z * w \in Int /\ z * 1 = z
  BY <1>1 DEF Product
<1>3. Mod(z * w) # 0
  BY <1>1, <1>2, ZeroProduct
<1> QED BY <1>1, <1>2, <1>3, FieldOps

\* What the stage adds up to.
LEMMA AddedIs ==
  ASSUME NEW p \in Points, NEW q \in Points, NEW s \in Int, Mod(s) # 0
  PROVE  Completes(Stage(p, q, s), Sum(p, q)) /\ StandsForSum(Added(p, q, s), p, q)
<1>1. Completes(Stage(p, q, s), Sum(p, q))
  BY Zenon, NielsCompletes DEF Stage
<1>2. Sum(p, q) \in Points
  BY SumOnCurve
<1> QED BY Zenon, <1>1, <1>2, CompletesFinal DEF Added, StandsForSum

\* The products of the stage, from a scaled point and a Niels point.
LEMMA StageProducts ==
  ASSUME NEW p \in Points, NEW q \in Points, NEW z \in Int, NEW w \in Int
  PROVE  /\ Times(Mod(Low(p) * z), Mod(Low(q) * w)) = Mod((z * w) * (Low(p) * Low(q)))
         /\ Times(Mod(High(p) * z), Mod(High(q) * w)) = Mod((z * w) * (High(p) * High(q)))
         /\ Times(Mod(Area(p) * z), Mod((2 * D * Area(q)) * w)) = Mod((z * w) * Third(p, q))
         /\ Times(Times(Mod(Area(p) * z), Mod(Area(q) * w)), curve2D) = Mod((z * w) * Third(p, q))
<1>1. /\ Low(p) \in Int /\ Low(q) \in Int /\ High(p) \in Int /\ High(q) \in Int /\ Area(p) \in Int /\ Area(q) \in Int
      /\ 2 * D * Area(q) \in Int
  BY LinearIn, ConstantIs
<1>2. /\ Times(Mod(Low(p) * z), Mod(Low(q) * w)) = Mod((z * w) * (Low(p) * Low(q)))
      /\ Times(Mod(High(p) * z), Mod(High(q) * w)) = Mod((z * w) * (High(p) * High(q)))
      /\ Times(Mod(Area(p) * z), Mod((2 * D * Area(q)) * w)) = Mod((z * w) * (Area(p) * (2 * D * Area(q))))
      /\ Times(Mod(Area(p) * z), Mod(Area(q) * w)) = Mod((z * w) * (Area(p) * Area(q)))
  <2>1. ASSUME NEW a \in Int, NEW b \in Int PROVE Times(Mod(a * z), Mod(b * w)) = Mod((z * w) * (a * b))
    BY ZenonT(60), ScaledProduct
  <2> QED BY Zenon, <1>1, <2>1
<1>3. PICK a \in Int, b \in Int, m \in Int : a = Area(p) /\ b = Area(q) /\ m = (z * w) * (a * b)
  BY <1>1
<1>4. Times(Mod(m), Mod(2 * D)) = Mod(m * (2 * D)) /\ m * (2 * D) \in Int
  <2>1. 2 * D \in Int /\ m * (2 * D) \in Int
    BY TwiceD
  <2> QED BY Zenon, <2>1, Arithmetic
<1>5. m * (2 * D) = (z * w) * Third(p, q)
  BY <1>3, ConstantIs DEF Third
<1>6. Times(Times(Mod(Area(p) * z), Mod(Area(q) * w)), curve2D) = Mod((z * w) * Third(p, q))
  BY Zenon, <1>2, <1>3, <1>4, <1>5, TwiceD
<1> QED BY Zenon, <1>2, <1>6 DEF Third

\* The fields of an extended point, and its linear forms.
LEMMA ScaledFields ==
  ASSUME NEW p \in Points, NEW z \in Fe
  PROVE  /\ Scaled(p, z).X = Mod(p[1] * z) /\ Scaled(p, z).Y = Mod(p[2] * z)
         /\ Scaled(p, z).Z = z /\ Scaled(p, z).T = Mod(Area(p) * z)
         /\ Minus(Scaled(p, z).Y, Scaled(p, z).X) = Mod(Low(p) * z)
         /\ Plus(Scaled(p, z).Y, Scaled(p, z).X) = Mod(High(p) * z)
BY ScaledIs

\* The fields of a Niels point.
LEMMA NielsFields ==
  ASSUME NEW q, NEW w
  PROVE  /\ ProjectiveNiels(q, w).YPlusX = Mod(High(q) * w) /\ ProjectiveNiels(q, w).YMinusX = Mod(Low(q) * w)
         /\ ProjectiveNiels(q, w).Z = w /\ ProjectiveNiels(q, w).T2D = Mod((2 * D * Area(q)) * w)
         /\ AffineNiels(q).YPlusX = Mod(High(q) * 1) /\ AffineNiels(q).YMinusX = Mod(Low(q) * 1)
         /\ AffineNiels(q).T2D = Mod((2 * D * Area(q)) * 1)
BY DEF ProjectiveNiels, AffineNiels

\* The order of a product does not matter.
LEMMA Commutes ==
  ASSUME NEW x \in Fe, NEW y \in Fe
  PROVE  Times(x, y) = Times(y, x)
<1>1. x \in Int /\ y \in Int
  BY ElementIs
<1>2. x * y = y * x
  BY <1>1
<1> QED BY <1>2 DEF Times

\* The operations of the field return elements.
LEMMA OperationsIn ==
  ASSUME NEW x \in Fe, NEW y \in Fe
  PROVE  Times(x, y) \in Fe /\ Plus(x, y) \in Fe /\ Minus(x, y) \in Fe /\ Twice(x) \in Fe /\ Minus0(x) \in Fe
<1>1. x \in Int /\ y \in Int
  BY ElementIs
<1>2. x * y \in Int /\ x + y \in Int /\ x - y \in Int /\ 2 * x \in Int /\ -x \in Int
  BY <1>1
<1> QED BY ZenonT(60), <1>2, ModIs, FieldOps

\* P1xP1 holds the same completed point, with H and G in the other order.
LEMMA VendoredFinal ==
  ASSUME NEW e \in Fe, NEW f \in Fe, NEW g \in Fe, NEW h \in Fe
  PROVE  /\ fromP1xP1([X |-> e, Y |-> h, Z |-> g, T |-> f]) = ifmaPointFinalProducts(<<e, f, g, h>>)
         /\ projP2FromP1xP1([X |-> e, Y |-> h, Z |-> g, T |-> f]) = ifmaProjectiveFinalProducts(<<e, f, g, h>>)
<1>1. Times(h, g) = Times(g, h) /\ Times(g, f) = Times(f, g)
  BY Commutes
<1> QED BY <1>1 DEF fromP1xP1, projP2FromP1xP1, ifmaPointFinalProducts, ifmaProjectiveFinalProducts

\* And the sum of the library is the stage.
LEMMA VendoredStage ==
  ASSUME NEW a \in Fe, NEW b \in Fe, NEW c \in Fe, NEW d \in Fe
  PROVE  fromP1xP1(Completed1(b, a, Plus(Twice(d), c), Minus(Twice(d), c)))
           = ifmaPointFinalProducts(ifmaNielsStage2(a, b, c, d))
<1>1. PICK e \in Fe, f \in Fe, g \in Fe, h \in Fe :
        e = Minus(b, a) /\ f = Minus(Twice(d), c) /\ g = Plus(Twice(d), c) /\ h = Plus(b, a)
  BY OperationsIn
<1>2. Completed1(b, a, Plus(Twice(d), c), Minus(Twice(d), c)) = [X |-> e, Y |-> h, Z |-> g, T |-> f]
  BY Zenon, <1>1 DEF Completed1
<1>3. ifmaNielsStage2(a, b, c, d) = <<e, f, g, h>>
  BY Zenon, <1>1 DEF ifmaNielsStage2
<1> QED BY <1>2, <1>3, VendoredFinal

\* The lanes of a packed point.
LEMMA LanewiseIs ==
  ASSUME NEW a, NEW b, NEW c, NEW d, NEW e, NEW f, NEW g, NEW h
  PROVE  Lanewise(<<a, b, c, d>>, <<e, f, g, h>>) = <<Times(a, e), Times(b, f), Times(c, g), Times(d, h)>>
BY DEF Lanewise

\* Packed, the sum is the stage too; d is already doubled.
LEMMA PackedStage ==
  ASSUME NEW l, NEW m, NEW t, NEW z, NEW u, NEW v, NEW r, NEW d, NEW x, NEW y, NEW s,
         Minus(y, x) = l, Plus(y, x) = m, Times(z, d) = Twice(s)
  PROVE  quadReduced(quadPointAddCached(<<x, y, t, z>>, <<u, v, r, d>>))
           = ifmaPointFinalProducts(ifmaNielsStage2(Times(l, u), Times(m, v), Times(t, r), s))
<1>1. Lanewise(quadCachedAddFirstOperand(<<x, y, t, z>>), <<u, v, r, d>>)
        = <<Times(l, u), Times(m, v), Times(t, r), Twice(s)>>
  BY LanewiseIs DEF quadCachedAddFirstOperand
<1> DEFINE a == Times(l, u)  b == Times(m, v)  c == Times(t, r)  dd == Twice(s)
           e == Minus(b, a)  f == Minus(dd, c)  g == Plus(dd, c)  h == Plus(b, a)
<1>2. quadCachedAddFinalOperands(<<a, b, c, dd>>) = <<<<e, g, e, f>>, <<f, h, h, g>>>>
  BY DEF quadCachedAddFinalOperands
<1>3. ifmaNielsStage2(a, b, c, s) = <<e, f, g, h>>
  BY Zenon DEF ifmaNielsStage2
<1> HIDE DEF a, b, c, dd, e, f, g, h
<1>4. Lanewise(<<e, g, e, f>>, <<f, h, h, g>>) = <<Times(e, f), Times(g, h), Times(e, h), Times(f, g)>>
  BY LanewiseIs
<1>5. quadPointAddCached(<<x, y, t, z>>, <<u, v, r, d>>) = <<Times(e, f), Times(g, h), Times(e, h), Times(f, g)>>
  BY <1>1, <1>2, <1>4 DEF quadPointAddCached, a, b, c, dd
<1> QED BY <1>3, <1>5 DEF quadReduced, ifmaPointFinalProducts, a, b, c

\* A scaled point plus a projective Niels point, by every formula that takes one.
LEMMA ProjectiveSums ==
  ASSUME NEW p \in Points, NEW q \in Points, NEW z \in Scale, NEW w \in Scale
  PROVE  /\ ifmaPointAddProjectiveNiels(Scaled(p, z), ProjectiveNiels(q, w)) = Added(p, q, z * w)
         /\ fromP1xP1(projP1xP1Add(Scaled(p, z), ProjectiveNiels(q, w))) = Added(p, q, z * w)
         /\ Add(Scaled(p, z), Scaled(q, w)) = Added(p, q, z * w)
         /\ LET a == Scaled(p, z)
                n == ProjectiveNiels(q, w)
            IN ifmaNielsStage2(Times(Minus(a.Y, a.X), n.YMinusX), Times(Plus(a.Y, a.X), n.YPlusX),
                               Times(a.T, n.T2D), Times(a.Z, n.Z)) = Stage(p, q, z * w)
<1>1. z \in Fe /\ z \in Int /\ w \in Fe /\ w \in Int
  BY ScaleIs
<1>2. z * w \in Int /\ Times(z, w) = Mod(z * w)
  BY ScalesMultiply
<1>3. PICK s \in Int : s = z * w
  BY <1>2
<1>4. PICK a \in Fe, b \in Fe, c \in Fe, d \in Fe :
        /\ a = Mod(s * (Low(p) * Low(q))) /\ b = Mod(s * (High(p) * High(q))) /\ c = Mod(s * Third(p, q)) /\ d = Mod(s)
  <2>1. s * (Low(p) * Low(q)) \in Int /\ s * (High(p) * High(q)) \in Int /\ s * Third(p, q) \in Int
    BY LinearIn, ConstantIs DEF Third
  <2> QED BY Zenon, <2>1, ModIs
<1>5. /\ Times(Mod(Low(p) * z), Mod(Low(q) * w)) = a /\ Times(Mod(High(p) * z), Mod(High(q) * w)) = b
      /\ Times(Mod(Area(p) * z), Mod((2 * D * Area(q)) * w)) = c /\ Times(z, w) = d
      /\ Times(Times(Mod(Area(p) * z), Mod(Area(q) * w)), curve2D) = c
  <2>1. /\ Times(Mod(Low(p) * z), Mod(Low(q) * w)) = Mod((z * w) * (Low(p) * Low(q)))
        /\ Times(Mod(High(p) * z), Mod(High(q) * w)) = Mod((z * w) * (High(p) * High(q)))
        /\ Times(Mod(Area(p) * z), Mod((2 * D * Area(q)) * w)) = Mod((z * w) * Third(p, q))
        /\ Times(Times(Mod(Area(p) * z), Mod(Area(q) * w)), curve2D) = Mod((z * w) * Third(p, q))
    BY ZenonT(60), <1>1, StageProducts
  <2> QED BY Zenon, <1>2, <1>3, <1>4, <2>1
<1>6. Added(p, q, s) = ifmaPointFinalProducts(ifmaNielsStage2(a, b, c, d))
  BY Zenon, <1>4 DEF Added, Stage
<1>7. /\ Scaled(p, z).T = Mod(Area(p) * z) /\ Scaled(p, z).Z = z
      /\ Minus(Scaled(p, z).Y, Scaled(p, z).X) = Mod(Low(p) * z)
      /\ Plus(Scaled(p, z).Y, Scaled(p, z).X) = Mod(High(p) * z)
  BY Zenon, <1>1, ScaledFields
<1>8. /\ Scaled(q, w).T = Mod(Area(q) * w) /\ Scaled(q, w).Z = w
      /\ Minus(Scaled(q, w).Y, Scaled(q, w).X) = Mod(Low(q) * w)
      /\ Plus(Scaled(q, w).Y, Scaled(q, w).X) = Mod(High(q) * w)
  BY Zenon, <1>1, ScaledFields
<1>9. ifmaPointAddProjectiveNiels(Scaled(p, z), ProjectiveNiels(q, w)) = Added(p, q, s)
  BY ZenonT(60), <1>5, <1>6, <1>7, NielsFields DEF ifmaPointAddProjectiveNiels
<1>10. projP1xP1Add(Scaled(p, z), ProjectiveNiels(q, w)) = Completed1(b, a, Plus(Twice(d), c), Minus(Twice(d), c))
  BY ZenonT(60), <1>5, <1>7, NielsFields DEF projP1xP1Add
<1>11. fromP1xP1(projP1xP1Add(Scaled(p, z), ProjectiveNiels(q, w))) = Added(p, q, s)
  <2>1. fromP1xP1(Completed1(b, a, Plus(Twice(d), c), Minus(Twice(d), c)))
          = ifmaPointFinalProducts(ifmaNielsStage2(a, b, c, d))
    BY VendoredStage
  <2> QED BY Zenon, <1>6, <1>10, <2>1
<1>12. Add(Scaled(p, z), Scaled(q, w)) = Added(p, q, s)
  BY Zenon, <1>5, <1>6, <1>7, <1>8 DEF Add, ifmaNielsStage2
<1>13. ifmaNielsStage2(a, b, c, d) = Stage(p, q, s)
  BY Zenon, <1>4 DEF Stage
<1>14. LET k == Scaled(p, z)
           n == ProjectiveNiels(q, w)
       IN ifmaNielsStage2(Times(Minus(k.Y, k.X), n.YMinusX), Times(Plus(k.Y, k.X), n.YPlusX),
                          Times(k.T, n.T2D), Times(k.Z, n.Z)) = Stage(p, q, s)
  BY ZenonT(60), <1>5, <1>7, <1>13, NielsFields
<1> QED BY Zenon, <1>3, <1>9, <1>11, <1>12, <1>14

\* A scaled point plus an affine Niels point.
LEMMA AffineSums ==
  ASSUME NEW p \in Points, NEW q \in Points, NEW z \in Scale
  PROVE  /\ addFixedBaseIFMACached(Scaled(p, z), AffineNiels(q)) = Added(p, q, z * 1)
         /\ addFixedBaseCached(Scaled(p, z), AffineNiels(q)) = Added(p, q, z * 1)
         /\ fromP1xP1(projP1xP1AddAffine(Scaled(p, z), AffineNiels(q))) = Added(p, q, z * 1)
         /\ LET a == Scaled(p, z)
                n == AffineNiels(q)
            IN ifmaNielsStage2(Times(Minus(a.Y, a.X), n.YMinusX), Times(Plus(a.Y, a.X), n.YPlusX),
                               Times(a.T, n.T2D), a.Z) = Stage(p, q, z * 1)
<1>1. z \in Fe /\ z \in Int /\ 1 \in Int
  BY ScaleIs
<1>2. z * 1 \in Int /\ z = Mod(z * 1)
  BY ScalesMultiply
<1>3. PICK s \in Int : s = z * 1
  BY <1>2
<1>4. PICK a \in Fe, b \in Fe, c \in Fe, d \in Fe :
        /\ a = Mod(s * (Low(p) * Low(q))) /\ b = Mod(s * (High(p) * High(q))) /\ c = Mod(s * Third(p, q)) /\ d = Mod(s)
  <2>1. s * (Low(p) * Low(q)) \in Int /\ s * (High(p) * High(q)) \in Int /\ s * Third(p, q) \in Int
    BY LinearIn, ConstantIs DEF Third
  <2> QED BY Zenon, <2>1, ModIs
<1>5. /\ Times(Mod(Low(p) * z), Mod(Low(q) * 1)) = a /\ Times(Mod(High(p) * z), Mod(High(q) * 1)) = b
      /\ Times(Mod(Area(p) * z), Mod((2 * D * Area(q)) * 1)) = c /\ z = d
  <2>1. /\ Times(Mod(Low(p) * z), Mod(Low(q) * 1)) = Mod((z * 1) * (Low(p) * Low(q)))
        /\ Times(Mod(High(p) * z), Mod(High(q) * 1)) = Mod((z * 1) * (High(p) * High(q)))
        /\ Times(Mod(Area(p) * z), Mod((2 * D * Area(q)) * 1)) = Mod((z * 1) * Third(p, q))
    BY ZenonT(60), <1>1, StageProducts
  <2> QED BY Zenon, <1>2, <1>3, <1>4, <2>1
<1>6. Added(p, q, s) = ifmaPointFinalProducts(ifmaNielsStage2(a, b, c, d))
  BY Zenon, <1>4 DEF Added, Stage
<1>7. /\ Scaled(p, z).T = Mod(Area(p) * z) /\ Scaled(p, z).Z = d
      /\ Minus(Scaled(p, z).Y, Scaled(p, z).X) = Mod(Low(p) * z)
      /\ Plus(Scaled(p, z).Y, Scaled(p, z).X) = Mod(High(p) * z)
  BY ZenonT(60), <1>1, <1>5, ScaledFields
<1>8. /\ AffineNiels(q).YPlusX = Mod(High(q) * 1) /\ AffineNiels(q).YMinusX = Mod(Low(q) * 1)
      /\ AffineNiels(q).T2D = Mod((2 * D * Area(q)) * 1)
  BY NielsFields
<1>9. addFixedBaseIFMACached(Scaled(p, z), AffineNiels(q)) = Added(p, q, s)
  BY Zenon, <1>5, <1>6, <1>7, <1>8 DEF addFixedBaseIFMACached
<1>10. addFixedBaseCached(Scaled(p, z), AffineNiels(q)) = Added(p, q, s)
  BY Zenon, <1>5, <1>6, <1>7, <1>8 DEF addFixedBaseCached, ifmaNielsStage2
<1>11. projP1xP1AddAffine(Scaled(p, z), AffineNiels(q)) = Completed1(b, a, Plus(Twice(d), c), Minus(Twice(d), c))
  BY Zenon, <1>5, <1>7, <1>8 DEF projP1xP1AddAffine
<1>12. fromP1xP1(projP1xP1AddAffine(Scaled(p, z), AffineNiels(q))) = Added(p, q, s)
  <2>1. fromP1xP1(Completed1(b, a, Plus(Twice(d), c), Minus(Twice(d), c)))
          = ifmaPointFinalProducts(ifmaNielsStage2(a, b, c, d))
    BY VendoredStage
  <2> QED BY Zenon, <1>6, <1>11, <2>1
<1>13. ifmaNielsStage2(a, b, c, d) = Stage(p, q, s)
  BY Zenon, <1>4 DEF Stage
<1>14. LET k == Scaled(p, z)
           n == AffineNiels(q)
       IN ifmaNielsStage2(Times(Minus(k.Y, k.X), n.YMinusX), Times(Plus(k.Y, k.X), n.YPlusX),
                          Times(k.T, n.T2D), k.Z) = Stage(p, q, s)
  BY Zenon, <1>5, <1>7, <1>8, <1>13
<1> QED BY Zenon, <1>3, <1>9, <1>10, <1>12, <1>14

\* A packed point plus a cached one.
LEMMA PackedSums ==
  ASSUME NEW p \in Points, NEW q \in Points, NEW z \in Scale, NEW w \in Scale
  PROVE  quadReduced(quadPointAddCached(quadPacked(Scaled(p, z)), Cached(q, w))) = Added(p, q, z * w)
<1>1. z \in Fe /\ z \in Int /\ w \in Fe /\ w \in Int /\ Mod(z) = z
  BY ScaleIs
<1>2. z * w \in Int
  BY ScalesMultiply
<1>3. PICK s \in Int : s = z * w
  BY <1>2
<1>4. Times(z, Mod(2 * w)) = Twice(Mod(s))
  <2>1. 2 * w \in Int /\ z * (2 * w) = 2 * s
    BY <1>1, <1>3
  <2>2. Times(Mod(z), Mod(2 * w)) = Mod(z * (2 * w)) /\ Twice(Mod(s)) = Mod(2 * s)
    BY Zenon, <1>1, <2>1, Arithmetic
  <2> QED BY Zenon, <1>1, <2>1, <2>2
<1>5. quadPacked(Scaled(p, z)) = <<Mod(p[1] * z), Mod(p[2] * z), Mod(Area(p) * z), z>>
  BY <1>1, ScaledFields DEF quadPacked
<1>6. Minus(Mod(p[2] * z), Mod(p[1] * z)) = Mod(Low(p) * z) /\ Plus(Mod(p[2] * z), Mod(p[1] * z)) = Mod(High(p) * z)
  BY Zenon, <1>1, ScaledIs
<1>7. quadReduced(quadPointAddCached(quadPacked(Scaled(p, z)), Cached(q, w)))
        = ifmaPointFinalProducts(ifmaNielsStage2(
            Times(Mod(Low(p) * z), Mod(Low(q) * w)), Times(Mod(High(p) * z), Mod(High(q) * w)),
            Times(Mod(Area(p) * z), Mod((2 * D * Area(q)) * w)), Mod(s)))
  <2>1. quadReduced(quadPointAddCached(<<Mod(p[1] * z), Mod(p[2] * z), Mod(Area(p) * z), z>>,
                      <<Mod(Low(q) * w), Mod(High(q) * w), Mod((2 * D * Area(q)) * w), Mod(2 * w)>>))
          = ifmaPointFinalProducts(ifmaNielsStage2(
              Times(Mod(Low(p) * z), Mod(Low(q) * w)), Times(Mod(High(p) * z), Mod(High(q) * w)),
              Times(Mod(Area(p) * z), Mod((2 * D * Area(q)) * w)), Mod(s)))
    BY <1>4, <1>6, PackedStage
  <2> QED BY Zenon, <1>5, <2>1 DEF Cached
<1>8. /\ Times(Mod(Low(p) * z), Mod(Low(q) * w)) = Mod(s * (Low(p) * Low(q)))
      /\ Times(Mod(High(p) * z), Mod(High(q) * w)) = Mod(s * (High(p) * High(q)))
      /\ Times(Mod(Area(p) * z), Mod((2 * D * Area(q)) * w)) = Mod(s * Third(p, q))
  <2>1. /\ Times(Mod(Low(p) * z), Mod(Low(q) * w)) = Mod((z * w) * (Low(p) * Low(q)))
        /\ Times(Mod(High(p) * z), Mod(High(q) * w)) = Mod((z * w) * (High(p) * High(q)))
        /\ Times(Mod(Area(p) * z), Mod((2 * D * Area(q)) * w)) = Mod((z * w) * Third(p, q))
    BY ZenonT(60), <1>1, StageProducts
  <2> QED BY Zenon, <1>3, <2>1
<1> QED BY Zenon, <1>3, <1>7, <1>8 DEF Added, Stage

\* Both ways to cache a packed point, and its negation.
LEMMA CachedIs ==
  ASSUME NEW q \in Points, NEW w \in Scale
  PROVE  /\ quadCachePackedPoint(quadPacked(Scaled(q, w))) = Cached(q, w)
         /\ quadCachedSetReduced(Scaled(q, w), FALSE) = Cached(q, w)
         /\ quadNegateCachedPoint(Cached(q, w)) = Cached(Opposite(q), w)
         /\ quadCachedSetReduced(Scaled(q, w), TRUE) = Cached(Opposite(q), w)
<1>1. w \in Fe /\ w \in Int /\ Mod(w) = w
  BY ScaleIs
<1>2. /\ Scaled(q, w).T = Mod(Area(q) * w) /\ Scaled(q, w).Z = w
      /\ Minus(Scaled(q, w).Y, Scaled(q, w).X) = Mod(Low(q) * w)
      /\ Plus(Scaled(q, w).Y, Scaled(q, w).X) = Mod(High(q) * w)
  BY Zenon, <1>1, ScaledFields
<1>3. Times(Mod(Area(q) * w), curve2D) = Mod((2 * D * Area(q)) * w)
  BY Zenon, <1>1, ProjectiveNielsIs
<1>4. Twice(w) = Mod(2 * w) /\ Times(w, 2) = Mod(2 * w)
  <2>1. Twice(w) = Mod(2 * w)
    BY <1>1, FieldOps
  <2>2. w * 2 = 2 * w
    BY <1>1
  <2> QED BY <2>1, <2>2 DEF Times, Mod
<1>5. ASSUME NEW a \in Int PROVE Times(Mod(a), 1) = Mod(a)
  <2>1. 1 \in Int /\ a * 1 = a
    BY <1>5
  <2>2. Times(Mod(a), Mod(1)) = Mod(a * 1)
    BY Zenon, <2>1, Arithmetic
  <2> QED BY <2>1, <2>2, ModZero
<1>6. Times(Mod(Low(q) * w), 1) = Mod(Low(q) * w) /\ Times(Mod(High(q) * w), 1) = Mod(High(q) * w)
  <2>1. Low(q) * w \in Int /\ High(q) * w \in Int
    BY <1>1, LinearIn
  <2> QED BY Zenon, <1>5, <2>1
<1>7. quadCachedAddFirstOperand(quadPacked(Scaled(q, w))) = <<Mod(Low(q) * w), Mod(High(q) * w), Mod(Area(q) * w), w>>
  <2>1. quadPacked(Scaled(q, w)) = <<Scaled(q, w).X, Scaled(q, w).Y, Scaled(q, w).T, Scaled(q, w).Z>>
    BY DEF quadPacked
  <2> QED BY <1>2, <2>1 DEF quadCachedAddFirstOperand
<1>8. quadCachePackedPoint(quadPacked(Scaled(q, w))) = Cached(q, w)
  <2>1. Lanewise(<<Mod(Low(q) * w), Mod(High(q) * w), Mod(Area(q) * w), w>>, <<1, 1, curve2D, 2>>)
          = <<Times(Mod(Low(q) * w), 1), Times(Mod(High(q) * w), 1), Times(Mod(Area(q) * w), curve2D), Times(w, 2)>>
    BY LanewiseIs
  <2> QED BY Zenon, <1>3, <1>4, <1>6, <1>7, <2>1 DEF quadCachePackedPoint, quadCachedScale, Cached
<1>9. quadCachedSetReduced(Scaled(q, w), FALSE) = Cached(q, w)
  BY <1>2, <1>3, <1>4 DEF quadCachedSetReduced, Cached
<1>10. quadNegateCachedPoint(Cached(q, w)) = Cached(Opposite(q), w)
  <2>1. /\ Mod(High(Opposite(q)) * w) = Mod(Low(q) * w) /\ Mod(Low(Opposite(q)) * w) = Mod(High(q) * w)
        /\ Minus0(Mod((2 * D * Area(q)) * w)) = Mod((2 * D * Area(Opposite(q))) * w)
    BY Zenon, <1>1, OppositeForms
  <2>2. ASSUME NEW a, NEW b, NEW c, NEW d PROVE quadNegateCachedPoint(<<a, b, c, d>>) = <<b, a, Minus0(c), d>>
    BY DEF quadNegateCachedPoint
  <2>3. quadNegateCachedPoint(<<Mod(Low(q) * w), Mod(High(q) * w), Mod((2 * D * Area(q)) * w), Mod(2 * w)>>)
          = <<Mod(High(q) * w), Mod(Low(q) * w), Minus0(Mod((2 * D * Area(q)) * w)), Mod(2 * w)>>
    BY <2>2
  <2> QED BY Zenon, <2>1, <2>3 DEF Cached
<1>11. quadCachedSetReduced(Scaled(q, w), TRUE) = Cached(Opposite(q), w)
  <2>1. quadCachedSetReduced(Scaled(q, w), TRUE) = quadNegateCachedPoint(quadCachedSetReduced(Scaled(q, w), FALSE))
    BY DEF quadCachedSetReduced
  <2> QED BY Zenon, <1>9, <1>10, <2>1
<1> QED BY <1>8, <1>9, <1>10, <1>11

\* A sign moves from a factor to the operation.
LEMMA SignMoves ==
  ASSUME NEW d \in Fe, NEW x \in Fe, NEW y \in Fe
  PROVE  /\ Plus(d, Times(x, Minus0(y))) = Minus(d, Times(x, y))
         /\ Minus(d, Times(x, Minus0(y))) = Plus(d, Times(x, y))
<1>1. d \in Int /\ x \in Int /\ y \in Int /\ Mod(d) = d /\ Mod(x) = x
  BY ElementIs
<1>2. PICK m \in Int : m = x * y
  BY <1>1
<1>3. Times(x, y) = Mod(m) /\ Minus0(y) = Mod(-y)
  BY <1>2, FieldOps
<1>4. Times(x, Minus0(y)) = Mod(-m)
  <2>1. -y \in Int /\ x * (-y) = -m
    BY <1>1, <1>2
  <2>2. Times(Mod(x), Mod(-y)) = Mod(x * (-y))
    BY Zenon, <1>1, <2>1, Arithmetic
  <2> QED BY Zenon, <1>1, <1>3, <2>1, <2>2
<1>5. -m \in Int /\ d + (-m) = d - m /\ d - (-m) = d + m
  BY <1>1
<1>6. /\ Plus(Mod(d), Mod(-m)) = Mod(d + (-m)) /\ Minus(Mod(d), Mod(-m)) = Mod(d - (-m))
      /\ Plus(Mod(d), Mod(m)) = Mod(d + m) /\ Minus(Mod(d), Mod(m)) = Mod(d - m)
  BY Zenon, <1>1, <1>5, Arithmetic
<1> QED BY Zenon, <1>1, <1>3, <1>4, <1>5, <1>6

\* The library subtracts by swapping the linear terms of what it is given.
LEMMA Subtractions ==
  ASSUME NEW a, NEW q \in Points, NEW w \in Fe, a.T \in Fe, a.Z \in Fe
  PROVE  /\ projP1xP1Sub(a, ProjectiveNiels(q, w)) = projP1xP1Add(a, ProjectiveNiels(Opposite(q), w))
         /\ projP1xP1SubAffine(a, AffineNiels(q)) = projP1xP1AddAffine(a, AffineNiels(Opposite(q)))
<1>1. w \in Int /\ 1 \in Int /\ 1 \in Fe
  BY ElementIs, Elements
<1>2. ASSUME NEW v \in Fe, v \in Int
      PROVE  /\ Mod(High(Opposite(q)) * v) = Mod(Low(q) * v) /\ Mod(Low(Opposite(q)) * v) = Mod(High(q) * v)
             /\ Mod((2 * D * Area(Opposite(q))) * v) = Minus0(Mod((2 * D * Area(q)) * v))
             /\ Mod((2 * D * Area(q)) * v) \in Fe
  <2>1. (2 * D * Area(q)) * v \in Int
    BY <1>2, LinearIn, ConstantIs
  <2>2. Mod((2 * D * Area(q)) * v) \in Fe
    BY Zenon, <2>1, ModIs
  <2> QED BY Zenon, <1>2, <2>2, OppositeForms
<1>3. Twice(Times(a.Z, w)) \in Fe /\ Twice(a.Z) \in Fe
  BY OperationsIn
<1>4. projP1xP1Sub(a, ProjectiveNiels(q, w)) = projP1xP1Add(a, ProjectiveNiels(Opposite(q), w))
  <2>1. PICK t, u, v : /\ t \in Fe /\ t = Mod((2 * D * Area(q)) * w) /\ u = Mod(High(q) * w) /\ v = Mod(Low(q) * w)
                     /\ Minus0(t) = Mod((2 * D * Area(Opposite(q))) * w)
                     /\ v = Mod(High(Opposite(q)) * w) /\ u = Mod(Low(Opposite(q)) * w)
    BY Zenon, <1>1, <1>2
  <2>2. PICK d \in Fe : d = Twice(Times(a.Z, w))
    BY <1>3
  <2>f. /\ ProjectiveNiels(q, w).YPlusX = u /\ ProjectiveNiels(q, w).YMinusX = v
        /\ ProjectiveNiels(q, w).Z = w /\ ProjectiveNiels(q, w).T2D = t
        /\ ProjectiveNiels(Opposite(q), w).YPlusX = v /\ ProjectiveNiels(Opposite(q), w).YMinusX = u
        /\ ProjectiveNiels(Opposite(q), w).Z = w /\ ProjectiveNiels(Opposite(q), w).T2D = Minus0(t)
    <3>1. /\ ProjectiveNiels(q, w).YPlusX = u /\ ProjectiveNiels(q, w).YMinusX = v
          /\ ProjectiveNiels(q, w).Z = w /\ ProjectiveNiels(q, w).T2D = t
      BY ZenonT(60), <2>1, NielsFields
    <3>2. /\ ProjectiveNiels(Opposite(q), w).YPlusX = v /\ ProjectiveNiels(Opposite(q), w).YMinusX = u
          /\ ProjectiveNiels(Opposite(q), w).Z = w /\ ProjectiveNiels(Opposite(q), w).T2D = Minus0(t)
      BY ZenonT(60), <2>1, NielsFields
    <3> QED BY Zenon, <3>1, <3>2
  <2>3. /\ Plus(d, Times(a.T, Minus0(t))) = Minus(d, Times(a.T, t))
        /\ Minus(d, Times(a.T, Minus0(t))) = Plus(d, Times(a.T, t))
    BY ZenonT(60), <2>1, SignMoves
  <2>4. projP1xP1Sub(a, ProjectiveNiels(q, w))
          = Completed1(Times(Plus(a.Y, a.X), v), Times(Minus(a.Y, a.X), u), Minus(d, Times(a.T, t)), Plus(d, Times(a.T, t)))
    BY Zenon, <2>2, <2>f DEF projP1xP1Sub
  <2>5. projP1xP1Add(a, ProjectiveNiels(Opposite(q), w))
          = Completed1(Times(Plus(a.Y, a.X), v), Times(Minus(a.Y, a.X), u),
                       Plus(d, Times(a.T, Minus0(t))), Minus(d, Times(a.T, Minus0(t))))
    BY Zenon, <2>2, <2>f DEF projP1xP1Add
  <2> QED BY Zenon, <2>3, <2>4, <2>5
<1>5. projP1xP1SubAffine(a, AffineNiels(q)) = projP1xP1AddAffine(a, AffineNiels(Opposite(q)))
  <2>1. PICK t, u, v : /\ t \in Fe /\ t = Mod((2 * D * Area(q)) * 1) /\ u = Mod(High(q) * 1) /\ v = Mod(Low(q) * 1)
                     /\ Minus0(t) = Mod((2 * D * Area(Opposite(q))) * 1)
                     /\ v = Mod(High(Opposite(q)) * 1) /\ u = Mod(Low(Opposite(q)) * 1)
    BY Zenon, <1>1, <1>2
  <2>2. PICK d \in Fe : d = Twice(a.Z)
    BY <1>3
  <2>3. /\ Plus(d, Times(a.T, Minus0(t))) = Minus(d, Times(a.T, t))
        /\ Minus(d, Times(a.T, Minus0(t))) = Plus(d, Times(a.T, t))
    BY ZenonT(60), <2>1, SignMoves
  <2>4. projP1xP1SubAffine(a, AffineNiels(q))
          = Completed1(Times(Plus(a.Y, a.X), v), Times(Minus(a.Y, a.X), u), Minus(d, Times(a.T, t)), Plus(d, Times(a.T, t)))
    BY Zenon, <2>1, <2>2, NielsFields DEF projP1xP1SubAffine
  <2>5. projP1xP1AddAffine(a, AffineNiels(Opposite(q)))
          = Completed1(Times(Plus(a.Y, a.X), v), Times(Minus(a.Y, a.X), u),
                       Plus(d, Times(a.T, Minus0(t))), Minus(d, Times(a.T, Minus0(t))))
    BY Zenon, <2>1, <2>2, NielsFields DEF projP1xP1AddAffine
  <2> QED BY Zenon, <2>3, <2>4, <2>5
<1> QED BY <1>4, <1>5

\* A completed point plus a Niels point: the products it owes are those of its coordinates.
LEMMA CompletedSums ==
  ASSUME NEW p \in Points, NEW q \in Points, NEW w \in Scale, NEW k, Completes(k, p)
  PROVE  /\ Completes(ifmaCompletedAddProjectiveNiels(k, ProjectiveNiels(q, w)), Sum(p, q))
         /\ Completes(ifmaCompletedAddAffineNiels(k, AffineNiels(q)), Sum(p, q))
<1>1. PICK z \in Scale : ifmaPointFinalProducts(k) = Scaled(p, z)
  BY CompletesFinal
<1>2. z * w \in Int /\ Mod(z * w) # 0 /\ z * 1 \in Int /\ Mod(z * 1) # 0
  BY ScalesMultiply
<1>3. /\ Scaled(p, z).X = Times(k[1], k[2]) /\ Scaled(p, z).Y = Times(k[3], k[4])
      /\ Scaled(p, z).Z = Times(k[2], k[3]) /\ Scaled(p, z).T = Times(k[1], k[4])
  <2>1. ifmaPointFinalProducts(k) = [X |-> Times(k[1], k[2]), Y |-> Times(k[3], k[4]),
                                     Z |-> Times(k[2], k[3]), T |-> Times(k[1], k[4])]
    BY DEF ifmaPointFinalProducts
  <2> QED BY <1>1, <2>1
<1>4. /\ ifmaCompletedToLinear(k).YMinusX = Minus(Scaled(p, z).Y, Scaled(p, z).X)
      /\ ifmaCompletedToLinear(k).YPlusX = Plus(Scaled(p, z).Y, Scaled(p, z).X)
      /\ ifmaCompletedToLinear(k).Z = Scaled(p, z).Z /\ ifmaCompletedToLinear(k).T = Scaled(p, z).T
  BY <1>3 DEF ifmaCompletedToLinear
<1>5. ifmaCompletedAddProjectiveNiels(k, ProjectiveNiels(q, w)) = Stage(p, q, z * w)
  <2>1. LET a == Scaled(p, z)
            n == ProjectiveNiels(q, w)
        IN ifmaNielsStage2(Times(Minus(a.Y, a.X), n.YMinusX), Times(Plus(a.Y, a.X), n.YPlusX),
                           Times(a.T, n.T2D), Times(a.Z, n.Z)) = Stage(p, q, z * w)
    BY Zenon, ProjectiveSums
  <2> QED BY Zenon, <1>4, <2>1 DEF ifmaCompletedAddProjectiveNiels
<1>6. ifmaCompletedAddAffineNiels(k, AffineNiels(q)) = Stage(p, q, z * 1)
  BY Zenon, <1>4, AffineSums DEF ifmaCompletedAddAffineNiels
<1> QED BY Zenon, <1>2, <1>5, <1>6, AddedIs

-----------------------------------------------------------------------------
\* Every implementation of a doubling.

\* The linear terms of a doubling, from its products: v is a + b + 2 m.
Terms(a, b, s, m) ==
  /\ Twice(Mod(m)) = Mod(2 * m)
  /\ Minus(Minus(Mod(a + b + 2 * m), Mod(a)), Mod(b)) = Mod(2 * m)
  /\ Plus(Mod(a + b + 2 * m), Minus(Minus0(Mod(a)), Mod(b))) = Mod(2 * m)
  /\ Minus(Mod(a + b + 2 * m), Plus(Mod(b), Mod(a))) = Mod(2 * m)
  /\ Minus(Mod(b), Mod(a)) = Mod(b - a) /\ Plus(Minus0(Mod(a)), Mod(b)) = Mod(b - a)
  /\ Minus(Mod(b - a), Twice(Mod(s))) = Mod(b - a - 2 * s)
  /\ Minus(Twice(Mod(s)), Mod(b - a)) = Mod(2 * s - (b - a))
  /\ Minus(Minus0(Mod(a)), Mod(b)) = Mod(-(a + b)) /\ Plus(Mod(b), Mod(a)) = Mod(a + b)

\* So they are, in every form in which the program computes them.
LEMMA DoublingTerms ==
  ASSUME NEW a \in Int, NEW b \in Int, NEW s \in Int, NEW m \in Int
  PROVE  Terms(a, b, s, m)
<1>1. PICK v \in Int, e \in Int, h \in Int, g \in Int, n \in Int, r \in Int, u \in Int :
        /\ v = a + b + 2 * m /\ e = 2 * m /\ h = -(a + b) /\ g = b - a /\ n = -a /\ r = 2 * s /\ u = b + a
  OBVIOUS
<1>2. PICK y \in Int : y = v - a /\ y - b = e /\ v + h = e /\ v - u = e /\ n + b = g /\ n - b = h /\ u = a + b
  BY <1>1
<1>3. /\ Twice(Mod(m)) = Mod(2 * m) /\ Minus0(Mod(a)) = Mod(-a) /\ Twice(Mod(s)) = Mod(2 * s)
      /\ Minus(Mod(v), Mod(a)) = Mod(v - a) /\ Minus(Mod(y), Mod(b)) = Mod(y - b)
      /\ Minus(Mod(n), Mod(b)) = Mod(n - b) /\ Plus(Mod(v), Mod(h)) = Mod(v + h)
      /\ Plus(Mod(b), Mod(a)) = Mod(b + a) /\ Minus(Mod(v), Mod(u)) = Mod(v - u)
      /\ Minus(Mod(b), Mod(a)) = Mod(b - a) /\ Plus(Mod(n), Mod(b)) = Mod(n + b)
      /\ Minus(Mod(g), Mod(r)) = Mod(g - r) /\ Minus(Mod(r), Mod(g)) = Mod(r - g)
  BY ZenonT(60), Arithmetic
<1> QED BY Zenon, <1>1, <1>2, <1>3 DEF Terms

\* The products a doubling starts from.
LEMMA DoublingProducts ==
  ASSUME NEW p \in Points, NEW z \in Scale
  PROVE  \E a \in Int, b \in Int, s \in Int, m \in Int :
           /\ s = z * z /\ Mod(s) # 0
           /\ Times(Mod(p[1] * z), Mod(p[1] * z)) = Mod(a) /\ Times(Mod(p[2] * z), Mod(p[2] * z)) = Mod(b)
           /\ Times(z, z) = Mod(s) /\ Times(Mod(p[1] * z), Mod(p[2] * z)) = Mod(m)
           /\ Times(Plus(Mod(p[1] * z), Mod(p[2] * z)), Plus(Mod(p[1] * z), Mod(p[2] * z))) = Mod(a + b + 2 * m)
           /\ Doubling(p, s) = <<Mod(2 * m), Mod(b - a - 2 * s), Mod(b - a), Mod(-(a + b))>>
           /\ Flipped(p, s) = <<Mod(2 * m), Mod(2 * s - (b - a)), Mod(b - a), Mod(a + b)>>
<1>p. ASSUME NEW c \in Int, NEW d \in Int PROVE Times(Mod(c * z), Mod(d * z)) = Mod((z * z) * (c * d))
  <2>1. PICK v \in Int, w \in Int : v = z /\ w = z
    BY ScaleIs
  <2>2. Times(Mod(c * v), Mod(d * w)) = Mod((v * w) * (c * d))
    BY ZenonT(60), ScaledProduct
  <2> QED BY Zenon, <2>1, <2>2
<1>1. PICK x \in Int, y \in Int : x = p[1] /\ y = p[2]
  BY PointIs
<1>2. z \in Int /\ z * z \in Int /\ Mod(z * z) # 0 /\ Times(z, z) = Mod(z * z)
  BY ScaleIs, ScalesMultiply
<1>3. PICK s \in Int : s = z * z
  BY <1>2
<1>4. PICK a \in Int, b \in Int, m \in Int, h \in Int : a = s * (x * x) /\ b = s * (y * y) /\ m = s * (x * y) /\ h = x + y
  OBVIOUS
<1>5. Times(Mod(x * z), Mod(x * z)) = Mod(a) /\ Times(Mod(y * z), Mod(y * z)) = Mod(b) /\ Times(Mod(x * z), Mod(y * z)) = Mod(m)
  <2>1. /\ Times(Mod(x * z), Mod(x * z)) = Mod((z * z) * (x * x)) /\ Times(Mod(y * z), Mod(y * z)) = Mod((z * z) * (y * y))
        /\ Times(Mod(x * z), Mod(y * z)) = Mod((z * z) * (x * y))
    BY Zenon, <1>p
  <2> QED BY Zenon, <1>3, <1>4, <2>1
<1>6. Plus(Mod(x * z), Mod(y * z)) = Mod(h * z)
  <2>1. x * z \in Int /\ y * z \in Int /\ x * z + y * z = h * z
    BY <1>2, <1>4
  <2>2. Plus(Mod(x * z), Mod(y * z)) = Mod(x * z + y * z)
    BY ZenonT(60), <2>1, Arithmetic
  <2> QED BY Zenon, <2>1, <2>2
<1>7. Times(Mod(h * z), Mod(h * z)) = Mod(a + b + 2 * m)
  <2>1. Times(Mod(h * z), Mod(h * z)) = Mod((z * z) * (h * h))
    BY Zenon, <1>p
  <2>2. s * (h * h) = a + b + 2 * m
    BY <1>4
  <2> QED BY Zenon, <1>3, <2>1, <2>2
<1>8. /\ Doubling(p, s) = <<Mod(2 * m), Mod(b - a - 2 * s), Mod(b - a), Mod(-(a + b))>>
      /\ Flipped(p, s) = <<Mod(2 * m), Mod(2 * s - (b - a)), Mod(b - a), Mod(a + b)>>
  <2>1. Low(p) = y - x /\ High(p) = y + x /\ Area(p) = x * y
    BY <1>1 DEF Low, High, Area
  <2>2. /\ s * (2 * (x * y)) = 2 * m /\ s * ((y - x) * (y + x) - 2) = b - a - 2 * s
        /\ s * ((y - x) * (y + x)) = b - a /\ -(s * (x * x + y * y)) = -(a + b) /\ s * (x * x + y * y) = a + b
        /\ s * (2 - (y - x) * (y + x)) = 2 * s - (b - a)
    BY <1>4
  <2> QED BY Zenon, <1>1, <2>1, <2>2 DEF Doubling, Flipped
<1> QED BY ZenonT(60), <1>1, <1>2, <1>3, <1>5, <1>6, <1>7, <1>8

\* Every formula for a doubling, from the first three coordinates.
LEMMA DoublingStages ==
  ASSUME NEW p \in Points, NEW z \in Scale, NEW q,
         q.X = Mod(p[1] * z), q.Y = Mod(p[2] * z), q.Z = z
  PROVE  \E s \in Int :
           /\ Mod(s) # 0
           /\ DirectStage(q) = Doubling(p, s) /\ SquareTrickStage(q) = Doubling(p, s)
           /\ Double(q) = ifmaPointFinalProducts(Doubling(p, s))
           /\ ifmaPointDoubleComposable(q) = ifmaPointFinalProducts(Doubling(p, s))
           /\ projP1xP1Double(q) = [X |-> Flipped(p, s)[1], Y |-> Flipped(p, s)[4],
                                    Z |-> Flipped(p, s)[3], T |-> Flipped(p, s)[2]]
           /\ \A t : quadReduced(quadPointDouble(<<q.X, q.Y, t, q.Z>>)) = ifmaPointFinalProducts(Doubling(p, s))
<1>1. PICK a \in Int, b \in Int, s \in Int, m \in Int :
        /\ s = z * z /\ Mod(s) # 0
        /\ Times(Mod(p[1] * z), Mod(p[1] * z)) = Mod(a) /\ Times(Mod(p[2] * z), Mod(p[2] * z)) = Mod(b)
        /\ Times(z, z) = Mod(s) /\ Times(Mod(p[1] * z), Mod(p[2] * z)) = Mod(m)
        /\ Times(Plus(Mod(p[1] * z), Mod(p[2] * z)), Plus(Mod(p[1] * z), Mod(p[2] * z))) = Mod(a + b + 2 * m)
        /\ Doubling(p, s) = <<Mod(2 * m), Mod(b - a - 2 * s), Mod(b - a), Mod(-(a + b))>>
        /\ Flipped(p, s) = <<Mod(2 * m), Mod(2 * s - (b - a)), Mod(b - a), Mod(a + b)>>
  BY Zenon, DoublingProducts
<1>2. PICK aa, bb, ss, mm, vv, e, f, g, h, fn, hn :
        /\ aa = Mod(a) /\ bb = Mod(b) /\ ss = Mod(s) /\ mm = Mod(m) /\ vv = Mod(a + b + 2 * m)
        /\ e = Mod(2 * m) /\ f = Mod(b - a - 2 * s) /\ g = Mod(b - a) /\ h = Mod(-(a + b))
        /\ fn = Mod(2 * s - (b - a)) /\ hn = Mod(a + b)
  OBVIOUS
<1>3. /\ Twice(mm) = e /\ Minus(Minus(vv, aa), bb) = e /\ Plus(vv, h) = e /\ Minus(vv, hn) = e
      /\ Minus(bb, aa) = g /\ Plus(Minus0(aa), bb) = g /\ Minus(g, Twice(ss)) = f /\ Minus(Twice(ss), g) = fn
      /\ Minus(Minus0(aa), bb) = h /\ Plus(bb, aa) = hn
  <2>1. Terms(a, b, s, m)
    BY Zenon, DoublingTerms
  <2> QED BY Zenon, <1>2, <2>1 DEF Terms
<1>4. /\ Times(q.X, q.X) = aa /\ Times(q.Y, q.Y) = bb /\ Times(q.Z, q.Z) = ss /\ Times(q.X, q.Y) = mm
      /\ Times(Plus(q.X, q.Y), Plus(q.X, q.Y)) = vv
      /\ Doubling(p, s) = <<e, f, g, h>> /\ Flipped(p, s) = <<e, fn, g, hn>>
  BY Zenon, <1>1, <1>2
<1>5. DirectStage(q) = Doubling(p, s)
  BY Zenon, <1>3, <1>4 DEF DirectStage, ifmaDoubleStage2
<1>6. SquareTrickStage(q) = Doubling(p, s)
  BY Zenon, <1>3, <1>4 DEF SquareTrickStage, ifmaDoubleStage2SquareTrick
<1>7. Double(q) = ifmaPointFinalProducts(Doubling(p, s))
  BY Zenon, <1>3, <1>4 DEF Double
<1>8. ifmaPointDoubleComposable(q) = ifmaPointFinalProducts(Doubling(p, s))
  BY Zenon, <1>3, <1>4 DEF ifmaPointDoubleComposable
<1>9. projP1xP1Double(q) = [X |-> Flipped(p, s)[1], Y |-> Flipped(p, s)[4], Z |-> Flipped(p, s)[3], T |-> Flipped(p, s)[2]]
  <2>1. projP1xP1Double(q) = [X |-> e, Y |-> hn, Z |-> g, T |-> fn]
    BY Zenon, <1>3, <1>4 DEF projP1xP1Double
  <2>2. Flipped(p, s)[1] = e /\ Flipped(p, s)[2] = fn /\ Flipped(p, s)[3] = g /\ Flipped(p, s)[4] = hn
    BY <1>4
  <2> QED BY Zenon, <2>1, <2>2
<1>10. ASSUME NEW t PROVE quadReduced(quadPointDouble(<<q.X, q.Y, t, q.Z>>)) = ifmaPointFinalProducts(Doubling(p, s))
  <2>1. quadDoubleFirstOperands(<<q.X, q.Y, t, q.Z>>) = <<<<q.X, q.Y, q.Z, q.X>>, <<q.X, q.Y, q.Z, q.Y>>>>
    BY DEF quadDoubleFirstOperands
  <2>2. Lanewise(<<q.X, q.Y, q.Z, q.X>>, <<q.X, q.Y, q.Z, q.Y>>) = <<aa, bb, ss, mm>>
    BY <1>4, LanewiseIs
  <2>3. quadDoubleFinalOperands(<<aa, bb, ss, mm>>) = <<<<e, g, e, f>>, <<f, h, h, g>>>>
    BY <1>3 DEF quadDoubleFinalOperands
  <2>4. Lanewise(<<e, g, e, f>>, <<f, h, h, g>>) = <<Times(e, f), Times(g, h), Times(e, h), Times(f, g)>>
    BY LanewiseIs
  <2>5. quadPointDouble(<<q.X, q.Y, t, q.Z>>) = <<Times(e, f), Times(g, h), Times(e, h), Times(f, g)>>
    BY <2>1, <2>2, <2>3, <2>4 DEF quadPointDouble
  <2> QED BY <1>4, <2>5 DEF quadReduced, ifmaPointFinalProducts
<1> QED BY Zenon, <1>1, <1>5, <1>6, <1>7, <1>8, <1>9, <1>10

-----------------------------------------------------------------------------
\* What every implementation returns.

\* Operands come with a nonzero Z.
LEMMA ScalesIn == Scales \subseteq Scale /\ 1 \in Scale
BY PointAssumption, Elements DEF Scale

\* Additions.
LEMMA SumsAre ==
  ASSUME NEW p \in Points, NEW q \in Points, NEW z \in Scale, NEW w \in Scale
  PROVE  \A r \in Sums(Scaled(p, z), Scaled(q, w)) : StandsForSum(r, p, q)
<1>1. z * w \in Int /\ Mod(z * w) # 0 /\ w \in Fe
  BY ScalesMultiply, ScaleIs
<1>2. Add(Scaled(p, z), Scaled(q, w)) = Added(p, q, z * w)
  BY Zenon, ProjectiveSums
<1>3. vendoredAdd(Scaled(p, z), Scaled(q, w)) = Added(p, q, z * w)
  <2>1. projCachedFromP3(Scaled(q, w)) = ProjectiveNiels(q, w)
    BY Zenon, <1>1, ProjectiveNielsIs
  <2>2. fromP1xP1(projP1xP1Add(Scaled(p, z), ProjectiveNiels(q, w))) = Added(p, q, z * w)
    BY Zenon, ProjectiveSums
  <2> QED BY Zenon, <2>1, <2>2 DEF vendoredAdd
<1>4. StandsForSum(Added(p, q, z * w), p, q)
  BY Zenon, <1>1, AddedIs
<1>5. \A r \in Sums(Scaled(p, z), Scaled(q, w)) : r = Added(p, q, z * w)
  BY Zenon, <1>2, <1>3 DEF Sums, AddX8, r43Add, ExperimentalIFMAPointAddX8, ExperimentalIFMAPointAddX4,
     ifmaPointAddComposableStatic, ifmaPointAddComposable, fixedBasePointAdd
<1> QED BY Zenon, <1>4, <1>5

\* Subtractions.
LEMMA DifferencesAre ==
  ASSUME NEW p \in Points, NEW q \in Points, NEW z \in Scale, NEW w \in Scale
  PROVE  \A r \in Differences(Scaled(p, z), Scaled(q, w)) : StandsForSum(r, p, Opposite(q))
<1>1. z * w \in Int /\ Mod(z * w) # 0 /\ w \in Fe /\ z \in Fe /\ z \in Int /\ Opposite(q) \in Points
  BY ScalesMultiply, ScaleIs, OppositeIs
<1>2. Subtract(Scaled(p, z), Scaled(q, w)) = Added(p, Opposite(q), z * w)
  <2>1. Negated(Scaled(q, w)) = Scaled(Opposite(q), w)
    BY Zenon, <1>1, NegatedIs
  <2>2. Add(Scaled(p, z), Scaled(Opposite(q), w)) = Added(p, Opposite(q), z * w)
    BY ZenonT(60), <1>1, ProjectiveSums
  <2> QED BY Zenon, <2>1, <2>2 DEF Subtract
<1>3. vendoredSubtract(Scaled(p, z), Scaled(q, w)) = Added(p, Opposite(q), z * w)
  <2>1. projCachedFromP3(Scaled(q, w)) = ProjectiveNiels(q, w)
    BY Zenon, <1>1, ProjectiveNielsIs
  <2>2. Scaled(p, z).T \in Fe /\ Scaled(p, z).Z \in Fe
    <3>1. Area(p) * z \in Int
      BY <1>1, LinearIn
    <3>2. Mod(Area(p) * z) \in Fe
      BY Zenon, <3>1, ModIs
    <3> QED BY Zenon, <1>1, <3>2, ScaledFields
  <2>3. projP1xP1Sub(Scaled(p, z), ProjectiveNiels(q, w)) = projP1xP1Add(Scaled(p, z), ProjectiveNiels(Opposite(q), w))
    BY Zenon, <1>1, <2>2, Subtractions
  <2>4. fromP1xP1(projP1xP1Add(Scaled(p, z), ProjectiveNiels(Opposite(q), w))) = Added(p, Opposite(q), z * w)
    BY ZenonT(60), <1>1, ProjectiveSums
  <2> QED BY Zenon, <2>1, <2>3, <2>4 DEF vendoredSubtract
<1>4. StandsForSum(Added(p, Opposite(q), z * w), p, Opposite(q))
  BY Zenon, <1>1, AddedIs
<1>5. \A r \in Differences(Scaled(p, z), Scaled(q, w)) : r = Added(p, Opposite(q), z * w)
  BY Zenon, <1>2, <1>3 DEF Differences, SubtractX8, r43Subtract
<1> QED BY Zenon, <1>4, <1>5

\* Additions of a cached point, with its sign.
LEMMA CachedSumsAre ==
  ASSUME NEW p \in Points, NEW q \in Points, NEW z \in Scale, NEW w \in Scale, NEW negative \in BOOLEAN
  PROVE  \A r \in CachedSums(Scaled(p, z), Scaled(q, w), negative) : StandsForSum(r, p, Signed(q, negative))
<1>1. /\ z * w \in Int /\ Mod(z * w) # 0 /\ w \in Fe /\ w \in Int /\ z \in Fe /\ z \in Int
      /\ z * 1 \in Int /\ Mod(z * 1) # 0
  BY ScalesMultiply, ScaleIs
<1>2. PICK o \in Points : o = Signed(q, negative)
  BY SignedIs
<1> DEFINE a == Scaled(p, z)  b == Scaled(q, w)
<1>3. StandsForSum(Added(p, o, z * w), p, o) /\ StandsForSum(Added(p, o, z * 1), p, o)
  BY Zenon, <1>1, AddedIs
<1>4. /\ SignedNiels(ifmaProjectiveNielsFromPoint(b), negative) = ProjectiveNiels(o, w)
      /\ CondNeg(projCachedFromP3(b), negative) = ProjectiveNiels(o, w)
  <2>1. ifmaProjectiveNielsFromPoint(b) = ProjectiveNiels(q, w) /\ projCachedFromP3(b) = ProjectiveNiels(q, w)
    BY Zenon, <1>1, ProjectiveNielsIs
  <2>2. SignedNiels(ProjectiveNiels(q, w), negative) = ProjectiveNiels(o, w)
    BY Zenon, <1>1, <1>2, SignedNielsIs
  <2> QED BY Zenon, <2>1, <2>2 DEF CondNeg
<1>5. /\ SignedNiels(fixedBaseCacheAffine(b), negative) = AffineNiels(o)
      /\ setFixedBaseCachedLane(fixedBaseCacheAffine(b), negative) = AffineNiels(o)
      /\ CondNeg(affineCachedFromP3(b), negative) = AffineNiels(o)
      /\ affineCachedFromP3(b) = AffineNiels(q)
  BY Zenon, <1>1, <1>2, AffineNielsIs, SignedNielsIs DEF CondNeg, setFixedBaseCachedLane
<1>6. quadCachedSetReduced(b, negative) = Cached(o, w)
  BY Zenon, <1>2, CachedIs DEF Signed
<1>7. /\ ifmaPointAddProjectiveNiels(a, ProjectiveNiels(o, w)) = Added(p, o, z * w)
      /\ fromP1xP1(projP1xP1Add(a, ProjectiveNiels(o, w))) = Added(p, o, z * w)
  BY ZenonT(60), ProjectiveSums
<1>8. /\ addFixedBaseIFMACached(a, AffineNiels(o)) = Added(p, o, z * 1)
      /\ addFixedBaseCached(a, AffineNiels(o)) = Added(p, o, z * 1)
      /\ fromP1xP1(projP1xP1AddAffine(a, AffineNiels(o))) = Added(p, o, z * 1)
  BY Zenon, AffineSums
<1>9. quadReduced(quadPointAddCached(quadPacked(a), Cached(o, w))) = Added(p, o, z * w)
  BY Zenon, PackedSums
<1>10. fromP1xP1(IF negative THEN projP1xP1SubAffine(a, affineCachedFromP3(b))
                 ELSE projP1xP1AddAffine(a, affineCachedFromP3(b))) = Added(p, o, z * 1)
  <2>1. a.T \in Fe /\ a.Z \in Fe
    <3>1. Area(p) * z \in Int
      BY <1>1, LinearIn
    <3>2. Mod(Area(p) * z) \in Fe
      BY Zenon, <3>1, ModIs
    <3> QED BY Zenon, <1>1, <3>2, ScaledFields
  <2>2. projP1xP1SubAffine(a, AffineNiels(q)) = projP1xP1AddAffine(a, AffineNiels(Opposite(q)))
    BY Zenon, <1>1, <2>1, Subtractions
  <2>3. CASE negative = TRUE
    <3>1. o = Opposite(q)
      BY <1>2, <2>3 DEF Signed
    <3> QED BY Zenon, <1>5, <1>8, <2>2, <2>3, <3>1
  <2>4. CASE negative = FALSE
    <3>1. o = q
      BY <1>2, <2>4 DEF Signed
    <3> QED BY Zenon, <1>5, <1>8, <2>4, <3>1
  <2> QED BY <2>3, <2>4
<1> HIDE DEF a, b
<1>11. \A r \in CachedSums(a, b, negative) : r = Added(p, o, z * w) \/ r = Added(p, o, z * 1)
  BY Zenon, <1>4, <1>5, <1>6, <1>7, <1>8, <1>9, <1>10 DEF CachedSums
<1> QED BY Zenon, <1>2, <1>3, <1>11 DEF a, b

\* Additions of a lane without a digit.
LEMMA NeutralSum ==
  ASSUME NEW p \in Points
  PROVE  Sum(p, Neutral) = p
<1>1. PICK x \in Int, y \in Int : x = p[1] /\ y = p[2]
  BY PointIs
<1>2. PICK s1 \in Fe, s2 \in Fe : s1 = Sum(p, Neutral)[1] /\ s2 = Sum(p, Neutral)[2] /\ Sum(p, Neutral) = <<s1, s2>>
  BY SumIs, NeutralIs
<1>3. Neutral \in Points /\ Neutral[1] = 0 /\ Neutral[2] = 1 /\ D \in Int
  BY NeutralIs, ConstantIs
<1>4. Kappa(p, Neutral) = 0 /\ SumX(p, Neutral) = x /\ SumY(p, Neutral) = y
  BY <1>1, <1>3 DEF Kappa, SumX, SumY
<1>5. Mod(s1 * (1 + 0) - x) = 0 /\ Mod(s2 * (1 - 0) - y) = 0
  BY Zenon, <1>2, <1>3, <1>4, SumIs
<1>6. s1 \in Int /\ s2 \in Int /\ Mod(s1) = s1 /\ Mod(s2) = s2
  BY ElementIs
<1>7. s1 * (1 + 0) - x = s1 - x /\ s2 * (1 - 0) - y = s2 - y
  BY <1>6
<1>8. Mod(s1) = Mod(x) /\ Mod(s2) = Mod(y)
  BY <1>5, <1>6, <1>7, ModDifference
<1>9. Mod(x) = x /\ Mod(y) = y /\ p = <<x, y>>
  BY <1>1, PointIs
<1> QED BY <1>2, <1>6, <1>8, <1>9

\* Doublings of a point without T.
LEMMA ProjectiveDoubles ==
  ASSUME NEW p \in Points, NEW z \in Scale, NEW a, a.X = Mod(p[1] * z), a.Y = Mod(p[2] * z), a.Z = z
  PROVE  \E k, v : /\ Completes(k, Sum(p, p)) /\ Completes(v, Sum(p, p))
                   /\ DirectStage(a) = k /\ SquareTrickStage(a) = k
                   /\ projP1xP1Double(a) = [X |-> v[1], Y |-> v[4], Z |-> v[3], T |-> v[2]]
                   /\ fromP1xP1(projP1xP1Double(a)) = ifmaPointFinalProducts(v)
                   /\ projP2FromP1xP1(projP1xP1Double(a)) = ifmaProjectiveFinalProducts(v)
<1>1. PICK s \in Int :
        /\ Mod(s) # 0
        /\ DirectStage(a) = Doubling(p, s) /\ SquareTrickStage(a) = Doubling(p, s)
        /\ projP1xP1Double(a) = [X |-> Flipped(p, s)[1], Y |-> Flipped(p, s)[4],
                                 Z |-> Flipped(p, s)[3], T |-> Flipped(p, s)[2]]
  BY Zenon, DoublingStages
<1>2. Completes(Doubling(p, s), Sum(p, p)) /\ Completes(Flipped(p, s), Sum(p, p))
  BY Zenon, <1>1, DoublingCompletes
<1>3. PICK e \in Fe, f \in Fe, g \in Fe, h \in Fe : Flipped(p, s) = <<e, f, g, h>>
  BY <1>2 DEF Completes
<1>4. projP1xP1Double(a) = [X |-> e, Y |-> h, Z |-> g, T |-> f]
  BY <1>1, <1>3
<1>5. /\ fromP1xP1(projP1xP1Double(a)) = ifmaPointFinalProducts(Flipped(p, s))
      /\ projP2FromP1xP1(projP1xP1Double(a)) = ifmaProjectiveFinalProducts(Flipped(p, s))
  <2>1. /\ fromP1xP1([X |-> e, Y |-> h, Z |-> g, T |-> f]) = ifmaPointFinalProducts(<<e, f, g, h>>)
        /\ projP2FromP1xP1([X |-> e, Y |-> h, Z |-> g, T |-> f]) = ifmaProjectiveFinalProducts(<<e, f, g, h>>)
    BY VendoredFinal
  <2> QED BY Zenon, <1>3, <1>4, <2>1
<1> QED BY Zenon, <1>1, <1>2, <1>5

\* Doublings.
LEMMA DoublesAre ==
  ASSUME NEW p \in Points, NEW z \in Scale
  PROVE  \A r \in Doubles(Scaled(p, z)) : StandsForSum(r, p, p)
<1>1. z \in Fe
  BY ScaleIs
<1> DEFINE a == Scaled(p, z)
<1>2. a.X = Mod(p[1] * z) /\ a.Y = Mod(p[2] * z) /\ a.Z = z
  BY Zenon, <1>1, ScaledFields
<1>3. PICK s \in Int :
        /\ Mod(s) # 0
        /\ DirectStage(a) = Doubling(p, s) /\ SquareTrickStage(a) = Doubling(p, s)
        /\ Double(a) = ifmaPointFinalProducts(Doubling(p, s))
        /\ ifmaPointDoubleComposable(a) = ifmaPointFinalProducts(Doubling(p, s))
        /\ \A t : quadReduced(quadPointDouble(<<a.X, a.Y, t, a.Z>>)) = ifmaPointFinalProducts(Doubling(p, s))
  BY Zenon, <1>2, DoublingStages
<1>4. /\ projP2FromP3(a).X = Mod(p[1] * z) /\ projP2FromP3(a).Y = Mod(p[2] * z) /\ projP2FromP3(a).Z = z
  BY <1>2 DEF projP2FromP3
<1>5. PICK v : Completes(v, Sum(p, p)) /\ fromP1xP1(projP1xP1Double(projP2FromP3(a))) = ifmaPointFinalProducts(v)
  BY Zenon, <1>4, ProjectiveDoubles
<1>6. Completes(Doubling(p, s), Sum(p, p)) /\ Sum(p, p) \in Points
  BY Zenon, <1>3, DoublingCompletes, SumOnCurve
<1>8. StandsForSum(ifmaPointFinalProducts(Doubling(p, s)), p, p) /\ StandsForSum(ifmaPointFinalProducts(v), p, p)
  BY Zenon, <1>5, <1>6, CompletesFinal DEF StandsForSum
<1>9. quadReduced(quadPointDouble(quadPacked(a))) = ifmaPointFinalProducts(Doubling(p, s))
  BY Zenon, <1>3 DEF quadPacked
<1> HIDE DEF a
<1>10. \A r \in Doubles(a) : r = ifmaPointFinalProducts(Doubling(p, s)) \/ r = ifmaPointFinalProducts(v)
  BY Zenon, <1>3, <1>5, <1>9 DEF Doubles, DoubleX8, r43Double, ExperimentalIFMAPointDoubleX8,
     ExperimentalIFMAPointDoubleX4, fixedBasePointDouble, ifmaPointDoubleComposableStatic
<1> QED BY Zenon, <1>8, <1>10 DEF a

-----------------------------------------------------------------------------
\* Packed points, tables and chains.

Extended(a, p) == \E z \in Scale : a = Scaled(p, z)
Projected(a, p) == \E z \in Scale : a = Projective(p, z)

\* A packed result has four lanes: nothing is lost by unpacking it.
LEMMA PackedShape ==
  ASSUME NEW u, NEW c
  PROVE  /\ quadPacked(quadReduced(quadPointAddCached(u, c))) = quadPointAddCached(u, c)
         /\ quadPacked(quadReduced(quadPointDouble(u))) = quadPointDouble(u)
<1>1. ASSUME NEW k1, NEW k2, NEW k3, NEW k4 PROVE quadPacked(quadReduced(<<k1, k2, k3, k4>>)) = <<k1, k2, k3, k4>>
  BY DEF quadPacked, quadReduced
<1>2. \A m : \E k1, k2, k3, k4 :
        LET k == quadCachedAddFinalOperands(m) IN Lanewise(k[1], k[2]) = <<k1, k2, k3, k4>>
  <2>1. TAKE m
  <2>2. PICK e, f, g, h : quadCachedAddFinalOperands(m) = <<<<e, g, e, f>>, <<f, h, h, g>>>>
    BY DEF quadCachedAddFinalOperands
  <2>3. Lanewise(<<e, g, e, f>>, <<f, h, h, g>>) = <<Times(e, f), Times(g, h), Times(e, h), Times(f, g)>>
    BY LanewiseIs
  <2> QED BY <2>2, <2>3
<1>3. \A m : \E k1, k2, k3, k4 :
        LET k == quadDoubleFinalOperands(m) IN Lanewise(k[1], k[2]) = <<k1, k2, k3, k4>>
  <2>1. TAKE m
  <2>2. PICK e, f, g, h : quadDoubleFinalOperands(m) = <<<<e, g, e, f>>, <<f, h, h, g>>>>
    BY DEF quadDoubleFinalOperands
  <2>3. Lanewise(<<e, g, e, f>>, <<f, h, h, g>>) = <<Times(e, f), Times(g, h), Times(e, h), Times(f, g)>>
    BY LanewiseIs
  <2> QED BY <2>2, <2>3
<1>4. quadPacked(quadReduced(quadPointAddCached(u, c))) = quadPointAddCached(u, c)
  <2>1. PICK m : quadPointAddCached(u, c) = LET k == quadCachedAddFinalOperands(m) IN Lanewise(k[1], k[2])
    BY Zenon DEF quadPointAddCached
  <2>2. PICK k1, k2, k3, k4 : quadPointAddCached(u, c) = <<k1, k2, k3, k4>>
    BY Zenon, <1>2, <2>1
  <2> QED BY Zenon, <1>1, <2>2
<1>5. quadPacked(quadReduced(quadPointDouble(u))) = quadPointDouble(u)
  <2>1. PICK m : quadPointDouble(u) = LET k == quadDoubleFinalOperands(m) IN Lanewise(k[1], k[2])
    BY Zenon DEF quadPointDouble
  <2>2. PICK k1, k2, k3, k4 : quadPointDouble(u) = <<k1, k2, k3, k4>>
    BY Zenon, <1>3, <2>1
  <2> QED BY Zenon, <1>1, <2>2
<1> QED BY <1>4, <1>5

\* Packed sums.
LEMMA PackedSumIs ==
  ASSUME NEW p \in Points, NEW q \in Points, NEW z \in Scale, NEW w \in Scale
  PROVE  \E v \in Scale : quadPointAddCached(quadPacked(Scaled(p, z)), Cached(q, w)) = quadPacked(Scaled(Sum(p, q), v))
<1>1. \E v \in Scale : quadReduced(quadPointAddCached(quadPacked(Scaled(p, z)), Cached(q, w))) = Scaled(Sum(p, q), v)
  <2>1. z * w \in Int /\ Mod(z * w) # 0
    BY ScalesMultiply
  <2>2. quadReduced(quadPointAddCached(quadPacked(Scaled(p, z)), Cached(q, w))) = Added(p, q, z * w)
    BY Zenon, PackedSums
  <2>3. StandsForSum(Added(p, q, z * w), p, q)
    BY Zenon, <2>1, AddedIs
  <2> QED BY Zenon, <2>2, <2>3 DEF StandsForSum
<1> QED BY Zenon, <1>1, PackedShape

\* Packed doubles.
LEMMA PackedDoubleIs ==
  ASSUME NEW p \in Points, NEW z \in Scale
  PROVE  \E v \in Scale : quadPointDouble(quadPacked(Scaled(p, z))) = quadPacked(Scaled(Sum(p, p), v))
<1>1. \E v \in Scale : quadReduced(quadPointDouble(quadPacked(Scaled(p, z)))) = Scaled(Sum(p, p), v)
  <2>1. quadReduced(quadPointDouble(quadPacked(Scaled(p, z)))) \in Doubles(Scaled(p, z))
    BY Zenon DEF Doubles
  <2> QED BY Zenon, <2>1, DoublesAre DEF StandsForSum
<1> QED BY Zenon, <1>1, PackedShape

\* The table holds the odd multiples.
LEMMA TableIs ==
  ASSUME NEW p \in Points
  PROVE  LET t == buildQuadNAFEntries(Scaled(p, 1), 3)
             d == Sum(p, p)
         IN /\ \E w \in Scale : t[1] = Cached(p, w)
            /\ \E w \in Scale : t[2] = Cached(Sum(p, d), w)
            /\ \E w \in Scale : t[3] = Cached(Sum(Sum(p, d), d), w)
<1>0. 1 \in Scale
  BY ScalesIn
<1>1. PICK d \in Points, q \in Points, r \in Points : d = Sum(p, p) /\ q = Sum(p, d) /\ r = Sum(q, d)
  BY SumOnCurve
<1> DEFINE one == quadPacked(Scaled(p, 1))
           twice == quadCachePackedPoint(quadPointDouble(one))
           two == quadPointAddCached(one, twice)
           three == quadPointAddCached(two, twice)
           K == CHOOSE k : k = [i \in 1 .. 3 |-> IF i = 1 THEN one ELSE quadPointAddCached(k[i - 1], twice)]
<1>2. PICK u \in Scale : twice = Cached(d, u)
  <2>0. \E u \in Scale : quadPointDouble(quadPacked(Scaled(p, 1))) = quadPacked(Scaled(Sum(p, p), u))
    BY Zenon, <1>0, PackedDoubleIs
  <2>1. PICK u \in Scale : quadPointDouble(one) = quadPacked(Scaled(d, u))
    BY Zenon, <1>1, <2>0
  <2> QED BY Zenon, <2>1, CachedIs
<1>3. PICK v \in Scale : two = quadPacked(Scaled(q, v))
  <2>1. \E v \in Scale : quadPointAddCached(quadPacked(Scaled(p, 1)), Cached(d, u)) = quadPacked(Scaled(Sum(p, d), v))
    BY ZenonT(60), <1>0, PackedSumIs
  <2> QED BY Zenon, <1>1, <1>2, <2>1
<1>4. PICK w \in Scale : three = quadPacked(Scaled(r, w))
  <2>1. \E w \in Scale : quadPointAddCached(quadPacked(Scaled(q, v)), Cached(d, u)) = quadPacked(Scaled(Sum(q, d), w))
    BY ZenonT(60), PackedSumIs
  <2> QED BY Zenon, <1>1, <1>2, <1>3, <2>1
<1>5. buildQuadNAFEntries(Scaled(p, 1), 3) = [i \in 1 .. 3 |-> quadCachePackedPoint(K[i])]
  BY DEF buildQuadNAFEntries
<1>6. K[1] = one /\ K[2] = two /\ K[3] = three
  <2> DEFINE f == [i \in 1 .. 3 |-> IF i = 1 THEN one ELSE IF i = 2 THEN two ELSE three]
  <2> HIDE DEF one, twice
  <2>1. f = [i \in 1 .. 3 |-> IF i = 1 THEN one ELSE quadPointAddCached(f[i - 1], twice)]
    <3>1. f[1] = one /\ f[2] = two
      OBVIOUS
    <3>2. ASSUME NEW i \in 1 .. 3 PROVE f[i] = IF i = 1 THEN one ELSE quadPointAddCached(f[i - 1], twice)
      <4>1. CASE i = 1
        BY <4>1
      <4>2. CASE i = 2
        <5>1. i - 1 = 1
          BY <4>2
        <5> QED BY <3>1, <4>2, <5>1
      <4>3. CASE i = 3
        <5>1. i - 1 = 2 /\ f[i] = three
          BY <4>3
        <5> QED BY <3>1, <4>3, <5>1
      <4> QED BY <4>1, <4>2, <4>3
    <3> QED BY <3>2
  <2>2. K = [i \in 1 .. 3 |-> IF i = 1 THEN one ELSE quadPointAddCached(K[i - 1], twice)]
    <3> HIDE DEF f
    <3> QED BY <2>1
  <2> HIDE DEF K, f
  <2>3. K[1] = one
    BY <2>2
  <2>4. K[2] = quadPointAddCached(K[1], twice)
    BY <2>2
  <2>5. K[3] = quadPointAddCached(K[2], twice)
    BY <2>2
  <2> QED BY <2>3, <2>4, <2>5
<1> HIDE DEF K
<1>7. /\ buildQuadNAFEntries(Scaled(p, 1), 3)[1] = quadCachePackedPoint(one)
      /\ buildQuadNAFEntries(Scaled(p, 1), 3)[2] = quadCachePackedPoint(two)
      /\ buildQuadNAFEntries(Scaled(p, 1), 3)[3] = quadCachePackedPoint(three)
  <2> HIDE DEF one, two, three
  <2> QED BY <1>5, <1>6
<1>8. quadCachePackedPoint(one) = Cached(p, 1) /\ quadCachePackedPoint(two) = Cached(q, v)
      /\ quadCachePackedPoint(three) = Cached(r, w)
  BY ZenonT(60), <1>0, <1>3, <1>4, CachedIs
<1> QED BY Zenon, <1>0, <1>1, <1>7, <1>8

\* Two packed points in one vector come out as they went in.
LEMMA TwoChainIs ==
  ASSUME NEW a1, NEW a2, NEW a3, NEW a4, NEW b1, NEW b2, NEW b3, NEW b4
  PROVE  unpackQuadTwoChain(packQuadTwoChain(<<a1, a2, a3, a4>>, <<b1, b2, b3, b4>>))
           = <<<<a1, a2, a3, a4>>, <<b1, b2, b3, b4>>>>
<1> DEFINE S == {a1, a2, a3, a4, b1, b2, b3, b4}
<1>1. PICK u, w : u = <<a1, a2, a3, a4>> /\ w = <<b1, b2, b3, b4>>
  OBVIOUS
<1>2. u \in Seq(S) /\ w \in Seq(S) /\ Len(u) = 4 /\ Len(w) = 4
  BY <1>1
<1> HIDE DEF S
<1>3. /\ u \o w \in Seq(S) /\ Len(u \o w) = 8
      /\ \A i \in 1 .. 8 : (u \o w)[i] = IF i <= 4 THEN u[i] ELSE w[i - 4]
  <2>1. /\ u \o w \in Seq(S) /\ Len(u \o w) = Len(u) + Len(w)
        /\ \A i \in 1 .. (Len(u) + Len(w)) : (u \o w)[i] = IF i <= Len(u) THEN u[i] ELSE w[i - Len(u)]
    BY Zenon, <1>2, ConcatProperties
  <2>2. Len(u) + Len(w) = 8
    BY <1>2
  <2> QED BY Zenon, <1>2, <2>1, <2>2
<1>4. PICK v : v = u \o w
  OBVIOUS
<1>5. \A i \in 1 .. 8 : v[i] \in S
  BY <1>3, <1>4, ElementOfSeq
<1>6. SubSeq(v, 1, 4) = u
  <2>1. \A i \in 1 .. 4 : v[i] \in S
    BY <1>5
  <2>2. /\ SubSeq(v, 1, 4) \in Seq(S) /\ Len(SubSeq(v, 1, 4)) = 4
        /\ \A i \in 1 .. 4 : SubSeq(v, 1, 4)[i] = v[1 + i - 1]
    BY <2>1, SubSeqProperties
  <2>3. PICK r \in Seq(S) : r = SubSeq(v, 1, 4)
    BY <2>2
  <2>4. Len(r) = 4 /\ \A i \in 1 .. 4 : r[i] = u[i]
    <3>1. \A i \in 1 .. 4 : 1 + i - 1 = i /\ i \in 1 .. 8 /\ i <= 4
      OBVIOUS
    <3> QED BY <1>3, <1>4, <2>2, <2>3, <3>1
  <2>5. r = u
    BY <1>2, <2>4, SeqEqual
  <2> QED BY <2>3, <2>5
<1>7. SubSeq(v, 5, 8) = w
  <2>1. \A i \in 5 .. 8 : v[i] \in S
    BY <1>5
  <2>2. /\ SubSeq(v, 5, 8) \in Seq(S) /\ Len(SubSeq(v, 5, 8)) = 4
        /\ \A i \in 1 .. 4 : SubSeq(v, 5, 8)[i] = v[5 + i - 1]
    BY <2>1, SubSeqProperties
  <2>3. PICK r \in Seq(S) : r = SubSeq(v, 5, 8)
    BY <2>2
  <2>4. Len(r) = 4 /\ \A i \in 1 .. 4 : r[i] = w[i]
    <3>1. \A i \in 1 .. 4 : 5 + i - 1 \in 1 .. 8 /\ ~ (5 + i - 1 <= 4) /\ 5 + i - 1 - 4 = i
      OBVIOUS
    <3> QED BY <1>3, <1>4, <2>2, <2>3, <3>1, SMTT(30)
  <2>5. r = w
    BY <1>2, <2>4, SeqEqual
  <2> QED BY <2>3, <2>5
<1> QED BY Zenon, <1>1, <1>4, <1>6, <1>7 DEF unpackQuadTwoChain, packQuadTwoChain

\* Four lanes.
Four(a) == \E a1, a2, a3, a4 : a = <<a1, a2, a3, a4>>

\* The halves of a vector.
LEMMA Halves ==
  ASSUME NEW a, NEW b, Four(a), Four(b)
  PROVE  /\ unpackQuadTwoChain(packQuadTwoChain(a, b)) = <<a, b>>
         /\ unpackQuadTwoChain(packQuadTwoChain(a, b))[1] = a /\ unpackQuadTwoChain(packQuadTwoChain(a, b))[2] = b
<1>1. PICK a1, a2, a3, a4 : a = <<a1, a2, a3, a4>>
  BY DEF Four
<1>2. PICK b1, b2, b3, b4 : b = <<b1, b2, b3, b4>>
  BY DEF Four
<1>3. unpackQuadTwoChain(packQuadTwoChain(<<a1, a2, a3, a4>>, <<b1, b2, b3, b4>>))
        = <<<<a1, a2, a3, a4>>, <<b1, b2, b3, b4>>>>
  BY TwoChainIs
<1>4. unpackQuadTwoChain(packQuadTwoChain(a, b)) = <<a, b>>
  BY Zenon, <1>1, <1>2, <1>3
<1> QED BY <1>4

\* Packed points and entries have four lanes.
LEMMA FourLanes ==
  /\ \A a : Four(quadPacked(a))
  /\ \A q, w : Four(Cached(q, w))
  /\ \A u : Four(quadPointDouble(u))
  /\ \A u, c : Four(quadPointAddCached(u, c))
<1>1. \A a : Four(quadPacked(a))
  BY Zenon DEF quadPacked, Four
<1>2. \A q, w : Four(Cached(q, w))
  BY Zenon DEF Cached, Four
<1> QED BY Zenon, <1>1, <1>2, PackedShape

-----------------------------------------------------------------------------
\* Conversions.

\* T is computed again.
LEMMA FromP2Is ==
  ASSUME NEW p \in Points, NEW z \in Scale
  PROVE  /\ Extended(fromP2(Projective(p, z)), p)
         /\ projP2FromP3(Scaled(p, z)) = Projective(p, z)
         /\ Projective(p, z).X = Mod(p[1] * z) /\ Projective(p, z).Y = Mod(p[2] * z) /\ Projective(p, z).Z = z
<1>1. PICK x \in Int, y \in Int : x = p[1] /\ y = p[2]
  BY PointIs
<1>2. z \in Int /\ z \in Fe /\ Mod(z) = z /\ z * z \in Int /\ Mod(z * z) # 0 /\ Times(z, z) = Mod(z * z)
  BY ScaleIs, ScalesMultiply
<1>3. PICK s \in Fe : s = Mod(z * z)
  BY <1>2, ModIs
<1>4. s \in Scale /\ s \in Int
  BY <1>2, <1>3, ElementIs DEF Scale
<1>5. ASSUME NEW a \in Int PROVE Mod((z * z) * a) = Mod(a * s)
  <2>1. PICK n \in Int, m \in Int : n = z * z /\ m = s
    BY <1>2, <1>4
  <2>2. Mod(m) = Mod(n)
    BY <1>3, <2>1, ElementIs
  <2>3. Mod(a * m) = Mod(a * n) /\ n * a = a * n
    <3>1. Mod(a * m) = Mod(a * n)
      BY ZenonT(60), <2>2, ModSubst
    <3> QED BY <3>1
  <2> QED BY <2>1, <2>3
<1>6. Times(Mod(x * z), z) = Mod(x * s) /\ Times(Mod(y * z), z) = Mod(y * s)
  <2>1. ASSUME NEW a \in Int PROVE Times(Mod(a * z), z) = Mod(a * s)
    <3>1. a * z \in Int /\ (a * z) * z = (z * z) * a
      BY <1>2
    <3>2. Times(Mod(a * z), Mod(z)) = Mod((a * z) * z)
      BY Zenon, <1>2, <3>1, Arithmetic
    <3> QED BY Zenon, <1>2, <1>5, <3>1, <3>2
  <2> QED BY Zenon, <2>1
<1>7. Times(Mod(x * z), Mod(y * z)) = Mod((x * y) * s)
  <2>1. x * y \in Int /\ x * z \in Int /\ y * z \in Int /\ (x * z) * (y * z) = (z * z) * (x * y)
    BY <1>2
  <2>2. Times(Mod(x * z), Mod(y * z)) = Mod((x * z) * (y * z))
    BY Zenon, <2>1, Arithmetic
  <2> QED BY Zenon, <1>5, <2>1, <2>2
<1>8. fromP2(Projective(p, z)) = [X |-> Mod(x * s), Y |-> Mod(y * s), Z |-> s, T |-> Mod((x * y) * s)]
  <2>1. Projective(p, z).X = Mod(x * z) /\ Projective(p, z).Y = Mod(y * z) /\ Projective(p, z).Z = z
    BY <1>1 DEF Projective
  <2> QED BY Zenon, <1>2, <1>3, <1>6, <1>7, <2>1 DEF fromP2
<1>9. fromP2(Projective(p, z)) = Scaled(p, s)
  BY Zenon, <1>1, <1>8, ScaledIs DEF Area
<1>10. projP2FromP3(Scaled(p, z)) = Projective(p, z)
  BY <1>2, ScaledFields DEF projP2FromP3, Projective
<1> QED BY <1>4, <1>9, <1>10 DEF Extended, Projective

\* Three doublings, in P2 and P1xP1 or in extended coordinates.
LEMMA CofactorIs ==
  ASSUME NEW p \in Points, NEW a, Extended(a, p)
  PROVE  LET d == Sum(p, p)
             f == Sum(d, d)
         IN Extended(MultByCofactor(a), Sum(f, f)) /\ Extended(r43MultByCofactor(a), Sum(f, f))
<1>1. PICK d \in Points, f \in Points, e \in Points : d = Sum(p, p) /\ f = Sum(d, d) /\ e = Sum(f, f)
  BY SumOnCurve
<1>2. ASSUME NEW q \in Points, NEW b, Extended(b, q) PROVE Extended(Double(b), Sum(q, q))
  <2>1. PICK z \in Scale : b = Scaled(q, z)
    BY <1>2 DEF Extended
  <2>2. Double(b) \in Doubles(b)
    BY Zenon DEF Doubles
  <2> QED BY Zenon, <2>1, <2>2, DoublesAre DEF Extended, StandsForSum
<1>3. Extended(r43MultByCofactor(a), e)
  BY Zenon, <1>1, <1>2 DEF r43MultByCofactor
<1>4. ASSUME NEW q \in Points, NEW b, Projected(b, q)
      PROVE  /\ Projected(projP2FromP1xP1(projP1xP1Double(b)), Sum(q, q))
             /\ Extended(fromP1xP1(projP1xP1Double(b)), Sum(q, q))
  <2>1. PICK z \in Scale : b = Projective(q, z)
    BY <1>4 DEF Projected
  <2>2. b.X = Mod(q[1] * z) /\ b.Y = Mod(q[2] * z) /\ b.Z = z
    BY Zenon, <2>1, FromP2Is
  <2>3. PICK v : /\ Completes(v, Sum(q, q))
                 /\ fromP1xP1(projP1xP1Double(b)) = ifmaPointFinalProducts(v)
                 /\ projP2FromP1xP1(projP1xP1Double(b)) = ifmaProjectiveFinalProducts(v)
    BY ZenonT(60), <2>2, ProjectiveDoubles
  <2>4. Sum(q, q) \in Points
    BY SumOnCurve
  <2> QED BY Zenon, <2>3, <2>4, CompletesFinal DEF Projected, Extended
<1>5. Projected(projP2FromP3(a), p)
  <2>1. PICK z \in Scale : a = Scaled(p, z)
    BY DEF Extended
  <2>2. projP2FromP3(a) = Projective(p, z)
    BY Zenon, <2>1, FromP2Is
  <2> QED BY Zenon, <2>2 DEF Projected
<1>6. Extended(MultByCofactor(a), e)
  BY Zenon, <1>1, <1>4, <1>5 DEF MultByCofactor
<1> QED BY <1>1, <1>3, <1>6

\* A quadruple that satisfies the equations and is not zero is a point: Z is
\* not zero, because -1 is a square and the constant is none.
LEMMA QuadrupleIs ==
  ASSUME NEW c \in Quadruples, isOnCurve(c)
  PROVE  LET q == <<Times(c.X, Invert(c.Z)), Times(c.Y, Invert(c.Z))>> IN q \in Points /\ Extended(c, q)
<1>1. PICK x \in Fe, y \in Fe, z \in Fe, t \in Fe : /\ c = [X |-> x, Y |-> y, Z |-> z, T |-> t]
                                                   /\ ~ (x = 0 /\ y = 0 /\ z = 0 /\ t = 0)
  <2>1. c \in [X : Fe, Y : Fe, Z : Fe, T : Fe] /\ c # [X |-> 0, Y |-> 0, Z |-> 0, T |-> 0]
    BY PointAssumption
  <2> QED BY <2>1
<1>2. x \in Int /\ y \in Int /\ z \in Int /\ t \in Int /\ D \in Int /\ D \in Fe
      /\ Mod(x) = x /\ Mod(y) = y /\ Mod(z) = z /\ Mod(t) = t /\ Mod(D) = D
  BY ElementIs, ConstantIs
<1>3. Mod(y * y - x * x - (D * (t * t) + z * z)) = 0 /\ Mod(x * y - t * z) = 0
  <2>1. /\ Minus(Times(y, y), Times(x, x)) = Plus(Times(D, Times(t, t)), Times(z, z))
        /\ Times(x, y) = Times(t, z)
    BY <1>1 DEF isOnCurve
  <2>2. PICK xx \in Int, yy \in Int, zz \in Int, tt \in Int, dt \in Int :
          xx = x * x /\ yy = y * y /\ zz = z * z /\ tt = t * t /\ dt = D * tt
    BY <1>2
  <2>3. Times(x, x) = Mod(xx) /\ Times(y, y) = Mod(yy) /\ Times(z, z) = Mod(zz) /\ Times(t, t) = Mod(tt)
    BY <2>2, FieldOps
  <2>4. Times(D, Mod(tt)) = Mod(dt)
    <3>1. Times(Mod(D), Mod(tt)) = Mod(D * tt)
      BY Zenon, <1>2, Arithmetic
    <3> QED BY Zenon, <1>2, <2>2, <3>1
  <2>5. Mod(yy - xx) = Mod(dt + zz)
    <3>1. Minus(Mod(yy), Mod(xx)) = Mod(yy - xx) /\ Plus(Mod(dt), Mod(zz)) = Mod(dt + zz)
      BY Zenon, Arithmetic
    <3> QED BY Zenon, <2>1, <2>3, <2>4, <3>1
  <2>6. PICK l \in Int, r \in Int : l = yy - xx /\ r = dt + zz
    OBVIOUS
  <2>7. Mod(l - r) = 0
    BY <2>5, <2>6, ModDifference
  <2>8. Mod(x * y) = Mod(t * z) /\ x * y \in Int /\ t * z \in Int
    BY <1>2, <2>1, FieldOps
  <2>9. Mod(x * y - t * z) = 0
    BY <2>8, ModDifference
  <2> QED BY <2>2, <2>6, <2>7, <2>9
<1>4. z # 0
  <2>1. SUFFICES ASSUME z = 0 PROVE FALSE
    OBVIOUS
  <2>2. PICK e \in Int : Mod(e * e + 1) = 0
    BY SquareRoot
  <2>3. x * y - t * z = x * y /\ Product(<<x * y, x, y>>)
    BY <1>2, <2>1 DEF Product
  <2>4. x = 0 \/ y = 0
    BY <1>2, <1>3, <2>3, ZeroProduct
  <2>5. CASE x = 0
    <3>1. y * y - x * x - (D * (t * t) + z * z) = y * y - D * (t * t)
      BY <1>2, <2>1, <2>5
    <3>2. Ratio(<<y * y - D * (t * t), y, t>>)
      BY <1>2 DEF Ratio
    <3>3. t = 0
      BY <1>2, <1>3, <3>1, <3>2, NonSquare
    <3>4. y * y - D * (t * t) = y * y /\ Product(<<y * y, y, y>>)
      BY <1>2, <3>3 DEF Product
    <3>5. y = 0
      BY <1>2, <1>3, <3>1, <3>4, ZeroProduct
    <3> QED BY <1>1, <2>1, <2>5, <3>3, <3>5
  <2>6. CASE y = 0
    <3>1. Differ2(<<(e * x) * (e * x) - D * (t * t), 0, y * y - x * x - (D * (t * t) + z * z), 1, e * e + 1, x * x>>)
      BY <1>2, <2>1, <2>6 DEF Differ2
    <3>2. Mod((e * x) * (e * x) - D * (t * t)) = 0
      BY <1>3, <2>2, <3>1, Vanish2, ModZero
    <3>3. Ratio(<<(e * x) * (e * x) - D * (t * t), e * x, t>>)
      BY <1>2 DEF Ratio
    <3>4. t = 0
      BY <1>2, <3>2, <3>3, NonSquare
    <3>5. Differ1(<<x * x, 0, y * y - x * x - (D * (t * t) + z * z), -1>>) /\ Product(<<x * x, x, x>>)
      BY <1>2, <2>1, <2>6, <3>4 DEF Differ1, Product
    <3>6. x = 0
      BY <1>2, <1>3, <3>5, Vanish1, ModZero, ZeroProduct
    <3> QED BY <1>1, <2>1, <2>6, <3>4, <3>6
  <2> QED BY <2>4, <2>5, <2>6
<1>5. PICK u \in Fe, v \in Fe :
        /\ u = Times(x, Invert(z)) /\ v = Times(y, Invert(z)) /\ Mod(u * z - x) = 0 /\ Mod(v * z - y) = 0
  BY <1>4, QuotientIs
<1>6. u \in Int /\ v \in Int
  BY ElementIs
<1>7. Mod(t) = Mod((u * v) * z)
  <2>1. Differ4(<<t * z - ((u * v) * z) * z, 0, x * y - t * z, -1, u * z - x, -(v * z), v * z - y, -x, 0, 0>>)
    BY <1>2, <1>6 DEF Differ4
  <2>2. Mod(t * z - ((u * v) * z) * z) = 0
    BY <1>3, <1>5, <2>1, Vanish4, ModZero
  <2>3. Cancels(<<t * z - ((u * v) * z) * z, t, (u * v) * z, z>>)
    BY <1>2, <1>6 DEF Cancels
  <2> QED BY <1>2, <1>4, <2>2, <2>3, Cancel
<1>8. Mod(u * z) = Mod(x) /\ Mod(v * z) = Mod(y)
  <2>1. u * z \in Int /\ v * z \in Int
    BY <1>2, <1>6
  <2> QED BY <1>2, <1>5, <2>1, ModDifference
<1>9. Mod(Excess(u, v)) = 0
  <2>1. Mod(t - (u * v) * z) = 0
    <3>1. (u * v) * z \in Int
      BY <1>2, <1>6
    <3> QED BY <1>2, <1>7, <3>1, ModDifference
  <2>2. Differ4(<<Excess(u, v) * (z * z), 0, y * y - x * x - (D * (t * t) + z * z), 1, u * z - x, -(u * z + x),
                  v * z - y, v * z + y, t - (u * v) * z, D * (t + (u * v) * z)>>)
    BY <1>2, <1>6 DEF Differ4, Excess
  <2>3. Mod(Excess(u, v) * (z * z)) = 0
    BY <1>3, <1>5, <2>1, <2>2, Vanish4, ModZero
  <2>4. Product(<<Excess(u, v) * (z * z), Excess(u, v), z * z>>) /\ Product(<<z * z, z, z>>)
    BY <1>2, <1>6 DEF Product, Excess
  <2> QED BY <1>2, <1>4, <2>3, <2>4, ZeroProduct
<1>10. <<u, v>> \in Points
  BY <1>9, PointIs
<1>11. c = Scaled(<<u, v>>, z)
  <2>1. Scaled(<<u, v>>, z) = [X |-> Mod(u * z), Y |-> Mod(v * z), Z |-> z, T |-> Mod((u * v) * z)]
    <3>1. Scaled(<<u, v>>, z) = [X |-> Mod(<<u, v>>[1] * z), Y |-> Mod(<<u, v>>[2] * z), Z |-> z, T |-> Mod(Area(<<u, v>>) * z)]
      BY Zenon, <1>10, ScaledIs
    <3>2. <<u, v>>[1] = u /\ <<u, v>>[2] = v /\ Area(<<u, v>>) = u * v
      BY DEF Area
    <3> QED BY Zenon, <3>1, <3>2
  <2> QED BY Zenon, <1>1, <1>2, <1>7, <1>8, <2>1
<1>12. z \in Scale
  BY <1>4 DEF Scale
<1>13. c.X = x /\ c.Y = y /\ c.Z = z
  BY <1>1
<1> QED BY Zenon, <1>5, <1>10, <1>11, <1>12, <1>13 DEF Extended

-----------------------------------------------------------------------------
\* The invariant: the accumulator holds pt in the coordinates that form names.
\* A projective point carries no T, and a completed one owes its products.
PointInv ==
  /\ pt \in Points
  /\ \/ form = "P3" /\ Extended(acc, pt)
     \/ form = "P2" /\ Projected(acc, pt)
     \/ form = "completed" /\ Completes(acc, pt)

\* It holds at the neutral point.
LEMMA PointInitInv == PointInit => PointInv
BY Zenon, NeutralIs, ScalesIn DEF PointInit, PointInv, Extended

\* What the invariant says of each form.
LEMMA FormsIs ==
  ASSUME PointInv
  PROVE  /\ pt \in Points
         /\ form = "P3" => Extended(acc, pt)
         /\ form = "P2" => Projected(acc, pt)
         /\ form = "completed" => Completes(acc, pt)
BY DEF PointInv

\* Additions and subtractions.
LEMMA AddPointInv ==
  ASSUME PointInv, AddPoint
  PROVE  PointInv'
<1>1. pt \in Points /\ form = "P3" /\ form' = "P3"
  BY FormsIs DEF AddPoint
<1>2. PICK z \in Scale : acc = Scaled(pt, z)
  BY FormsIs DEF AddPoint, Extended
<1>3. PICK p \in Points, w \in Scales, negative \in BOOLEAN :
        /\ acc' \in IF negative THEN Differences(acc, Scaled(p, w)) ELSE Sums(acc, Scaled(p, w))
        /\ pt' = Sum(pt, Signed(p, negative))
  BY Zenon DEF AddPoint
<1>4. w \in Scale
  BY ScalesIn
<1>5. StandsForSum(acc', pt, Signed(p, negative))
  <2>1. CASE negative = TRUE
    <3>1. acc' \in Differences(Scaled(pt, z), Scaled(p, w)) /\ Signed(p, negative) = Opposite(p)
      BY Zenon, <1>2, <1>3, <2>1 DEF Signed
    <3> QED BY Zenon, <1>1, <1>4, <3>1, DifferencesAre
  <2>2. CASE negative = FALSE
    <3>1. acc' \in Sums(Scaled(pt, z), Scaled(p, w)) /\ Signed(p, negative) = p
      BY Zenon, <1>2, <1>3, <2>2 DEF Signed
    <3> QED BY Zenon, <1>1, <1>4, <3>1, SumsAre
  <2> QED BY <2>1, <2>2
<1>6. Signed(p, negative) \in Points
  BY SignedIs
<1>7. pt' \in Points /\ Extended(acc', pt')
  BY Zenon, <1>1, <1>3, <1>5, <1>6, SumOnCurve DEF StandsForSum, Extended
<1> QED BY Zenon, <1>1, <1>7 DEF PointInv

\* Additions of a cached point.
LEMMA AddCachedInv ==
  ASSUME PointInv, AddCached
  PROVE  PointInv'
<1>1. pt \in Points /\ form = "P3" /\ form' = "P3"
  BY FormsIs DEF AddCached
<1>2. PICK z \in Scale : acc = Scaled(pt, z)
  BY FormsIs DEF AddCached, Extended
<1>3. PICK p \in Points, w \in Scales, negative \in BOOLEAN :
        acc' \in CachedSums(acc, Scaled(p, w), negative) /\ pt' = Sum(pt, Signed(p, negative))
  BY Zenon DEF AddCached
<1>4. w \in Scale
  BY ScalesIn
<1>5. StandsForSum(acc', pt, Signed(p, negative))
  <2>1. acc' \in CachedSums(Scaled(pt, z), Scaled(p, w), negative)
    BY Zenon, <1>2, <1>3
  <2> QED BY Zenon, <1>1, <1>4, <2>1, CachedSumsAre
<1>6. Signed(p, negative) \in Points
  BY SignedIs
<1>7. pt' \in Points /\ Extended(acc', pt')
  BY Zenon, <1>1, <1>3, <1>5, <1>6, SumOnCurve DEF StandsForSum, Extended
<1> QED BY Zenon, <1>1, <1>7 DEF PointInv

\* A lane without a digit changes the scaling and not the point.
LEMMA AddIdentityInv ==
  ASSUME PointInv, AddIdentity
  PROVE  PointInv'
<1>1. pt \in Points /\ form = "P3" /\ form' = "P3" /\ pt' = pt
  BY FormsIs DEF AddIdentity
<1>2. PICK z \in Scale : acc = Scaled(pt, z)
  BY FormsIs DEF AddIdentity, Extended
<1>3. acc' = ifmaPointAddProjectiveNiels(acc, setIdentityIFMAProjectiveNielsLane) \/ acc' = addFixedBaseIFMACached(acc, identityFixedBaseCached)
  BY Zenon DEF AddIdentity
<1>4. Neutral \in Points /\ 1 \in Scale /\ z * 1 \in Int /\ Mod(z * 1) # 0
  BY NeutralIs, ScalesIn, ScalesMultiply
<1>5. ifmaPointAddProjectiveNiels(acc, setIdentityIFMAProjectiveNielsLane) = Added(pt, Neutral, z * 1)
  <2>1. ifmaPointAddProjectiveNiels(Scaled(pt, z), ProjectiveNiels(Neutral, 1)) = Added(pt, Neutral, z * 1)
    BY Zenon, <1>1, <1>4, ProjectiveSums
  <2> QED BY Zenon, <1>2, <2>1, IdentityNiels
<1>6. addFixedBaseIFMACached(acc, identityFixedBaseCached) = Added(pt, Neutral, z * 1)
  <2>1. addFixedBaseIFMACached(Scaled(pt, z), AffineNiels(Neutral)) = Added(pt, Neutral, z * 1)
    BY Zenon, <1>1, <1>4, AffineSums
  <2> QED BY Zenon, <1>2, <2>1, IdentityNiels
<1>7. StandsForSum(acc', pt, Neutral)
  BY Zenon, <1>1, <1>3, <1>4, <1>5, <1>6, AddedIs
<1>8. Extended(acc', pt')
  BY Zenon, <1>1, <1>7, NeutralSum DEF StandsForSum, Extended
<1> QED BY Zenon, <1>1, <1>8 DEF PointInv

\* An entry of a packed table.
LEMMA AddOddMultipleInv ==
  ASSUME PointInv, AddOddMultiple
  PROVE  PointInv'
<1>1. pt \in Points /\ form = "P3" /\ form' = "P3"
  BY FormsIs DEF AddOddMultiple
<1>2. PICK z \in Scale : acc = Scaled(pt, z)
  BY FormsIs DEF AddOddMultiple, Extended
<1>3. PICK p \in Points, i \in 1 .. 3, negative \in BOOLEAN :
        LET entry == buildQuadNAFEntries(Scaled(p, 1), 3)[i]
            odd == IF i = 1 THEN p ELSE IF i = 2 THEN Sum(p, Sum(p, p)) ELSE Sum(Sum(p, Sum(p, p)), Sum(p, p))
        IN /\ acc' = quadReduced(quadPointAddCached(quadPacked(acc),
                                   IF negative THEN quadNegateCachedPoint(entry) ELSE entry))
           /\ pt' = Sum(pt, Signed(odd, negative))
  BY Zenon DEF AddOddMultiple
<1>4. PICK odd \in Points, w \in Scale :
        /\ buildQuadNAFEntries(Scaled(p, 1), 3)[i] = Cached(odd, w)
        /\ odd = IF i = 1 THEN p ELSE IF i = 2 THEN Sum(p, Sum(p, p)) ELSE Sum(Sum(p, Sum(p, p)), Sum(p, p))
  <2>1. Sum(p, p) \in Points /\ Sum(p, Sum(p, p)) \in Points /\ Sum(Sum(p, Sum(p, p)), Sum(p, p)) \in Points
    BY Zenon, SumOnCurve
  <2>2. CASE i = 1
    BY Zenon, <2>2, TableIs
  <2>3. CASE i = 2
    <3>1. i # 1
      BY <2>3
    <3> QED BY Zenon, <2>1, <2>3, <3>1, TableIs
  <2>4. CASE i = 3
    <3>1. i # 1 /\ i # 2
      BY <2>4
    <3> QED BY Zenon, <2>1, <2>4, <3>1, TableIs
  <2> QED BY <2>2, <2>3, <2>4
<1>5. pt' = Sum(pt, Signed(odd, negative)) /\ Signed(odd, negative) \in Points
  BY Zenon, <1>3, <1>4, SignedIs
<1>6. acc' = quadReduced(quadPointAddCached(quadPacked(Scaled(pt, z)), Cached(Signed(odd, negative), w)))
  <2>1. (IF negative THEN quadNegateCachedPoint(Cached(odd, w)) ELSE Cached(odd, w)) = Cached(Signed(odd, negative), w)
    BY Zenon, CachedIs DEF Signed
  <2> QED BY Zenon, <1>2, <1>3, <1>4, <2>1
<1>7. acc' = Added(pt, Signed(odd, negative), z * w)
  BY ZenonT(60), <1>1, <1>5, <1>6, PackedSums
<1>8. StandsForSum(acc', pt, Signed(odd, negative))
  <2>1. z * w \in Int /\ Mod(z * w) # 0
    BY ScalesMultiply
  <2> QED BY Zenon, <1>1, <1>5, <1>7, <2>1, AddedIs
<1>9. pt' \in Points /\ Extended(acc', pt')
  BY Zenon, <1>1, <1>5, <1>8, SumOnCurve DEF StandsForSum, Extended
<1> QED BY Zenon, <1>1, <1>9 DEF PointInv

\* Doublings.
LEMMA DoublePointInv ==
  ASSUME PointInv, DoublePoint
  PROVE  PointInv'
<1>1. pt \in Points /\ form = "P3" /\ form' = "P3" /\ acc' \in Doubles(acc) /\ pt' = Sum(pt, pt)
  BY FormsIs DEF DoublePoint
<1>2. PICK z \in Scale : acc = Scaled(pt, z)
  BY FormsIs DEF DoublePoint, Extended
<1>3. pt' \in Points /\ Extended(acc', pt')
  BY Zenon, <1>1, <1>2, DoublesAre, SumOnCurve DEF StandsForSum, Extended
<1> QED BY Zenon, <1>1, <1>3 DEF PointInv

\* A chain's halves do not meet.
LEMMA TwoChainInv ==
  ASSUME PointInv, TwoChain
  PROVE  PointInv'
<1>1. pt \in Points /\ form = "P3" /\ form' = "P3"
  BY FormsIs DEF TwoChain
<1>2. PICK z \in Scale : acc = Scaled(pt, z)
  BY FormsIs DEF TwoChain, Extended
<1>3. PICK p \in Points, w \in Scales, half \in 1 .. 2 :
        LET mine == quadPacked(acc)
            other == quadPacked(Scaled(p, w))
            packed == IF half = 1 THEN packQuadTwoChain(mine, other) ELSE packQuadTwoChain(other, mine)
            cached == packQuadTwoChain(quadCachePackedPoint(other), quadCachePackedPoint(other))
        IN \/ acc' = quadReduced(unpackQuadTwoChain(quadTwoChainDouble(packed))[half]) /\ pt' = Sum(pt, pt)
           \/ acc' = quadReduced(unpackQuadTwoChain(quadTwoChainCachedAdd(packed, cached))[half]) /\ pt' = Sum(pt, p)
  BY Zenon DEF TwoChain
<1>4. w \in Scale /\ (half = 1 \/ half = 2)
  BY ScalesIn
<1> DEFINE mine == quadPacked(Scaled(pt, z))  other == quadPacked(Scaled(p, w))
           packed == IF half = 1 THEN packQuadTwoChain(mine, other) ELSE packQuadTwoChain(other, mine)
           entry == Cached(p, w)
           cached == packQuadTwoChain(entry, entry)
<1>7. quadCachePackedPoint(other) = entry
  BY Zenon, <1>4, CachedIs
<1>8. PICK i \in Points, j \in Points : i = (IF half = 1 THEN pt ELSE p) /\ j = (IF half = 1 THEN p ELSE pt)
  BY <1>1
<1>9. PICK u \in Scale, v \in Scale : /\ packed = packQuadTwoChain(quadPacked(Scaled(i, u)), quadPacked(Scaled(j, v)))
                                      /\ u = (IF half = 1 THEN z ELSE w) /\ v = (IF half = 1 THEN w ELSE z)
  BY Zenon, <1>4, <1>8
<1>10. unpackQuadTwoChain(packed) = <<quadPacked(Scaled(i, u)), quadPacked(Scaled(j, v))>>
  BY ZenonT(60), <1>9, FourLanes, Halves
<1>11. unpackQuadTwoChain(cached) = <<entry, entry>>
  BY Zenon, FourLanes, Halves
<1>12. quadReduced(unpackQuadTwoChain(quadTwoChainDouble(packed))[half]) = quadReduced(quadPointDouble(mine))
  <2>1. quadTwoChainDouble(packed) = packQuadTwoChain(quadPointDouble(quadPacked(Scaled(i, u))), quadPointDouble(quadPacked(Scaled(j, v))))
    BY <1>10 DEF quadTwoChainDouble
  <2>2. /\ unpackQuadTwoChain(quadTwoChainDouble(packed))[1] = quadPointDouble(quadPacked(Scaled(i, u)))
        /\ unpackQuadTwoChain(quadTwoChainDouble(packed))[2] = quadPointDouble(quadPacked(Scaled(j, v)))
    <3>1. PICK a, b : a = quadPointDouble(quadPacked(Scaled(i, u))) /\ b = quadPointDouble(quadPacked(Scaled(j, v)))
      OBVIOUS
    <3>2. Four(a) /\ Four(b)
      BY Zenon, <3>1, FourLanes
    <3>3. /\ unpackQuadTwoChain(packQuadTwoChain(a, b))[1] = a
          /\ unpackQuadTwoChain(packQuadTwoChain(a, b))[2] = b
      BY Zenon, <3>2, Halves
    <3> QED BY Zenon, <2>1, <3>1, <3>3
  <2>3. CASE half = 1
    BY Zenon, <1>8, <1>9, <2>2, <2>3
  <2>4. CASE half = 2
    <3>1. half # 1
      BY <2>4
    <3> QED BY Zenon, <1>8, <1>9, <2>2, <2>4, <3>1
  <2> QED BY <1>4, <2>3, <2>4
<1>13. quadReduced(unpackQuadTwoChain(quadTwoChainCachedAdd(packed, cached))[half]) = quadReduced(quadPointAddCached(mine, entry))
  <2>1. quadTwoChainCachedAdd(packed, cached)
          = packQuadTwoChain(quadPointAddCached(quadPacked(Scaled(i, u)), entry), quadPointAddCached(quadPacked(Scaled(j, v)), entry))
    <3> HIDE DEF packed, cached, entry
    <3> QED BY <1>10, <1>11 DEF quadTwoChainCachedAdd
  <2>2. /\ unpackQuadTwoChain(quadTwoChainCachedAdd(packed, cached))[1] = quadPointAddCached(quadPacked(Scaled(i, u)), entry)
        /\ unpackQuadTwoChain(quadTwoChainCachedAdd(packed, cached))[2] = quadPointAddCached(quadPacked(Scaled(j, v)), entry)
    <3>1. PICK a, b : a = quadPointAddCached(quadPacked(Scaled(i, u)), entry) /\ b = quadPointAddCached(quadPacked(Scaled(j, v)), entry)
      OBVIOUS
    <3>2. Four(a) /\ Four(b)
      BY Zenon, <3>1, FourLanes
    <3>3. /\ unpackQuadTwoChain(packQuadTwoChain(a, b))[1] = a
          /\ unpackQuadTwoChain(packQuadTwoChain(a, b))[2] = b
      BY Zenon, <3>2, Halves
    <3> QED BY Zenon, <2>1, <3>1, <3>3
  <2>3. CASE half = 1
    BY Zenon, <1>8, <1>9, <2>2, <2>3
  <2>4. CASE half = 2
    <3>1. half # 1
      BY <2>4
    <3> QED BY Zenon, <1>8, <1>9, <2>2, <2>4, <3>1
  <2> QED BY <1>4, <2>3, <2>4
<1>14. \/ acc' = quadReduced(quadPointDouble(mine)) /\ pt' = Sum(pt, pt)
       \/ acc' = quadReduced(quadPointAddCached(mine, entry)) /\ pt' = Sum(pt, p)
  BY Zenon, <1>2, <1>3, <1>7, <1>12, <1>13
<1>15. StandsForSum(quadReduced(quadPointDouble(mine)), pt, pt)
  <2>1. quadReduced(quadPointDouble(mine)) \in Doubles(Scaled(pt, z))
    BY Zenon DEF Doubles
  <2> QED BY Zenon, <1>1, <2>1, DoublesAre
<1>16. StandsForSum(quadReduced(quadPointAddCached(mine, entry)), pt, p)
  <2>1. z * w \in Int /\ Mod(z * w) # 0
    BY <1>4, ScalesMultiply
  <2>2. quadReduced(quadPointAddCached(mine, entry)) = Added(pt, p, z * w)
    BY ZenonT(60), <1>1, <1>4, PackedSums
  <2> QED BY Zenon, <1>1, <2>1, <2>2, AddedIs
<1>17. pt' \in Points /\ Extended(acc', pt')
  BY Zenon, <1>1, <1>14, <1>15, <1>16, SumOnCurve DEF StandsForSum, Extended
<1> QED BY Zenon, <1>1, <1>17 DEF PointInv

\* A doubling without T needs none of its operand.
LEMMA DoubleToP2Inv ==
  ASSUME PointInv, DoubleToP2
  PROVE  PointInv'
<1>1. /\ pt \in Points /\ (form = "P3" \/ form = "P2") /\ form' = "P2" /\ pt' = Sum(pt, pt)
      /\ \/ acc' = ifmaProjectiveFinalProducts(DirectStage(acc)) \/ acc' = ifmaProjectiveFinalProducts(SquareTrickStage(acc))
         \/ acc' = projP2FromP1xP1(projP1xP1Double(projP2FromP3(acc)))
  BY FormsIs DEF DoubleToP2
<1>2. PICK z \in Scale : acc.X = Mod(pt[1] * z) /\ acc.Y = Mod(pt[2] * z) /\ acc.Z = z
  <2>1. CASE form = "P3"
    <3>1. PICK z \in Scale : acc = Scaled(pt, z)
      BY <2>1, FormsIs DEF Extended
    <3>2. z \in Fe
      BY ScaleIs
    <3> QED BY ZenonT(60), <1>1, <3>1, <3>2, ScaledFields
  <2>2. CASE form = "P2"
    <3>1. PICK z \in Scale : acc = Projective(pt, z)
      BY <2>2, FormsIs DEF Projected
    <3> QED BY Zenon, <1>1, <3>1, FromP2Is
  <2> QED BY <1>1, <2>1, <2>2
<1>3. PICK k, v : /\ Completes(k, Sum(pt, pt)) /\ Completes(v, Sum(pt, pt))
                  /\ DirectStage(acc) = k /\ SquareTrickStage(acc) = k
  BY Zenon, <1>1, <1>2, ProjectiveDoubles
<1>4. projP2FromP3(acc).X = Mod(pt[1] * z) /\ projP2FromP3(acc).Y = Mod(pt[2] * z) /\ projP2FromP3(acc).Z = z
  BY <1>2 DEF projP2FromP3
<1>5. PICK u : /\ Completes(u, Sum(pt, pt))
               /\ projP2FromP1xP1(projP1xP1Double(projP2FromP3(acc))) = ifmaProjectiveFinalProducts(u)
  BY Zenon, <1>1, <1>4, ProjectiveDoubles
<1>6. Sum(pt, pt) \in Points
  BY <1>1, SumOnCurve
<1>7. \E w : Completes(w, Sum(pt, pt)) /\ acc' = ifmaProjectiveFinalProducts(w)
  BY Zenon, <1>1, <1>3, <1>5
<1>8. pt' \in Points /\ Projected(acc', pt')
  BY Zenon, <1>1, <1>6, <1>7, CompletesFinal DEF Projected
<1> QED BY Zenon, <1>1, <1>8 DEF PointInv

\* The last doubling of a run computes T again.
LEMMA DoubleToP3Inv ==
  ASSUME PointInv, DoubleToP3
  PROVE  PointInv'
<1>1. /\ pt \in Points /\ form = "P2" /\ form' = "P3" /\ pt' = Sum(pt, pt)
      /\ \/ acc' = ifmaPointFinalProducts(DirectStage(acc)) \/ acc' = ifmaPointFinalProducts(SquareTrickStage(acc))
         \/ acc' = fromP1xP1(projP1xP1Double(acc))
  BY FormsIs DEF DoubleToP3
<1>2. PICK z \in Scale : acc.X = Mod(pt[1] * z) /\ acc.Y = Mod(pt[2] * z) /\ acc.Z = z
  <2>1. PICK z \in Scale : acc = Projective(pt, z)
    BY <1>1, FormsIs DEF Projected
  <2> QED BY Zenon, <1>1, <2>1, FromP2Is
<1>3. /\ Completes(DirectStage(acc), Sum(pt, pt)) /\ Completes(SquareTrickStage(acc), Sum(pt, pt))
      /\ \E v : Completes(v, Sum(pt, pt)) /\ fromP1xP1(projP1xP1Double(acc)) = ifmaPointFinalProducts(v)
  <2>1. Completes(DirectStage(acc), Sum(pt, pt)) /\ SquareTrickStage(acc) = DirectStage(acc)
    BY ZenonT(60), <1>1, <1>2, ProjectiveDoubles
  <2>2. \E v : Completes(v, Sum(pt, pt)) /\ fromP1xP1(projP1xP1Double(acc)) = ifmaPointFinalProducts(v)
    BY Zenon, <1>1, <1>2, ProjectiveDoubles
  <2> QED BY Zenon, <2>1, <2>2
<1>4. Sum(pt, pt) \in Points
  BY <1>1, SumOnCurve
<1>5. \E w : Completes(w, Sum(pt, pt)) /\ acc' = ifmaPointFinalProducts(w)
  <2>1. PICK v : Completes(v, Sum(pt, pt)) /\ fromP1xP1(projP1xP1Double(acc)) = ifmaPointFinalProducts(v)
    BY Zenon, <1>3
  <2> QED BY Zenon, <1>1, <1>3, <2>1
<1>6. pt' \in Points /\ Extended(acc', pt')
  BY Zenon, <1>1, <1>4, <1>5, CompletesFinal DEF Extended
<1> QED BY Zenon, <1>1, <1>6 DEF PointInv

\* A doubling may stop before its products.
LEMMA DoubleToCompletedInv ==
  ASSUME PointInv, DoubleToCompleted
  PROVE  PointInv'
<1>1. pt \in Points /\ form = "P2" /\ form' = "completed" /\ pt' = Sum(pt, pt) /\ acc' = DirectStage(acc)
  BY FormsIs DEF DoubleToCompleted
<1>2. PICK z \in Scale : acc.X = Mod(pt[1] * z) /\ acc.Y = Mod(pt[2] * z) /\ acc.Z = z
  <2>1. PICK z \in Scale : acc = Projective(pt, z)
    BY <1>1, FormsIs DEF Projected
  <2> QED BY Zenon, <1>1, <2>1, FromP2Is
<1>3. Completes(DirectStage(acc), Sum(pt, pt))
  BY Zenon, <1>1, <1>2, ProjectiveDoubles
<1>4. pt' \in Points /\ Completes(acc', pt')
  BY Zenon, <1>1, <1>3, SumOnCurve
<1> QED BY Zenon, <1>1, <1>4 DEF PointInv

\* Additions to a completed point.
LEMMA AddCompletedInv ==
  ASSUME PointInv, AddCompleted
  PROVE  PointInv'
<1>1. pt \in Points /\ form = "completed" /\ form' = "completed" /\ Completes(acc, pt)
  BY FormsIs DEF AddCompleted
<1>2. PICK p \in Points, w \in Scales, negative \in BOOLEAN :
        /\ acc' \in {ifmaCompletedAddProjectiveNiels(acc, SignedNiels(ifmaProjectiveNielsFromPoint(Scaled(p, w)), negative)),
                     ifmaCompletedAddAffineNiels(acc, SignedNiels(fixedBaseCacheAffine(Scaled(p, w)), negative))}
        /\ pt' = Sum(pt, Signed(p, negative))
  BY Zenon DEF AddCompleted
<1>3. w \in Scale /\ w \in Fe /\ w \in Int
  BY ScalesIn, ScaleIs
<1>4. PICK o \in Points : o = Signed(p, negative)
  BY SignedIs
<1>5. SignedNiels(ifmaProjectiveNielsFromPoint(Scaled(p, w)), negative) = ProjectiveNiels(o, w)
  <2>1. ifmaProjectiveNielsFromPoint(Scaled(p, w)) = ProjectiveNiels(p, w)
    BY Zenon, <1>3, ProjectiveNielsIs
  <2>2. SignedNiels(ProjectiveNiels(p, w), negative) = ProjectiveNiels(o, w)
    BY Zenon, <1>3, <1>4, SignedNielsIs
  <2> QED BY Zenon, <2>1, <2>2
<1>6. SignedNiels(fixedBaseCacheAffine(Scaled(p, w)), negative) = AffineNiels(o)
  <2>1. fixedBaseCacheAffine(Scaled(p, w)) = AffineNiels(p)
    BY Zenon, <1>3, AffineNielsIs
  <2>2. SignedNiels(AffineNiels(p), negative) = AffineNiels(o)
    BY Zenon, <1>3, <1>4, SignedNielsIs
  <2> QED BY Zenon, <2>1, <2>2
<1>7. /\ Completes(ifmaCompletedAddProjectiveNiels(acc, ProjectiveNiels(o, w)), Sum(pt, o))
      /\ Completes(ifmaCompletedAddAffineNiels(acc, AffineNiels(o)), Sum(pt, o))
  BY Zenon, <1>1, <1>3, CompletedSums
<1>8. pt' \in Points /\ Completes(acc', pt')
  BY Zenon, <1>1, <1>2, <1>4, <1>5, <1>6, <1>7, SumOnCurve
<1> QED BY Zenon, <1>1, <1>8 DEF PointInv

\* The products that a completed point owes, and the other conversions.
LEMMA ConversionsInv ==
  ASSUME PointInv, FinishCompleted \/ FromP3 \/ FromP2
  PROVE  PointInv'
<1>1. pt \in Points /\ pt' = pt
  BY FormsIs DEF FinishCompleted, FromP3, FromP2
<1>2. CASE FinishCompleted
  <2>1. PICK z \in Scale : ifmaPointFinalProducts(acc) = Scaled(pt, z) /\ ifmaProjectiveFinalProducts(acc) = Projective(pt, z)
    BY Zenon, <1>1, <1>2, FormsIs, CompletesFinal DEF FinishCompleted
  <2>2. \/ form' = "P2" /\ Projected(acc', pt')
        \/ form' = "P3" /\ Extended(acc', pt')
    BY Zenon, <1>1, <1>2, <2>1 DEF FinishCompleted, Projected, Extended
  <2> QED BY Zenon, <1>1, <2>2 DEF PointInv
<1>3. CASE FromP3
  <2>1. PICK z \in Scale : acc = Scaled(pt, z)
    BY <1>3, FormsIs DEF FromP3, Extended
  <2>2. form' = "P2" /\ acc' = Projective(pt, z)
    BY Zenon, <1>1, <1>3, <2>1, FromP2Is DEF FromP3
  <2> QED BY Zenon, <1>1, <2>2 DEF PointInv, Projected
<1>4. CASE FromP2
  <2>1. PICK z \in Scale : acc = Projective(pt, z)
    BY <1>4, FormsIs DEF FromP2, Projected
  <2>2. form' = "P3" /\ Extended(acc', pt)
    BY Zenon, <1>1, <1>4, <2>1, FromP2Is DEF FromP2
  <2> QED BY Zenon, <1>1, <2>2 DEF PointInv
<1> QED BY <1>2, <1>3, <1>4

\* Negation.
LEMMA NegatePointInv ==
  ASSUME PointInv, NegatePoint
  PROVE  PointInv'
<1>1. pt \in Points /\ form = "P3" /\ form' = "P3" /\ acc' = Negated(acc) /\ pt' = Opposite(pt)
  BY FormsIs DEF NegatePoint
<1>2. PICK z \in Scale : acc = Scaled(pt, z)
  BY <1>1, FormsIs DEF Extended
<1>3. z \in Fe
  BY ScaleIs
<1>4. acc' = Scaled(pt', z) /\ pt' \in Points
  BY Zenon, <1>1, <1>2, <1>3, NegatedIs, OppositeIs
<1> QED BY Zenon, <1>1, <1>4 DEF PointInv, Extended

\* Multiplication by the cofactor.
LEMMA CofactorInv ==
  ASSUME PointInv, Cofactor
  PROVE  PointInv'
<1>1. /\ pt \in Points /\ form' = "P3" /\ Extended(acc, pt)
      /\ acc' = MultByCofactor(acc) \/ acc' = r43MultByCofactor(acc)
      /\ pt' = Sum(Sum(Sum(pt, pt), Sum(pt, pt)), Sum(Sum(pt, pt), Sum(pt, pt)))
  BY FormsIs DEF Cofactor
<1>2. Extended(acc', pt')
  BY Zenon, <1>1, CofactorIs
<1>3. pt' \in Points
  BY Zenon, <1>1, SumOnCurve
<1> QED BY Zenon, <1>1, <1>2, <1>3 DEF PointInv

\* Coordinates from outside.
LEMMA SetExtendedCoordinatesInv ==
  ASSUME PointInv, SetExtendedCoordinates
  PROVE  PointInv'
<1>1. PICK c \in Quadruples : isOnCurve(c) /\ acc' = c /\ pt' = <<Times(c.X, Invert(c.Z)), Times(c.Y, Invert(c.Z))>>
  BY Zenon DEF SetExtendedCoordinates
<1>2. form' = "P3"
  BY DEF SetExtendedCoordinates
<1>3. pt' \in Points /\ Extended(acc', pt')
  BY Zenon, <1>1, QuadrupleIs
<1> QED BY Zenon, <1>2, <1>3 DEF PointInv

-----------------------------------------------------------------------------
\* What the invariant says of the accumulator.

\* A scale cancels.
LEMMA ScaleCancels ==
  ASSUME NEW x \in Fe, NEW y \in Fe, NEW s \in Int, Mod(s) # 0
  PROVE  Mod(x * s) = Mod(y * s) <=> x = y
<1>1. x \in Int /\ y \in Int /\ Mod(x) = x /\ Mod(y) = y
  BY ElementIs
<1>2. ASSUME Mod(x * s) = Mod(y * s) PROVE x = y
  <2>1. x * s \in Int /\ y * s \in Int /\ Cancels(<<x * s - y * s, x, y, s>>)
    BY <1>1 DEF Cancels
  <2>2. Mod(x * s - y * s) = 0
    BY <1>2, <2>1, ModDifference
  <2> QED BY <1>1, <2>1, <2>2, Cancel
<1> QED BY <1>2

\* Z is not zero, the coordinates are those of the point, and T is XY / Z.
LEMMA InvStandsFor ==
  ASSUME PointInv
  PROVE  StandsFor
<1>1. pt \in Points /\ pt[1] \in Fe /\ pt[2] \in Fe /\ pt[1] \in Int /\ pt[2] \in Int
  BY FormsIs, PointIs
<1>2. ASSUME NEW z \in Scale
      PROVE  /\ z # 0 /\ Mod(pt[1] * z) = Times(pt[1], z) /\ Mod(pt[2] * z) = Times(pt[2], z)
             /\ Times(Mod(Area(pt) * z), z) = Times(Mod(pt[1] * z), Mod(pt[2] * z))
  <2>1. z \in Fe /\ z \in Int /\ Mod(z) = z /\ z # 0
    BY ScaleIs
  <2>2. Mod(pt[1] * z) = Times(pt[1], z) /\ Mod(pt[2] * z) = Times(pt[2], z)
    BY Zenon DEF Times, Mod
  <2>3. PICK x \in Int, y \in Int : x = pt[1] /\ y = pt[2]
    BY <1>1
  <2>4. /\ (x * y) * z \in Int /\ x * z \in Int /\ y * z \in Int /\ ((x * y) * z) * z = (x * z) * (y * z)
    BY <2>1
  <2>5. Times(Mod((x * y) * z), Mod(z)) = Mod(((x * y) * z) * z) /\ Times(Mod(x * z), Mod(y * z)) = Mod((x * z) * (y * z))
    BY ZenonT(60), <2>1, <2>4, Arithmetic
  <2>6. Times(Mod(Area(pt) * z), z) = Times(Mod(pt[1] * z), Mod(pt[2] * z))
    BY Zenon, <2>1, <2>3, <2>4, <2>5 DEF Area
  <2> QED BY <2>1, <2>2, <2>6
<1>3. ASSUME NEW a, Extended(a, pt)
      PROVE  a.Z # 0 /\ a.X = Times(pt[1], a.Z) /\ a.Y = Times(pt[2], a.Z) /\ Times(a.T, a.Z) = Times(a.X, a.Y)
  <2>1. PICK z \in Scale : a = Scaled(pt, z)
    BY <1>3 DEF Extended
  <2>2. z \in Fe
    BY ScaleIs
  <2>3. a.X = Mod(pt[1] * z) /\ a.Y = Mod(pt[2] * z) /\ a.Z = z /\ a.T = Mod(Area(pt) * z)
    BY Zenon, <1>1, <2>1, <2>2, ScaledFields
  <2> QED BY Zenon, <1>2, <2>3
<1>4. CASE form = "P3"
  <2>1. Extended(acc, pt) /\ form # "completed"
    BY <1>4, FormsIs
  <2> QED BY Zenon, <1>3, <2>1 DEF StandsFor
<1>5. CASE form = "P2"
  <2>1. PICK z \in Scale : acc = Projective(pt, z)
    BY <1>5, FormsIs DEF Projected
  <2>2. acc.X = Mod(pt[1] * z) /\ acc.Y = Mod(pt[2] * z) /\ acc.Z = z
    BY Zenon, <1>1, <2>1, FromP2Is
  <2>3. form # "completed" /\ ~ (form # "P2")
    BY <1>5
  <2> QED BY Zenon, <1>2, <2>2, <2>3 DEF StandsFor
<1>6. CASE form = "completed"
  <2>1. Extended(ifmaPointFinalProducts(acc), pt)
    BY Zenon, <1>1, <1>6, FormsIs, CompletesFinal DEF Extended
  <2> QED BY Zenon, <1>3, <1>6, <2>1 DEF StandsFor
<1> QED BY <1>4, <1>5, <1>6 DEF PointInv

\* Cross-products compare points.
LEMMA EqualIs ==
  ASSUME NEW p \in Points, NEW q \in Points, NEW z \in Scale, NEW w \in Scale
  PROVE  Equal(Scaled(p, z), Scaled(q, w)) <=> p = q
<1>1. /\ p[1] \in Fe /\ p[2] \in Fe /\ q[1] \in Fe /\ q[2] \in Fe /\ z \in Fe /\ w \in Fe /\ z \in Int /\ w \in Int
      /\ z * w \in Int /\ Mod(z * w) # 0 /\ Mod(z) = z /\ Mod(w) = w /\ p = <<p[1], p[2]>> /\ q = <<q[1], q[2]>>
  BY PointIs, ScaleIs, ScalesMultiply
<1>2. ASSUME NEW x \in Fe, NEW y \in Fe
      PROVE  Times(Mod(x * z), w) = Times(Mod(y * w), z) <=> x = y
  <2>1. x \in Int /\ y \in Int
    BY ElementIs
  <2>2. x * z \in Int /\ y * w \in Int /\ (x * z) * w = x * (z * w) /\ (y * w) * z = y * (z * w)
    BY <1>1, <2>1
  <2>3. Times(Mod(x * z), Mod(w)) = Mod((x * z) * w) /\ Times(Mod(y * w), Mod(z)) = Mod((y * w) * z)
    BY Zenon, <1>1, <2>2, Arithmetic
  <2>4. Mod(x * (z * w)) = Mod(y * (z * w)) <=> x = y
    BY Zenon, <1>1, ScaleCancels
  <2> QED BY Zenon, <1>1, <2>2, <2>3, <2>4
<1>3. /\ Scaled(p, z).X = Mod(p[1] * z) /\ Scaled(p, z).Y = Mod(p[2] * z) /\ Scaled(p, z).Z = z
      /\ Scaled(q, w).X = Mod(q[1] * w) /\ Scaled(q, w).Y = Mod(q[2] * w) /\ Scaled(q, w).Z = w
  BY ZenonT(60), <1>1, ScaledFields
<1>4. Equal(Scaled(p, z), Scaled(q, w)) <=> p[1] = q[1] /\ p[2] = q[2]
  <2>1. Times(Mod(p[1] * z), w) = Times(Mod(q[1] * w), z) <=> p[1] = q[1]
    BY ZenonT(60), <1>1, <1>2
  <2>2. Times(Mod(p[2] * z), w) = Times(Mod(q[2] * w), z) <=> p[2] = q[2]
    BY ZenonT(60), <1>1, <1>2
  <2>3. Equal(Scaled(p, z), Scaled(q, w)) <=>
          Times(Mod(p[1] * z), w) = Times(Mod(q[1] * w), z) /\ Times(Mod(p[2] * z), w) = Times(Mod(q[2] * w), z)
    BY Zenon, <1>3 DEF Equal
  <2> QED BY Zenon, <2>1, <2>2, <2>3
<1> QED BY <1>1, <1>4

\* One product each, with a point whose Z is one.
LEMMA EqualAffineIs ==
  ASSUME NEW p \in Points, NEW q \in Points, NEW z \in Scale
  PROVE  /\ EqualAffine(Scaled(p, z), Scaled(q, 1)) <=> p = q
         /\ IsIdentity(Scaled(p, z)) <=> p = Neutral
<1>1. /\ p[1] \in Fe /\ p[2] \in Fe /\ q[1] \in Fe /\ q[2] \in Fe /\ z \in Fe /\ z \in Int /\ Mod(z) = z /\ Mod(z) # 0
      /\ p = <<p[1], p[2]>> /\ q = <<q[1], q[2]>> /\ 0 \in Fe /\ 1 \in Fe
  BY PointIs, ScaleIs, Elements
<1>2. Scaled(p, z).X = Mod(p[1] * z) /\ Scaled(p, z).Y = Mod(p[2] * z) /\ Scaled(p, z).Z = z
  BY Zenon, <1>1, ScaledFields
<1>3. Scaled(q, 1).X = q[1] /\ Scaled(q, 1).Y = q[2]
  <2>1. Scaled(q, 1).X = Mod(q[1] * 1) /\ Scaled(q, 1).Y = Mod(q[2] * 1)
    BY Zenon, <1>1, ScaledFields
  <2>2. q[1] * 1 = q[1] /\ q[2] * 1 = q[2] /\ Mod(q[1]) = q[1] /\ Mod(q[2]) = q[2]
    BY PointIs
  <2> QED BY Zenon, <2>1, <2>2
<1>4. ASSUME NEW x \in Fe, NEW y \in Fe PROVE Mod(x * z) = Times(y, z) <=> x = y
  <2>1. Times(y, z) = Mod(y * z)
    BY Zenon DEF Times, Mod
  <2>2. Mod(x * z) = Mod(y * z) <=> x = y
    BY Zenon, <1>1, ScaleCancels
  <2> QED BY Zenon, <2>1, <2>2
<1>5. EqualAffine(Scaled(p, z), Scaled(q, 1)) <=> p[1] = q[1] /\ p[2] = q[2]
  <2>1. Mod(p[1] * z) = Times(q[1], z) <=> p[1] = q[1]
    BY ZenonT(60), <1>1, <1>4
  <2>2. Mod(p[2] * z) = Times(q[2], z) <=> p[2] = q[2]
    BY ZenonT(60), <1>1, <1>4
  <2>3. EqualAffine(Scaled(p, z), Scaled(q, 1)) <=> Mod(p[1] * z) = Times(q[1], z) /\ Mod(p[2] * z) = Times(q[2], z)
    BY Zenon, <1>2, <1>3 DEF EqualAffine
  <2> QED BY Zenon, <2>1, <2>2, <2>3
<1>6. Times(0, z) = 0 /\ Times(1, z) = z
  <2>1. 0 * z = 0 /\ 1 * z = z
    BY <1>1
  <2> QED BY <1>1, <2>1, ModZero DEF Times, Mod
<1>7. IsIdentity(Scaled(p, z)) <=> p[1] = 0 /\ p[2] = 1
  <2>1. Mod(p[1] * z) = Times(0, z) <=> p[1] = 0
    BY Zenon, <1>1, <1>4
  <2>2. Mod(p[2] * z) = Times(1, z) <=> p[2] = 1
    BY ZenonT(60), <1>1, <1>4
  <2>3. IsIdentity(Scaled(p, z)) <=> Mod(p[1] * z) = 0 /\ Mod(p[2] * z) = z
    BY Zenon, <1>2 DEF IsIdentity
  <2> QED BY Zenon, <1>6, <2>1, <2>2, <2>3
<1> QED BY <1>1, <1>5, <1>7 DEF Neutral

\* The y of a point and the parity of its x tell it from every other: both
\* points of one y are opposite, and the modulus is odd.
LEMMA BytesTell ==
  ASSUME NEW p \in Points, NEW q \in Points, p[2] = q[2], p[1] % 2 = q[1] % 2
  PROVE  p = q
<1>1. PICK x \in Fe, u \in Fe, y \in Fe : x = p[1] /\ u = q[1] /\ y = p[2] /\ y = q[2]
  BY PointIs
<1>2. x \in Int /\ u \in Int /\ y \in Int /\ D \in Int /\ Mod(Excess(x, y)) = 0 /\ Mod(Excess(u, y)) = 0
  BY <1>1, PointIs, ElementIs, ConstantIs
<1>3. Mod(1 + D * (y * y)) # 0
  <2>1. SUFFICES ASSUME Mod(1 + D * (y * y)) = 0 PROVE FALSE
    OBVIOUS
  <2>2. PICK e \in Int : Mod(e * e + 1) = 0
    BY SquareRoot
  <2>3. Differ2(<<e * e - D * (y * y), 0, e * e + 1, 1, 1 + D * (y * y), -1>>) /\ Ratio(<<e * e - D * (y * y), e, y>>)
    BY <1>2 DEF Differ2, Ratio
  <2>4. Mod(e * e - D * (y * y)) = 0
    BY <2>1, <2>2, <2>3, Vanish2, ModZero
  <2>5. Mod(y) = 0
    BY <2>3, <2>4, NonSquare
  <2>6. Differ2(<<1, 0, 1 + D * (y * y), 1, y, -(D * y)>>)
    BY <1>2 DEF Differ2
  <2> QED BY <2>1, <2>5, <2>6, Vanish2, ModZero
<1>4. Mod((x - u) * (x + u)) = 0
  <2>1. Differ2(<<((x - u) * (x + u)) * (1 + D * (y * y)), 0, Excess(x, y), -1, Excess(u, y), 1>>)
    BY <1>2 DEF Differ2, Excess
  <2>2. Mod(((x - u) * (x + u)) * (1 + D * (y * y))) = 0
    BY <1>2, <2>1, Vanish2, ModZero
  <2>3. Product(<<((x - u) * (x + u)) * (1 + D * (y * y)), (x - u) * (x + u), 1 + D * (y * y)>>)
    BY <1>2 DEF Product
  <2> QED BY <1>3, <2>2, <2>3, ZeroProduct
<1>5. Mod(x - u) = 0 \/ Mod(x + u) = 0
  <2>1. Product(<<(x - u) * (x + u), x - u, x + u>>)
    BY <1>2 DEF Product
  <2> QED BY <1>4, <2>1, ZeroProduct
<1>6. x = u
  <2>1. CASE Mod(x - u) = 0
    BY <1>2, <2>1, ModDifference, ElementIs
  <2>2. CASE Mod(x + u) = 0
    <3>1. x \in 0 .. (P - 1) /\ u \in 0 .. (P - 1) /\ P \in Nat /\ P % 2 = 1 /\ x % 2 = u % 2
      BY <1>1, Elements, Odd DEF Fe
    <3>2. PICK k \in Int : x + u = k * P
      <4>1. x + u \in Int
        BY <1>2
      <4> QED BY <2>2, <4>1, Multiple
    <3>3. k = 0 \/ k = 1
      <4>1. CASE k <= -1
        <5>1. k * P <= -P
          BY <3>1, <4>1
        <5> QED BY <3>1, <3>2, <5>1
      <4>2. CASE k >= 2
        <5>1. k * P >= 2 * P
          BY <3>1, <4>2
        <5> QED BY <3>1, <3>2, <5>1
      <4> QED BY <4>1, <4>2
    <3>4. CASE k = 0
      BY <3>1, <3>2, <3>4
    <3>5. CASE k = 1
      <4>1. x + u = P
        BY <3>1, <3>2, <3>5
      <4> QED BY <3>1, <4>1
    <3> QED BY <3>3, <3>4, <3>5
  <2> QED BY <1>5, <2>1, <2>2
<1> QED BY <1>1, <1>6, PointIs

\* Encodings.
LEMMA BytesIs ==
  ASSUME NEW p \in Points, NEW z \in Scale
  PROVE  Bytes(Scaled(p, z)) = <<p[2], p[1] % 2>>
<1>1. p[1] \in Fe /\ p[2] \in Fe /\ z \in Fe /\ z \in Int /\ z # 0
  BY PointIs, ScaleIs DEF Scale
<1>2. ASSUME NEW x \in Fe PROVE Times(Mod(x * z), Invert(z)) = x
  <2>1. x \in Int /\ x * z \in Int
    BY <1>1, ElementIs
  <2>2. PICK m \in Fe : m = Mod(x * z)
    BY <2>1, ModIs
  <2>3. m \in Int /\ Mod(m) = Mod(x * z)
    BY <2>2, ElementIs
  <2>4. Mod(x * z - m) = 0
    BY <2>1, <2>3, ModDifference
  <2> QED BY <1>1, <2>2, <2>4, QuotientIs
<1>3. Scaled(p, z).X = Mod(p[1] * z) /\ Scaled(p, z).Y = Mod(p[2] * z) /\ Scaled(p, z).Z = z
  BY Zenon, <1>1, ScaledFields
<1> QED BY Zenon, <1>1, <1>2, <1>3 DEF Bytes

\* Every comparison.
LEMMA InvEqualExact ==
  ASSUME PointInv
  PROVE  EqualExact
<1>1. SUFFICES ASSUME form = "P3", NEW p \in Points
      PROVE  LET affine == Scaled(p, 1)
                 same == pt = p
             IN /\ \A z \in Scales : \A verdict \in {Equal(acc, Scaled(p, z)), EqualX8(acc, Scaled(p, z)),
                     r51Equal(acc, Scaled(p, z)), r43Equal(acc, Scaled(p, z)), vendoredEqual(acc, Scaled(p, z))} :
                     verdict = same
                /\ \A verdict \in {EqualAffine(acc, affine), EqualAffineX8(acc, affine), r43EqualAffine(acc, affine),
                     EqualCompactAffine(acc, affine), EqualCompactAffineX8(acc, affine),
                     ExperimentalIFMAPointEqualAffineX8(acc, affine), ExperimentalIFMAPointEqualAffineX4(acc, affine)} :
                     verdict = same
                /\ \A verdict \in {IsIdentity(acc), IsIdentityX8(acc), r51IsIdentity(acc), r43IsIdentity(acc)} :
                     verdict = (pt = Neutral)
  BY Zenon DEF EqualExact
<1>2. pt \in Points /\ Neutral \in Points /\ 1 \in Scale
  BY FormsIs, NeutralIs, ScalesIn
<1>3. PICK u \in Scale : acc = Scaled(pt, u)
  BY <1>1, FormsIs DEF Extended
<1>4. ASSUME NEW q \in Points, NEW z \in Scale PROVE Equal(acc, Scaled(q, z)) = (pt = q)
  <2>1. Equal(Scaled(pt, u), Scaled(q, z)) <=> pt = q
    BY Zenon, <1>2, EqualIs
  <2> QED BY Zenon, <1>3, <2>1 DEF Equal
<1>5. EqualAffine(acc, Scaled(p, 1)) = (pt = p) /\ IsIdentity(acc) = (pt = Neutral)
  <2>1. (EqualAffine(Scaled(pt, u), Scaled(p, 1)) <=> pt = p) /\ (IsIdentity(Scaled(pt, u)) <=> pt = Neutral)
    BY Zenon, <1>2, EqualAffineIs
  <2> QED BY Zenon, <1>3, <2>1 DEF EqualAffine, IsIdentity
<1>6. \A z \in Scales : z \in Scale
  BY ScalesIn
<1>7. /\ \A z \in Scales : \A verdict \in {Equal(acc, Scaled(p, z)), EqualX8(acc, Scaled(p, z)),
           r51Equal(acc, Scaled(p, z)), r43Equal(acc, Scaled(p, z)), vendoredEqual(acc, Scaled(p, z))} : verdict = (pt = p)
  BY Zenon, <1>4, <1>6 DEF EqualX8, r51Equal, r43Equal, vendoredEqual
<1>8. EqualCompactAffine(acc, Scaled(p, 1)) = EqualAffine(acc, Scaled(p, 1))
  BY Zenon DEF EqualCompactAffine, EqualAffine
<1>9. \A verdict \in {EqualAffine(acc, Scaled(p, 1)), EqualAffineX8(acc, Scaled(p, 1)), r43EqualAffine(acc, Scaled(p, 1)),
        EqualCompactAffine(acc, Scaled(p, 1)), EqualCompactAffineX8(acc, Scaled(p, 1)),
        ExperimentalIFMAPointEqualAffineX8(acc, Scaled(p, 1)), ExperimentalIFMAPointEqualAffineX4(acc, Scaled(p, 1))} :
        verdict = (pt = p)
  BY Zenon, <1>5, <1>8 DEF EqualAffineX8, r43EqualAffine, EqualCompactAffineX8, ExperimentalIFMAPointEqualAffineX8,
     ExperimentalIFMAPointEqualAffineX4
<1>10. r43IsIdentity(acc) = (pt = Neutral)
  BY Zenon, <1>2, <1>4 DEF r43IsIdentity, r43Equal
<1>11. \A verdict \in {IsIdentity(acc), IsIdentityX8(acc), r51IsIdentity(acc), r43IsIdentity(acc)} : verdict = (pt = Neutral)
  BY Zenon, <1>5, <1>10 DEF IsIdentityX8, r51IsIdentity
<1> QED BY Zenon, <1>7, <1>9, <1>11

\* Every encoding.
LEMMA InvBytesExact ==
  ASSUME PointInv
  PROVE  BytesExact
<1>1. SUFFICES ASSUME form = "P3", NEW p \in Points
      PROVE  \A encoding \in {Bytes(acc), r43PointBytes(acc), vendoredBytes(acc)} : (encoding = <<p[2], p[1] % 2>>) = (pt = p)
  BY Zenon DEF BytesExact
<1>2. pt \in Points
  BY FormsIs
<1>3. PICK u \in Scale : acc = Scaled(pt, u)
  BY <1>1, FormsIs DEF Extended
<1>4. Bytes(acc) = <<pt[2], pt[1] % 2>>
  BY Zenon, <1>2, <1>3, BytesIs
<1>5. <<pt[2], pt[1] % 2>> = <<p[2], p[1] % 2>> <=> pt[2] = p[2] /\ pt[1] % 2 = p[1] % 2
  OBVIOUS
<1>6. (<<pt[2], pt[1] % 2>> = <<p[2], p[1] % 2>>) = (pt = p)
  BY Zenon, <1>2, <1>5, BytesTell
<1> QED BY Zenon, <1>4, <1>6 DEF r43PointBytes, vendoredBytes

\* After any operations, in any order, by any of the program's formulas and in
\* any of its coordinate systems, the accumulator stands for the point they sum
\* to, and every comparison and encoding depends on that point alone: for every
\* prime field in which -1 is a square and the curve's constant is none.
THEOREM PointAlwaysExact == PointSpec => []PointExact
<1>1. PointInit => PointInv
  BY PointInitInv
<1>2. PointInv /\ [PointNext]_pointVars => PointInv'
  <2>1. SUFFICES ASSUME PointInv, [PointNext]_pointVars PROVE PointInv'
    OBVIOUS
  <2>2. CASE UNCHANGED pointVars
    BY Zenon, <2>1, <2>2 DEF pointVars, PointInv, Extended, Projected
  <2>3. CASE PointNext
    BY Zenon, <2>1, <2>3, AddPointInv, AddCachedInv, AddIdentityInv, AddOddMultipleInv, DoublePointInv, TwoChainInv,
       DoubleToP2Inv, DoubleToP3Inv, DoubleToCompletedInv, AddCompletedInv, ConversionsInv, NegatePointInv,
       CofactorInv, SetExtendedCoordinatesInv DEF PointNext
  <2> QED BY <2>1, <2>2, <2>3
<1>3. PointInv => PointExact
  BY InvStandsFor, InvEqualExact, InvBytesExact DEF PointExact
<1> QED BY <1>1, <1>2, <1>3, PTL DEF PointSpec
=============================================================================
