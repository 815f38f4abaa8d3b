------------------------------ MODULE Encoding ------------------------------
(***************************************************************************)
(* The byte-level predicates that accept or reject encodings before any    *)
(* curve arithmetic: internal/sigprep/encoding.go, its copy in             *)
(* r51x5/packed_strict_ifma.go, and the scalar comparisons of the vendored *)
(* and r43x6 scalars.  An encoding is ByteCount bytes of ByteBits bits,    *)
(* little endian; the high bit is the sign of x, the rest is y.  The       *)
(* modulus is 2^(bits of y) - Gap, so all its bytes but the lowest are     *)
(* full, as those of 2^255 - 19 are.  A behaviour takes the strings one    *)
(* after another.                                                          *)
(***************************************************************************)
EXTENDS Integers, Sequences

CONSTANTS
  ByteBits, ByteCount,
  Gap,         \* p = 2^(ByteBits * ByteCount - 1) - Gap
  D,           \* the curve -x^2 + y^2 = 1 + D x^2 y^2
  Alpha,       \* y of a point of order eight
  ScalarOrder  \* the prime order of the subgroup

Radix == 2 ^ ByteBits
Last == ByteCount
SignWeight == 2 ^ (ByteBits * ByteCount - 1)
Modulus == SignWeight - Gap
NegAlpha == Modulus - Alpha

\* Byte i, from 1, of a number.
Weight(i) == 2 ^ (ByteBits * (i - 1))
ByteOf(n, i) == (n \div Weight(i)) % Radix
BytesOf(n) == [i \in 1 .. ByteCount |-> ByteOf(n, i)]
Prefixes(b) ==
  LET sum[i \in 0 .. ByteCount] == IF i = 0 THEN 0 ELSE sum[i - 1] + b[i] * Weight(i) IN sum
Number(b) == Prefixes(b)[ByteCount]

Full == Radix - 1
HighBit == 2 ^ (ByteBits - 1)
LowBits(byte) == byte % HighBit
SignSet(b) == b[Last] >= HighBit

low255TailEqual(b, middle, last) ==
  LowBits(b[Last]) = last /\ \A i \in 2 .. (Last - 1) : b[i] = middle

low255Equal(b, want) ==
  LowBits(b[Last]) = want[Last] /\ \A i \in 1 .. (Last - 1) : b[i] = want[i]

\* Mutant: the alias p + 1 of the identity is forgotten.
SmallOrderWithoutAlias(b) ==
  CASE b[1] \in {0, 1} -> low255TailEqual(b, 0, 0)
    [] b[1] = ByteOf(NegAlpha, 1) -> low255Equal(b, BytesOf(NegAlpha))
    [] b[1] = ByteOf(Alpha, 1) -> low255Equal(b, BytesOf(Alpha))
    [] b[1] \in {Radix - Gap - 1, Radix - Gap} -> low255TailEqual(b, Full, HighBit - 1)
    [] OTHER -> FALSE

\* The first byte tells the seven values 0, 1, p-1, p, p+1 and the two of order
\* eight apart.
SmallOrderEncoding(b) ==
  CASE b[1] \in {0, 1} -> low255TailEqual(b, 0, 0)
    [] b[1] = ByteOf(NegAlpha, 1) -> low255Equal(b, BytesOf(NegAlpha))
    [] b[1] = ByteOf(Alpha, 1) -> low255Equal(b, BytesOf(Alpha))
    [] b[1] \in {Radix - Gap - 1, Radix - Gap, Radix - Gap + 1} -> low255TailEqual(b, Full, HighBit - 1)
    [] OTHER -> FALSE

low255LessThanP(b) ==
  \/ LowBits(b[Last]) # HighBit - 1
  \/ \E i \in 2 .. (Last - 1) : b[i] # Full
  \/ b[1] < Radix - Gap

CanonicalREncoding(r) ==
  /\ low255LessThanP(r)
  /\ SignSet(r) =>
       /\ ~ (r[1] = 1 /\ low255TailEqual(r, 0, 0))
       /\ ~ (r[1] = Radix - Gap - 1 /\ low255TailEqual(r, Full, HighBit - 1))

\* The copies of the packed verifier.
packedEncodesSmallOrderPoint(b) == SmallOrderEncoding(b)
packedCanonicalREncoding(r) == CanonicalREncoding(r)

\* The most significant byte that differs decides; 0 when none does.
HighestDifference(x, y) ==
  LET diff == {i \in 1 .. ByteCount : x[i] # y[i]}
  IN IF diff = {} THEN 0 ELSE CHOOSE i \in diff : \A j \in diff : j <= i

CanonicalScalarEncoding(s) ==
  LET i == HighestDifference(s, BytesOf(ScalarOrder)) IN i # 0 /\ s[i] < ByteOf(ScalarOrder, i)

\* The r51x5 and r43x6 comparisons with the order, and the vendored one with the
\* order minus one, where equality is accepted.
canonicalScalarBytes(s) == CanonicalScalarEncoding(s)
lessLittleEndian(s) == CanonicalScalarEncoding(s)
isReduced(s) ==
  LET i == HighestDifference(s, BytesOf(ScalarOrder - 1))
  IN i = 0 \/ s[i] < ByteOf(ScalarOrder - 1, i)

-----------------------------------------------------------------------------
(* Against the arithmetic of the field and the curve. *)

Mul(x, y) == (x * y) % Modulus
Sq(x) == Mul(x, x)

\* Euler's criterion.
IsSquare(x) ==
  LET power[e \in 0 .. Modulus] ==
        IF e = 0 THEN 1
        ELSE LET half == power[e \div 2] IN IF e % 2 = 0 THEN Sq(half) ELSE Mul(Sq(half), x)
  IN power[(Modulus - 1) \div 2] \in {0, 1}

\* What the permissive decoder reads: y modulo p, the sign apart.
Y(b) == (Number(b) % SignWeight) % Modulus

\* x^2 = (y^2 - 1) / (D y^2 + 1), the denominator is never zero.
U(y) == (Sq(y) + Modulus - 1) % Modulus
V(y) == (Mul(D, Sq(y)) + 1) % Modulus
OnCurve(y) == IsSquare(Mul(U(y), V(y)))

\* The y of the double of a point with y = n / m, as a fraction: x^2 is rational
\* in y, and y(2P) = (y^2 + x^2) / (1 - D x^2 y^2).
DoubleY(f) ==
  LET n2 == Sq(f.n)   m2 == Sq(f.m)
      xn == (n2 + Modulus - m2) % Modulus
      xm == (Mul(D, n2) + m2) % Modulus
  IN [n |-> Mul((Mul(n2, xm) + Mul(xn, m2)) % Modulus, m2),
      m |-> Mul((Mul(m2, xm) + Modulus - Mul(D, Mul(n2, xn))) % Modulus, m2)]
EightTimes(y) ==
  LET double[i \in 0 .. 3] == IF i = 0 THEN [n |-> y, m |-> 1]
                              ELSE LET before == double[i - 1] IN DoubleY(before)
  IN double[3]
SmallOrder(y) == OnCurve(y) /\ LET times == EightTimes(y) IN times.n = times.m

\* What the comments of encoding.go say of the curve and of the constants: the
\* y of the points of order dividing eight, none of order eight with an alias;
\* x is zero for two of them only; and the first bytes tell the seven apart.
ASSUME EncodingAssumption ==
  /\ ByteBits \in Nat /\ ByteBits > 1 /\ ByteCount \in Nat /\ ByteCount > 2
  /\ Gap \in 2 .. (Radix - 3) /\ Alpha \in Gap .. (Modulus - Gap) /\ ScalarOrder \in 2 .. (Modulus - 1)
  /\ \A y \in 0 .. (Modulus - 1) : SmallOrder(y) <=> y \in {0, 1, Modulus - 1, Alpha, NegAlpha}
  /\ \A y \in 0 .. (Modulus - 1) : Sq(y) = 1 => y \in {1, Modulus - 1}
  /\ ByteOf(Alpha, 1) # ByteOf(NegAlpha, 1)
  /\ {ByteOf(Alpha, 1), ByteOf(NegAlpha, 1)} \cap {0, 1, Radix - Gap - 1, Radix - Gap, Radix - Gap + 1} = {}

\* SmallOrderEncoding holds exactly for the strings that the permissive decoder
\* maps to a point of order dividing eight, in every alias and with either
\* sign: decided from bytes alone, with no curve arithmetic.
SmallOrderExact(b) ==
  LET small == SmallOrder(Y(b)) IN
  SmallOrderEncoding(b) = small /\ packedEncodesSmallOrderPoint(b) = small

\* A string that decodes passes CanonicalREncoding exactly when encoding the
\* decoded point gives the same bytes back, which is what the backends that
\* compare encodings check.
CanonicalRExact(b) ==
  OnCurve(Y(b)) =>
    LET sign == SignSet(b) /\ Sq(Y(b)) # 1
        again == BytesOf(Y(b) + (IF sign THEN SignWeight ELSE 0)) IN
    CanonicalREncoding(b) = (b = again) /\ packedCanonicalREncoding(b) = (b = again)

\* Every scalar comparison in the repository accepts exactly the numbers below
\* the order.
ScalarExact(b) ==
  LET below == Number(b) < ScalarOrder IN
  /\ CanonicalScalarEncoding(b) = below /\ canonicalScalarBytes(b) = below
  /\ lessLittleEndian(b) = below /\ isReduced(b) = below

-----------------------------------------------------------------------------
VARIABLE encoding   \* the string, or none

EncodingInit == encoding \in {s \in [1 .. ByteCount -> 0 .. Full] : s[1] = 0}
\* The next string.
EncodingNext == encoding # <<>> /\ encoding[1] < Full /\ encoding' = [encoding EXCEPT ![1] = @ + 1]
EncodingSpec == EncodingInit /\ [][EncodingNext]_encoding

\* The byte rules decide exactly what they stand for: small order in every
\* alias, the encoding of the decoded point itself, a scalar below the order.
EncodingExact ==
  encoding # <<>> => SmallOrderExact(encoding) /\ CanonicalRExact(encoding) /\ ScalarExact(encoding)

=============================================================================
