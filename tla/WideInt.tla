------------------------------ MODULE WideInt ------------------------------
(***************************************************************************)
(* The fixed-width integers of the half-size selectors (internal/heea8l):  *)
(* unsigned numbers of Limbs words, signed numbers of one word more as a   *)
(* sign and a magnitude.  A number is the sequence of its words, least     *)
(* significant first; every operation works word by word with the carries  *)
(* and borrows of math/bits.                                               *)
(***************************************************************************)
EXTENDS Integers, Sequences, FiniteSetsExt

CONSTANTS WordBits, Limbs

WideIntAssumption == WordBits > 1 /\ Limbs > 1

Word == 2 ^ WordBits
Words == 0 .. (Word - 1)

\* The words of a result as a tuple, each evaluated once.
Tuple(words) == <<>> \o words
\* The words of n in a number of the given length, and the number of words x.
ToWords(n, len) == Tuple([i \in 1 .. len |-> (n \div Word ^ (i - 1)) % Word])
ToNumber(x) ==
  LET sum[i \in 0 .. Len(x)] == IF i = 0 THEN 0 ELSE sum[i - 1] + x[i] * Word ^ (i - 1)
  IN sum[Len(x)]
Zero(len) == Tuple([i \in 1 .. len |-> 0])
isZero(x) == \A i \in DOMAIN x : x[i] = 0

\* The highest word that differs decides.
cmp(x, y) ==
  LET differing == {i \in DOMAIN x : x[i] # y[i]}
  IN IF differing = {} THEN 0
     ELSE IF x[Max(differing)] < y[Max(differing)] THEN -1 ELSE 1

Len64(w) == CHOOSE n \in 0 .. WordBits : w < 2 ^ n /\ (n = 0 \/ w >= 2 ^ (n - 1))

bitLen(x) ==
  LET used == {i \in DOMAIN x : x[i] # 0}
  IN IF used = {} THEN 0 ELSE (Max(used) - 1) * WordBits + Len64(x[Max(used)])

significantLimbs(x) ==
  LET used == {i \in DOMAIN x : x[i] # 0} IN IF used = {} THEN 0 ELSE Max(used)

\* bits.Add64 along the words.
add(x, y) ==
  LET carry[i \in 0 .. Len(x)] ==
        IF i = 0 THEN 0 ELSE (x[i] + y[i] + carry[i - 1]) \div Word
  IN [value |-> Tuple([i \in DOMAIN x |-> (x[i] + y[i] + carry[i - 1]) % Word]), out |-> carry[Len(x)]]

sub(x, y) ==
  LET borrow[i \in 0 .. Len(x)] ==
        IF i = 0 THEN 0 ELSE IF x[i] - y[i] - borrow[i - 1] < 0 THEN 1 ELSE 0
  IN [value |-> Tuple([i \in DOMAIN x |-> (x[i] - y[i] - borrow[i - 1]) % Word]), out |-> borrow[Len(x)]]

-----------------------------------------------------------------------------
(* Shifts. *)

\* The low Len(x) words of x * 2^shift.
shl256(x, shift) ==
  LET words == shift \div WordBits   rest == shift % WordBits
  IN Tuple([d \in DOMAIN x |->
        IF d <= words THEN 0
        ELSE ((x[d - words] * 2 ^ rest) % Word)
             + (IF rest # 0 /\ d - words > 1 THEN x[d - words - 1] \div 2 ^ (WordBits - rest) ELSE 0)])

shr1_256(x) ==
  Tuple([i \in DOMAIN x |-> (x[i] \div 2) + (IF i < Len(x) THEN (x[i + 1] % 2) * (Word \div 2) ELSE 0)])

\* The same shift, source word by source word; out tells that a set bit fell off.
shl320(x, shift) ==
  LET words == shift \div WordBits   rest == shift % WordBits
      high(i) == IF rest = 0 THEN 0 ELSE x[i] \div 2 ^ (WordBits - rest)
      low(i) == (x[i] * 2 ^ rest) % Word
      lost == \E i \in DOMAIN x : x[i] # 0 /\
                 (i + words > Len(x) \/ (i + words = Len(x) /\ high(i) # 0))
  IN [value |-> Tuple([d \in DOMAIN x |->
                   (IF d - words \in DOMAIN x THEN low(d - words) ELSE 0)
                   + (IF d - words - 1 \in DOMAIN x THEN high(d - words - 1) ELSE 0)]),
      out |-> IF lost THEN 1 ELSE 0]

\* One word of x from bit position shift on.
shiftedLow64(x, shift) ==
  IF shift >= Len(x) * WordBits THEN 0
  ELSE LET word == (shift \div WordBits) + 1   offset == shift % WordBits
       IN (x[word] \div 2 ^ offset)
          + (IF offset # 0 /\ word < Len(x) THEN (x[word + 1] * 2 ^ (WordBits - offset)) % Word ELSE 0)

-----------------------------------------------------------------------------
(* Products. *)

\* x times one word; out is the word that did not fit.
mulWord(x, w) ==
  LET carry[i \in 0 .. Len(x)] == IF i = 0 THEN 0 ELSE (x[i] * w + carry[i - 1]) \div Word
  IN [value |-> Tuple([i \in DOMAIN x |-> (x[i] * w + carry[i - 1]) % Word]), out |-> carry[Len(x)]]

\* wide with v added at word i, the carry rippling up.
AddAt(wide, i, v) ==
  LET carry[j \in (i - 1) .. Len(wide)] ==
        IF j < i THEN 0
        ELSE (wide[j] + (IF j = i THEN v ELSE 0) + carry[j - 1]) \div Word
  IN Tuple([j \in DOMAIN wide |->
        IF j < i THEN wide[j] ELSE (wide[j] + (IF j = i THEN v ELSE 0) + carry[j - 1]) % Word])

\* Schoolbook, over the words in use only; out tells that the high half is not zero.
mul256(x, y) ==
  LET n == Len(x)
      used == significantLimbs(y)
      total == significantLimbs(x) * used
      wide[step \in 0 .. total] ==
        IF step = 0 THEN Zero(2 * n)
        ELSE LET i == ((step - 1) \div used) + 1
                 j == ((step - 1) % used) + 1
                 product == x[i] * y[j]
                 before == wide[step - 1]
                 withLow == AddAt(before, i + j - 1, product % Word)
             IN AddAt(withLow, i + j, product \div Word)
      full == wide[total]
  IN [value |-> SubSeq(full, 1, n), out |-> IF isZero(SubSeq(full, n + 1, 2 * n)) THEN 0 ELSE 1]

-----------------------------------------------------------------------------
(* Division; the divisor is not zero. *)

\* bits.Div64 from the top word down, by a divisor of one word.
ShortDivide(numerator, w) ==
  LET n == Len(numerator)
      rest[i \in 1 .. (n + 1)] ==
        IF i = n + 1 THEN 0 ELSE (rest[i + 1] * Word + numerator[i]) % w
  IN [quotient |-> Tuple([i \in 1 .. n |-> (rest[i + 1] * Word + numerator[i]) \div w]),
      remainder |-> Tuple([i \in 1 .. n |-> IF i = 1 THEN rest[1] ELSE 0])]

SetBit(x, i) == [x EXCEPT ![(i \div WordBits) + 1] = @ + 2 ^ (i % WordBits)]

\* One quotient bit for each shift of the divisor, from its alignment down to 0.
LongDivide(numerator, denominator) ==
  LET top == bitLen(numerator) - bitLen(denominator)
      state[shift \in 0 .. (top + 1)] ==
        IF shift = top + 1
          THEN [quotient |-> Zero(Len(numerator)), remainder |-> numerator,
                shifted |-> shl256(denominator, top)]
          ELSE LET before == state[shift + 1]
                   less == cmp(before.remainder, before.shifted) < 0
               IN [quotient |-> IF less THEN before.quotient ELSE SetBit(before.quotient, shift),
                   remainder |-> IF less THEN before.remainder
                                 ELSE sub(before.remainder, before.shifted).value,
                   shifted |-> shr1_256(before.shifted)]
      last == state[0]
  IN [quotient |-> last.quotient, remainder |-> last.remainder]

divMod256(numerator, denominator) ==
  IF cmp(numerator, denominator) < 0
    THEN [quotient |-> Zero(Len(numerator)), remainder |-> numerator]
  ELSE IF significantLimbs(denominator) = 1 THEN ShortDivide(numerator, denominator[1])
  ELSE LongDivide(numerator, denominator)

\* The restoring division kept as an oracle, with one word more for the remainder.
divMod256BitwiseOracle(numerator, denominator) ==
  LET n == Len(numerator)
      den == Append(denominator, 0)
      bit(i) == (numerator[(i \div WordBits) + 1] \div 2 ^ (i % WordBits)) % 2
      state[i \in 0 .. n * WordBits] ==
        IF i = n * WordBits THEN [quotient |-> Zero(n), wide |-> Zero(n + 1)]
        ELSE LET before == state[i + 1]
                 shifted == add(shl256(before.wide, 1), ToWords(bit(i), n + 1)).value
             IN IF cmp(shifted, den) >= 0
                  THEN [quotient |-> SetBit(before.quotient, i), wide |-> sub(shifted, den).value]
                  ELSE [quotient |-> before.quotient, wide |-> shifted]
      last == state[0]
  IN [quotient |-> last.quotient, remainder |-> SubSeq(last.wide, 1, n)]

-----------------------------------------------------------------------------
(* Signed numbers: neg and mag.  out of a result says that it does not fit. *)

Signed(mag, neg) == [mag |-> mag, neg |-> neg]
SignedZero(len) == Signed(Zero(len), FALSE)
ToSigned(n, len) == Signed(ToWords(IF n < 0 THEN -n ELSE n, len), n < 0)
ToInteger(s) == IF s.neg THEN -ToNumber(s.mag) ELSE ToNumber(s.mag)

newSigned256(mag, neg) == Signed(mag, neg /\ ~ isZero(mag))
negate(s) == newSigned256(s.mag, ~ s.neg)

\* x minus a number of its own sign and the given magnitude: the larger
\* magnitude gives the sign.
Difference(x, mag) ==
  CASE cmp(x.mag, mag) = -1 -> LET d == sub(mag, x.mag) IN [value |-> Signed(d.value, ~ x.neg), out |-> d.out]
    [] cmp(x.mag, mag) = 0 -> [value |-> SignedZero(Len(mag)), out |-> 0]
    [] OTHER -> LET d == sub(x.mag, mag) IN [value |-> Signed(d.value, x.neg), out |-> d.out]

\* x minus the number of sign neg and magnitude mag.
Minus(x, mag, neg) ==
  IF x.neg # neg THEN LET s == add(x.mag, mag) IN [value |-> Signed(s.value, x.neg), out |-> s.out]
  ELSE Difference(x, mag)

subSigned320(x, y) == Minus(x, y.mag, y.neg)

subShifted320(x, y, shift) ==
  LET shifted == shl320(y.mag, shift)
  IN IF shifted.out # 0 THEN [value |-> SignedZero(Len(x.mag)), out |-> 1]
     ELSE Minus(x, shifted.value, y.neg)

addShifted320(x, y, shift) ==
  LET shifted == shl320(y.mag, shift)
  IN IF shifted.out # 0 THEN [value |-> SignedZero(Len(x.mag)), out |-> 1]
     ELSE subSigned320(x, negate(Signed(shifted.value, y.neg)))

subMulUint64Signed320(x, y, w) ==
  LET product == mulWord(y.mag, w)
  IN IF w = 0 \/ isZero(y.mag) THEN [value |-> x, out |-> 0]
     ELSE IF product.out # 0 THEN [value |-> SignedZero(Len(x.mag)), out |-> 1]
     ELSE Minus(x, product.value, y.neg)

\* The panic on a carry is out = 1.
addSigned256(x, y) ==
  IF x.neg = y.neg
    THEN LET s == add(x.mag, y.mag) IN [value |-> newSigned256(s.value, x.neg), out |-> s.out]
  ELSE CASE cmp(x.mag, y.mag) = -1 -> [value |-> newSigned256(sub(y.mag, x.mag).value, y.neg), out |-> 0]
         [] cmp(x.mag, y.mag) = 0 -> [value |-> SignedZero(Len(x.mag)), out |-> 0]
         [] OTHER -> [value |-> newSigned256(sub(x.mag, y.mag).value, x.neg), out |-> 0]

compareSigned256(x, y) ==
  IF x.neg # y.neg THEN (IF x.neg THEN -1 ELSE 1)
  ELSE IF x.neg THEN -cmp(x.mag, y.mag) ELSE cmp(x.mag, y.mag)

\* The sum of two products of magnitude and sign; a zero product has no sign.
addLehmerProducts(left, leftNegative, right, rightNegative) ==
  IF isZero(left)
    THEN [value |-> IF isZero(right) THEN SignedZero(Len(left)) ELSE Signed(right, rightNegative), out |-> 0]
  ELSE IF isZero(right) THEN [value |-> Signed(left, leftNegative), out |-> 0]
  ELSE Minus(Signed(left, leftNegative), right, ~ rightNegative)

\* One entry of the matrix applied to a pair of numbers: x * m + y * n.
LehmerEntry(x, m, y, n) ==
  LET px == mulWord(x.mag, IF m < 0 THEN -m ELSE m)
      py == mulWord(y.mag, IF n < 0 THEN -n ELSE n)
  IN IF px.out # 0 \/ py.out # 0 THEN [value |-> SignedZero(Len(x.mag)), out |-> 1]
     ELSE addLehmerProducts(px.value, x.neg # (m < 0), py.value, y.neg # (n < 0))

mulSigned320Int64(x, m) ==
  LET product == mulWord(x.mag, IF m < 0 THEN -m ELSE m)
      signed == Signed(product.value, x.neg)
  IN IF m = 0 \/ isZero(x.mag) THEN [value |-> SignedZero(Len(x.mag)), out |-> 0]
     ELSE [value |-> IF m < 0 THEN negate(signed) ELSE signed, out |-> IF product.out = 0 THEN 0 ELSE 1]

\* The form the fused pass is tested against.
combine320(x, m, y, n) ==
  LET left == mulSigned320Int64(x, m)
      right == mulSigned320Int64(y, n)
  IN IF left.out # 0 \/ right.out # 0 THEN [value |-> SignedZero(Len(x.mag)), out |-> 1]
     ELSE subSigned320(left.value, negate(right.value))

-----------------------------------------------------------------------------
(* Against the integers. *)

Size == Word ^ Limbs
Bits == Limbs * WordBits
BitLength(v) == CHOOSE b \in 0 .. Bits : v < 2 ^ b /\ (b = 0 \/ v >= 2 ^ (b - 1))
Abs(v) == IF v < 0 THEN -v ELSE v
\* The one-word factors tried, of either sign.
Factors == {-3, -1, 0, 2, 3}

\* The result r of u + v: exact when its flag is clear, and the flag is clear
\* whenever both terms and the sum of their magnitudes fit.
IsSum(r, u, v) ==
  /\ r.out = 0 => ToInteger(r.value) = u + v
  /\ Abs(u) + Abs(v) < Word ^ (Limbs + 1) => r.out = 0

\* add256, sub256, cmp, and mul256 give the low words of the
\* integer result and report exactly when it does not fit.
UnsignedExact(m, n) ==
  LET X == ToWords(m, Limbs)   Y == ToWords(n, Limbs)
      sum == add(X, Y)   diff == sub(X, Y)   prod == mul256(X, Y) IN
  /\ ToNumber(sum.value) + sum.out * Size = m + n
  /\ ToNumber(diff.value) - diff.out * Size = m - n
  /\ ToNumber(prod.value) = (m * n) % Size /\ (prod.out = 0) = (m * n < Size)
  /\ cmp(X, Y) = IF m < n THEN -1 ELSE IF m = n THEN 0 ELSE 1

\* The shifts by any amount: shl256 drops what leaves the number, shl320 reports
\* it, shr1_256 halves, and shiftedLow64 reads one word at any bit position.
ShiftsExact(m, n) ==
  n <= Bits =>
    LET X == ToWords(m, Limbs)
        wide == shl320(X, n) IN
    /\ ToNumber(shl256(X, n)) = (m * 2 ^ n) % Size
    /\ ToNumber(wide.value) = (m * 2 ^ n) % Size /\ (wide.out = 0) = (m * 2 ^ n < Size)
    /\ ToNumber(shr1_256(X)) = m \div 2
    /\ shiftedLow64(X, n) = (m \div 2 ^ n) % Word
    /\ bitLen(X) = BitLength(m)

\* Both branches of divMod256, and the restoring oracle it is tested against,
\* give the quotient and the remainder.
DivisionExact(m, n) ==
  n # 0 =>
    LET X == ToWords(m, Limbs)   Y == ToWords(n, Limbs)
        fast == divMod256(X, Y)   slow == divMod256BitwiseOracle(X, Y) IN
    /\ ToNumber(fast.quotient) = m \div n /\ ToNumber(fast.remainder) = m % n
    /\ slow = fast

\* Every signed operation of the coefficient rows is exact or reports that its
\* result does not fit, whatever the signs and the magnitudes, a zero operand
\* and a cancellation included.
SignedExact(m, n) ==
  \A sx, sy \in {1, -1} :
    LET x == ToSigned(sx * m, Limbs + 1)
        y == ToSigned(sy * n, Limbs + 1)
        a == ToSigned(sx * m, Limbs)
        b == ToSigned(sy * n, Limbs) IN
    /\ IsSum(subSigned320(x, y), sx * m, -(sy * n))
    /\ \A shift \in 0 .. WordBits + 1 :
         /\ IsSum(subShifted320(x, y, shift), sx * m, -(sy * n * 2 ^ shift))
         /\ IsSum(addShifted320(x, y, shift), sx * m, sy * n * 2 ^ shift)
    /\ \A w \in Factors :
         /\ w >= 0 => IsSum(subMulUint64Signed320(x, y, w), sx * m, -(sy * n * w))
         /\ \A v \in Factors :
              LET entry == LehmerEntry(x, w, y, v) IN
              IsSum(entry, sx * m * w, sy * n * v) /\ combine320(x, w, y, v) = entry
    /\ LET s == addSigned256(a, b) IN
       (s.out = 0) = (ToNumber(a.mag) + ToNumber(b.mag) < Size \/ sx * m * sy * n < 0)
       /\ (s.out = 0 => s.value = ToSigned(sx * m + sy * n, Limbs))
    /\ compareSigned256(a, b) = IF sx * m < sy * n THEN -1 ELSE IF sx * m = sy * n THEN 0 ELSE 1

=============================================================================
