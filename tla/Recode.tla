------------------------------- MODULE Recode -------------------------------
(***************************************************************************)
(* The signed-digit recodings of public scalars: fixed-length balanced     *)
(* radix (r51x5/scalar_fixed.go, fixed_base_comb.go,                       *)
(* asymmetric_fixed_b_dsm.go, edwards25519/scalar.go), variable-length     *)
(* radix (r51x5/scalar_window.go) and width-w non-adjacent form (three     *)
(* copies).  Widths are scaled: a scalar is stored in StorageBits bits,    *)
(* read back by bytes of ByteBits or words of WordBits, and canonical      *)
(* below Order, which needs ScalarBits bits.                               *)
(***************************************************************************)
EXTENDS Integers, Sequences, FiniteSets, FiniteSetsExt

CONSTANTS ByteBits, WordBits, StorageBits, ScalarBits, Order, RoundCount

RecodeAssumption ==
  /\ ByteBits \in Nat \ {0} /\ WordBits \in Nat \ {0} /\ StorageBits \in Nat \ {0}
  /\ WordBits % ByteBits = 0 /\ StorageBits % WordBits = 0
  /\ ScalarBits \in 1 .. StorageBits
  /\ Order \in Nat /\ 2 ^ (ScalarBits - 1) < Order /\ Order < 2 ^ ScalarBits
  /\ \A w \in DOMAIN RoundCount : w \in Nat /\ RoundCount[w] \in Nat /\ RoundCount[w] * w > ScalarBits

canonicalScalarBytes(x) == x < Order

Storage == 2 ^ StorageBits
Shr(x, n) == x \div 2 ^ n
Low(x, n) == x % 2 ^ n

\* fixedScalarBits: two bytes around the bit, none read past the storage.
fixedScalarBits(x, bit, width) ==
  LET byte == bit \div ByteBits
      word == Low(Shr(x, byte * ByteBits), 2 * ByteBits)
  IN Low(Shr(word, bit % ByteBits), width)

\* asymmetricFixedBScalarWordBits: one word, and the next (the last one is a
\* guard of zeros) when the digit crosses into it.
asymmetricFixedBScalarWordBits(x, bit, width) ==
  LET word(i) == Low(Shr(x, i * WordBits), WordBits)
      i == bit \div WordBits
      shift == bit % WordBits
      low == Shr(word(i), shift)
      value == IF shift + width > WordBits
               THEN low + word(i + 1) * 2 ^ (WordBits - shift) ELSE low
  IN Low(value, width)

\* The n digits of raw recentred to [-2^(w-1), 2^(w-1)), low to high, and
\* the carry that is left.
Balanced(raw, w, n) ==
  LET carry[i \in 0 .. n] ==
        IF i = 0 THEN 0 ELSE Shr(raw[i - 1] + carry[i - 1] + 2 ^ (w - 1), w)
  IN [digits |-> [i \in 0 .. (n - 1) |-> raw[i] + carry[i] - carry[i + 1] * 2 ^ w],
      carry |-> carry[n]]

\* recodeFixedScalarX4 and the x8 loop; negative is an exact integer sign.
RecodeCanonicalScalar(x, w, negative) ==
  LET raw == [i \in 0 .. (RoundCount[w] - 1) |-> fixedScalarBits(x, i * w, w)]
      r == Balanced(raw, w, RoundCount[w])
  IN [r EXCEPT !.digits = [i \in DOMAIN r.digits |-> IF negative THEN -r.digits[i] ELSE r.digits[i]]]

\* recodeCanonicalNegatedRadix32FullX8: its own extraction, and no read past
\* the last byte.
RecodeNegatedFull(x, w) ==
  LET last == StorageBits \div ByteBits - 1
      digit(i) == LET byte == (i * w) \div ByteBits
                      word == Low(Shr(x, byte * ByteBits),
                                  IF byte < last THEN 2 * ByteBits ELSE ByteBits)
                  IN Low(Shr(word, (i * w) % ByteBits), w)
      raw == [i \in 0 .. (RoundCount[w] - 1) |-> digit(i)]
      r == Balanced(raw, w, RoundCount[w])
  IN [r EXCEPT !.digits = [i \in DOMAIN r.digits |-> -r.digits[i]]]

\* recodeFixedBaseLaneX4, recodeFixedBaseScalarsX8 and the full x8 form: a
\* whole byte is one digit.
RecodeFixedBaseBytes(x) ==
  LET n == StorageBits \div ByteBits
  IN Balanced([i \in 0 .. (n - 1) |-> Low(Shr(x, i * ByteBits), ByteBits)], ByteBits, n)

\* The other radices of that comb extract their digits bit by bit.
RecodeFixedBase(x, w) ==
  LET raw == [i \in 0 .. (RoundCount[w] - 1) |-> fixedScalarBits(x, i * w, w)]
  IN Balanced(raw, w, RoundCount[w])

\* recodeAsymmetricFixedBScalarsX4.
asymmetricFixedBRoundCount(w) == (ScalarBits + w - 1) \div w

RecodeAsymmetric(x, w, negative) ==
  LET n == asymmetricFixedBRoundCount(w)
      r == Balanced([i \in 0 .. (n - 1) |-> asymmetricFixedBScalarWordBits(x, i * w, w)], w, n)
  IN [r EXCEPT !.digits = [i \in DOMAIN r.digits |-> IF negative THEN -r.digits[i] ELSE r.digits[i]]]

\* signedRadix16 of the vendored scalar: half-byte digits, and the top digit
\* keeps its carry.
signedRadix16(x) ==
  LET w == ByteBits \div 2
      n == StorageBits \div w
      raw == [i \in 0 .. (n - 1) |-> Low(Shr(x, i * w), w)]
      r == Balanced(raw, w, n - 1)
  IN [i \in 0 .. (n - 1) |-> IF i = n - 1 THEN raw[i] + r.carry ELSE r.digits[i]]

BitLen(x) == CHOOSE n \in 0 .. x : x < 2 ^ n /\ (n > 0 => x >= 2 ^ (n - 1))

\* RecodeRegularRadix: as many digits as the magnitude has, one more when the
\* last one carries; the sign of x is applied to every digit.
RecodeRegularRadix(x, w) ==
  LET a == IF x < 0 THEN -x ELSE x
      n == Max({1, (BitLen(a) + w - 1) \div w})
      r == Balanced([i \in 0 .. (n - 1) |-> fixedScalarBits(a, i * w, w)], w, n)
      all == [i \in 0 .. (IF r.carry = 0 THEN n - 1 ELSE n) |->
                IF i = n THEN r.carry ELSE r.digits[i]]
  IN [i \in DOMAIN all |-> IF x < 0 THEN -all[i] ELSE all[i]]

\* The window of a NAF position: bits of one word, or joined with the next.
NafWindow(x, pos, w) ==
  LET word(i) == Low(Shr(x, i * WordBits), WordBits)
      i == pos \div WordBits
      bit == pos % WordBits
      buffer == IF bit < WordBits - w THEN Shr(word(i), bit)
                ELSE Shr(word(i), bit) + word(i + 1) * 2 ^ (WordBits - bit)
  IN Low(buffer, w)

\* Mutant: an even window clears the carry.
NafCarryLost(x, w) ==
  LET st[p \in 0 .. StorageBits] ==
        IF p = 0 THEN [skip |-> 0, carry |-> 0, digit |-> 0]
        ELSE LET q == st[p - 1]
                 window == q.carry + NafWindow(x, p - 1, w)
             IN IF q.skip > 0 THEN [skip |-> q.skip - 1, carry |-> q.carry, digit |-> 0]
                ELSE IF window % 2 = 0 THEN [skip |-> 0, carry |-> 0, digit |-> 0]
                ELSE IF window < 2 ^ (w - 1)
                     THEN [skip |-> w - 1, carry |-> 0, digit |-> window]
                     ELSE [skip |-> w - 1, carry |-> 1, digit |-> window - 2 ^ w]
  IN [i \in 0 .. (StorageBits - 1) |-> st[i + 1].digit]

\* nonAdjacentForm of the vendored scalar.  st[p + 1] is the state after
\* position p: positions still skipped, the carry, the digit written at p.
nonAdjacentForm(x, w) ==
  LET st[p \in 0 .. StorageBits] ==
        IF p = 0 THEN [skip |-> 0, carry |-> 0, digit |-> 0]
        ELSE LET q == st[p - 1]
                 window == q.carry + NafWindow(x, p - 1, w)
             IN IF q.skip > 0 THEN [skip |-> q.skip - 1, carry |-> q.carry, digit |-> 0]
                ELSE IF window % 2 = 0 THEN [skip |-> 0, carry |-> q.carry, digit |-> 0]
                ELSE IF window < 2 ^ (w - 1)
                     THEN [skip |-> w - 1, carry |-> 0, digit |-> window]
                     ELSE [skip |-> w - 1, carry |-> 1, digit |-> window - 2 ^ w]
  IN [i \in 0 .. (StorageBits - 1) |-> st[i + 1].digit]

\* The copies of the r43x6 kernels and of the packed verifier.
R43NonAdjacentForm(x, w) == nonAdjacentForm(x, w)
RecodeQuadCanonicalNAF(x, w) == nonAdjacentForm(x, w)

-----------------------------------------------------------------------------

\* The number digits of width w stand for.
Value(digits, w) ==
  LET n == Cardinality(DOMAIN digits)
      sum[i \in 0 .. n] == IF i = 0 THEN 0 ELSE sum[i - 1] + digits[i - 1] * 2 ^ (w * (i - 1))
  IN sum[n]

\* The balanced recoders stand for exactly plus or minus the scalar, never
\* leave a carry (the panics of scalar_fixed.go, fixed_base_comb.go and
\* asymmetric_fixed_b_dsm.go are unreachable), and every digit has an entry in
\* a table of 2^(w-1) multiples.
BalancedExact(x, widths) ==
  canonicalScalarBytes(x) =>
    /\ \A w \in DOMAIN RoundCount, negative \in BOOLEAN :
         LET r == RecodeCanonicalScalar(x, w, negative) IN
         /\ r.carry = 0 /\ Value(r.digits, w) = (IF negative THEN -x ELSE x)
         /\ \A i \in DOMAIN r.digits : r.digits[i] \in (-(2 ^ (w - 1))) .. (2 ^ (w - 1))
         /\ RecodeNegatedFull(x, w) = RecodeCanonicalScalar(x, w, TRUE)
    /\ \A w \in DOMAIN RoundCount : RecodeFixedBase(x, w) = RecodeCanonicalScalar(x, w, FALSE)
    /\ RecodeFixedBaseBytes(x).carry = 0
    /\ Value(RecodeFixedBaseBytes(x).digits, ByteBits) = x
    /\ \A w \in widths :
         LET r == RecodeAsymmetric(x, w, TRUE) IN
         /\ r.carry = 0 /\ Value(r.digits, w) = -x
         /\ \A i \in DOMAIN r.digits : r.digits[i] \in (-(2 ^ (w - 1))) .. (2 ^ (w - 1))

\* signedRadix16 is exact for every scalar without the high bit, canonical or
\* not, and its digits fit the eight-entry lookup tables, the top one included.
Radix16Exact(x) ==
  LET w == ByteBits \div 2
      d == signedRadix16(x) IN
  Value(d, w) = x /\ \A i \in DOMAIN d : d[i] \in (-(2 ^ (w - 1))) .. (2 ^ (w - 1))

\* RecodeRegularRadix is exact for signed magnitudes of any length, which the
\* half-size equation needs beyond the group order.
RegularExact(x) ==
  \A w \in DOMAIN RoundCount : \A y \in {x, -x} :
    LET d == RecodeRegularRadix(y, w) IN
    Value(d, w) = y /\ \A i \in DOMAIN d : d[i] \in (-(2 ^ (w - 1))) .. (2 ^ (w - 1))

\* The non-adjacent form is exact, its digits are odd and below 2^(w-1), and
\* no two of them are closer than w positions: what the odd-multiple tables
\* and the doubling schedule of the generic, ifma and packed verifiers assume.
NafExact(x, widths) ==
  canonicalScalarBytes(x) =>
    \A w \in widths :
      LET d == nonAdjacentForm(x, w)
          used == {i \in DOMAIN d : d[i] # 0}
      IN /\ Value(d, 1) = x
         /\ \A i \in used : d[i] % 2 = 1 /\ d[i] < 2 ^ (w - 1) /\ -d[i] < 2 ^ (w - 1)
         /\ \A i, j \in used : i < j => j - i >= w

=============================================================================
