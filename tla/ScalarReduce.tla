---------------------------- MODULE ScalarReduce ----------------------------
(***************************************************************************)
(* Reduction modulo the group order: the signed radix schedule of          *)
(* r51x5/scalar_reduce.go, of its eight-lane form in                       *)
(* scalar_reduce_ifma_x8.go and of scReduce and scMulAdd in                *)
(* edwards25519/scalar.go, and the Barrett reduction beside it.  Limbs are *)
(* numbered from 0, are signed, and live in machine words that wrap.  A    *)
(* call runs the schedule one fold or one row of carries at a time.        *)
(***************************************************************************)
EXTENDS Integers, SequencesExt

CONSTANTS
  B,           \* the radix (2^21)
  K,           \* limbs of a scalar (12); inputs have 2K
  C,           \* signed digits of B^K modulo the order, half of K of them
  Word,        \* 2^64
  Uniform,     \* inputs to reduce: limbs, the last one longer than the others
  Scalars,     \* operands of scMulAdd: limbs of scalars
  WordB, KB,   \* Barrett: the word and how many of them a scalar takes (2^64, 4)
  OrderB,      \* Barrett: the order
  WideB        \* Barrett: inputs

Folded == K \div 2
Is == 0 .. (2 * K - 1)
Digits(f, n) == [i \in 0 .. (n - 1) |-> f[i + 1]]
\* The integer with the given limbs modulo m, from the top.
ValueMod(s, n, base, m) ==
  LET horner[i \in 0 .. n] ==
        IF i = 0 THEN 0 ELSE LET above == horner[i - 1] IN (above * base + s[n - i]) % m
  IN horner[n]
Order == B ^ K - (C[1] + B * C[2])

ScalarReduceAssumption ==
  /\ K = 4 /\ Len(C) = Folded
  /\ \A u \in Uniform : Len(u) = 2 * K /\ \A a \in Scalars : Len(a) = K
  /\ OrderB < WordB ^ KB

\* int64
Wrap(n) == ((n + (Word \div 2)) % Word) - (Word \div 2)

-----------------------------------------------------------------------------
\* The steps of the schedule.

\* Mutant: the folded limb stays.
foldKeptRadix21(s, high) ==
  [i \in Is |-> IF i \in (high - K) .. (high - K + Folded - 1) THEN Wrap(s[i] + s[high] * C[i - high + K + 1]) ELSE s[i]]
foldScalarRadix21(s, high) ==
  [i \in Is |-> IF i = high THEN 0
                ELSE IF i \in (high - K) .. (high - K + Folded - 1) THEN Wrap(s[i] + s[high] * C[i - high + K + 1])
                ELSE s[i]]

\* Every other limb hands the nearest multiple of the radix to the next.
carryScalarRadix21Rounded(s, first, last) ==
  LET carry(i) == IF i \in first .. last /\ (i - first) % 2 = 0 THEN (s[i] + (B \div 2)) \div B ELSE 0
  IN [i \in Is |-> Wrap(s[i] + (IF i = 0 THEN 0 ELSE carry(i - 1)) - (carry(i) * B))]
\* A ripple of carries.
carryScalarRadix21(s, first, last) ==
  LET sums[i \in Is] ==
        IF i <= first THEN s[i]
        ELSE LET below == sums[i - 1] IN IF i <= last + 1 THEN s[i] + (below \div B) ELSE s[i]
  IN [i \in Is |-> Wrap(IF i \in first .. last THEN sums[i] % B ELSE sums[i])]

Down(from, to) == [i \in 1 .. (from - to + 1) |-> <<"fold", from - i + 1, 0>>]

\* 23..18, 6..16, 7..15, 17..12, 0..10, 1..11, 12, 0..11, 12, 0..10.
reduceSchedule ==
  Down(2 * K - 1, K + Folded) \o <<<<"round", Folded, K + Folded - 2>>, <<"round", Folded + 1, K + Folded - 3>>>>
    \o Down(K + Folded - 1, K) \o <<<<"round", 0, K - 2>>, <<"round", 1, K - 1>>,
                               <<"fold", K, 0>>, <<"carry", 0, K - 1>>,
                               <<"fold", K, 0>>, <<"carry", 0, K - 2>>>>
\* The unrolled form, part by part.
scReduceFolds == Down(2 * K - 1, K + Folded)
scReduceRounds == <<<<"round", Folded, K + Folded - 2>>, <<"round", Folded + 1, K + Folded - 3>>>>
scReduceLowFolds == Down(K + Folded - 1, K)
scReduceLowRounds == <<<<"round", 0, K - 2>>, <<"round", 1, K - 1>>>>
scReduceLast == <<<<"fold", K, 0>>, <<"carry", 0, K - 1>>, <<"fold", K, 0>>, <<"carry", 0, K - 2>>>>
scReduce == scReduceFolds \o scReduceRounds \o scReduceLowFolds \o scReduceLowRounds \o scReduceLast
\* A product is carried once before it is folded: 0..22, 1..21.
scMulAddCarries == <<<<"round", 0, 2 * K - 2>>, <<"round", 1, 2 * K - 3>>>>
scMulAddFolds == scReduceFolds \o scReduceRounds
scMulAddLowFolds == scReduceLowFolds \o scReduceLowRounds
scMulAddLast == scReduceLast
scMulAdd == scMulAddCarries \o scMulAddFolds \o scMulAddLowFolds \o scMulAddLast

Step(s, step) ==
  CASE step[1] = "fold"  -> foldScalarRadix21(s, step[2])
    [] step[1] = "round" -> carryScalarRadix21Rounded(s, step[2], step[3])
    [] step[1] = "carry" -> carryScalarRadix21(s, step[2], step[3])

\* c + a * b by degree.
scProduct(a, b, c) ==
  [k \in Is |->
     (IF k < K THEN c[k + 1] ELSE 0)
       + FoldLeft(+, 0, [i \in 1 .. K |-> IF k - i + 2 \in 1 .. K THEN a[i] * b[k - i + 2] ELSE 0])]

-----------------------------------------------------------------------------
\* Barrett.

Words(x, n) == [i \in 0 .. (n - 1) |-> (x \div (WordB ^ i)) % WordB]
\* The low words of a product.
ProductWords(x, y, n, keep) ==
  LET column(k) == FoldLeft(+, 0, [i \in 1 .. n |-> IF k - i + 1 \in 0 .. (n - 1) THEN x[i - 1] * y[k - i + 1] ELSE 0])
      sums[k \in 0 .. (keep - 1)] ==
        IF k = 0 THEN column(0) ELSE LET below == sums[k - 1] IN column(k) + (below \div WordB)
  IN [k \in 0 .. (keep - 1) |-> sums[k] % WordB]
mul5x5(x, y) == ProductWords(x, y, KB + 1, 2 * (KB + 1))
mul5x5Low(x, y) == ProductWords(x, y, KB + 1, KB + 1)
\* x - y modulo WordB^(KB + 1), and the borrow out of it.
Sub(x, y) ==
  LET borrow[i \in 0 .. (KB + 1)] ==
        IF i = 0 THEN 0 ELSE LET below == borrow[i - 1] IN IF x[i - 1] < y[i - 1] + below THEN 1 ELSE 0
  IN [words |-> [i \in 0 .. KB |-> (x[i] - y[i] - borrow[i]) % WordB], borrow |-> borrow[KB + 1]]
scalarBarrettMu == Words((WordB ^ (2 * KB)) \div OrderB, KB + 1)
scalarOrderWords == Words(OrderB, KB + 1)
conditionalSubtractScalarOrder(x) ==
  LET reduced == Sub(x, scalarOrderWords) IN IF reduced.borrow = 1 THEN x ELSE reduced.words

reduceUniformScalarBarrett(x) ==
  LET q1 == [i \in 0 .. KB |-> x[i + KB - 1]]
      q2 == mul5x5(q1, scalarBarrettMu)
      q3 == [i \in 0 .. KB |-> q2[i + KB + 1]]
      r == Sub([i \in 0 .. KB |-> x[i]], mul5x5Low(q3, scalarOrderWords)).words
  IN conditionalSubtractScalarOrder(conditionalSubtractScalarOrder(r))

-----------------------------------------------------------------------------
\* The operations on scalars are all one multiply-and-add.

scZero == [i \in 1 .. K |-> 0]
scOne == [i \in 1 .. K |-> IF i = 1 THEN 1 ELSE 0]
scMinusOne == [i \in 1 .. K |-> IF i = K THEN (Order - 1) \div (B ^ (K - 1)) ELSE ((Order - 1) \div (B ^ (i - 1))) % B]
ScalarAdd(x, y) == scProduct(scOne, x, y)
ScalarSubtract(x, y) == scProduct(scMinusOne, y, x)
ScalarNegate(x) == scProduct(scMinusOne, x, scZero)
ScalarMultiply(x, y) == scProduct(x, y, scZero)
Residue(x) == ValueMod(Digits(x, K), K, B, Order)

VARIABLES
  schedule,   \* the steps that remain
  s,          \* the limbs, or Barrett's words
  residue,    \* the residue of the input
  kind        \* "radix" or "barrett"

vars == <<schedule, s, residue, kind>>

Init ==
  \/ \E u \in Uniform :
       /\ kind = "radix" /\ schedule \in {reduceSchedule, scReduce}
       /\ s = Digits(u, 2 * K) /\ residue = ValueMod(s, 2 * K, B, Order)
  \/ \E x, y \in Scalars :
       /\ kind = "radix" /\ schedule = scMulAdd
       /\ \/ \E z \in Scalars : s = scProduct(x, y, z) /\ residue = (ValueMod(ScalarMultiply(x, y), 2 * K, B, Order) + Residue(z)) % Order
          \/ s = ScalarAdd(x, y) /\ residue = (Residue(x) + Residue(y)) % Order
          \/ s = ScalarSubtract(x, y) /\ residue = (Residue(x) - Residue(y)) % Order
          \/ s = ScalarNegate(x) /\ residue = (-Residue(x)) % Order
  \/ \E x \in WideB :
       /\ kind = "barrett" /\ schedule = <<"barrett">>
       /\ s = Words(x, 2 * KB) /\ residue = x % OrderB

Run ==
  /\ kind = "radix" /\ schedule # <<>>
  /\ s' = Step(s, Head(schedule)) /\ schedule' = Tail(schedule)
  /\ UNCHANGED <<residue, kind>>

Barrett ==
  /\ kind = "barrett" /\ schedule # <<>>
  /\ s' = reduceUniformScalarBarrett(s) /\ schedule' = <<>>
  /\ UNCHANGED <<residue, kind>>

Next == Run \/ Barrett

Spec == Init /\ [][Next]_vars

-----------------------------------------------------------------------------
\* No fold or carry of the signed schedule changes the residue of the limbs:
\* every limb stays within its machine word.
ResidueKept == kind = "radix" => ValueMod(s, 2 * K, B, Order) = residue

\* The schedule ends in the one encoding below the order: digits below the
\* radix, the top one carrying what the last row of carries leaves in it.
Canonical ==
  kind = "radix" /\ schedule = <<>> =>
    /\ \A i \in 0 .. (K - 2) : s[i] \in 0 .. (B - 1)
    /\ s[K - 1] \in 0 .. B
    /\ \A i \in K .. (2 * K - 1) : s[i] = 0
    /\ s[0] + B * (s[1] + B * (s[2] + B * s[3])) = residue

\* Barrett's quotient is at most two too small.
BarrettExact == kind = "barrett" /\ schedule = <<>> => s = Words(residue, KB + 1)

=============================================================================
