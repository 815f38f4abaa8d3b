----------------------------- MODULE FieldLimbs -----------------------------
(***************************************************************************)
(* Field arithmetic on limbs, in the four representations of the code:     *)
(*   "r51"         uniquely reduced, r51x5/element.go and arithmetic.go;   *)
(*   "r43"         the same with a shorter top limb, r43x6;                *)
(*   "composable"  r51x5/ifma_composable.go: every limb below twice the    *)
(*                 radix, so that it can be a multiplicand of VPMADD52;    *)
(*   "vendored"    edwards25519/field: carried once after every operation. *)
(* Two registers hold field elements; an operation replaces the first and  *)
(* may be followed by any other, for MaxOps operations.  Machine words     *)
(* wrap.  Beside the limbs, v and w keep the field elements they stand for.*)
(***************************************************************************)
EXTENDS Integers, Sequences, Functions, FiniteSetsExt

CONSTANTS
  N,              \* limbs (5; 6 for r43)
  B,              \* the radix (2^51; 2^43)
  Fold,           \* 19
  TopGap,         \* how much smaller the top limb of r43 is (2^3)
  Word,           \* 2^64
  ProductLimit,   \* 2^61
  LooseLimit,     \* 2^60
  Small,          \* factors of Mult32
  Middle,         \* inputs away from the boundaries
  MaxOps

Reps == {"r51", "r43", "composable", "vendored"}
Is == 1 .. N

\* The contracts between the constants that the code's comments derive.
FieldLimbsAssumption ==
  /\ N > 1 /\ B % TopGap = 0 /\ MaxOps \in Nat
  /\ B + Fold * (ProductLimit \div B) <= 2 * B
  /\ B + Fold * (Word \div B) <= 2 * B
  /\ 2 * LooseLimit <= ProductLimit /\ 2 * ProductLimit <= Word

Base(r, i) == IF r = "r43" /\ i = N THEN B \div TopGap ELSE B
Weight(i) == B ^ (i - 1)
Bound(r) == Weight(N) * Base(r, N)
Prime(r) == Bound(r) - Fold
Limbs(f) == <<>> \o f
Digits(n) == Limbs([i \in Is |-> IF i = N THEN n \div Weight(N) ELSE (n \div Weight(i)) % B])
Value(l) == FoldFunction(+, 0, [i \in Is |-> l[i] * Weight(i)])
Zero == [i \in Is |-> 0]

VARIABLES
  rep,      \* the representation
  x, y,     \* limbs
  v, w,     \* the field elements they represent
  ops,      \* operations so far
  fault     \* whether an internal range check has failed

vars == <<rep, x, y, v, w, ops, fault>>

\* a * b modulo Prime(r), in steps that fit the integers of the model checker.
MulMod(r, a, b) ==
  LET m[i \in 0 .. 9] ==
        IF i = 0 THEN 0
        ELSE LET before == m[i - 1] IN (before * 8 + ((a \div (8 ^ (9 - i))) % 8) * b) % Prime(r)
  IN m[9]

-----------------------------------------------------------------------------
\* Reduced limbs.

modulusLimbs(r) == Digits(Prime(r))
\* The highest limb that differs decides.
AtLeast(a, b) ==
  LET differ == {i \in Is : a[i] # b[i]} IN differ = {} \/ a[Max(differ)] > b[Max(differ)]
subtractLimbs(r, a, b) ==
  LET borrow[i \in 0 .. N] ==
        IF i = 0 THEN 0 ELSE LET before == borrow[i - 1] IN IF a[i] >= b[i] + before THEN 0 ELSE 1
  IN Limbs([i \in Is |-> a[i] - (b[i] + borrow[i - 1]) + borrow[i] * Base(r, i)])
r43SubtractLimbs(a, b) == subtractLimbs("r43", a, b)
IsReduced(r, l) == (\A i \in Is : l[i] < Base(r, i)) /\ ~AtLeast(l, modulusLimbs(r))
r43IsReduced(l) == IsReduced("r43", l)

\* One ripple of carries from limb to limb; the top one folds into the first.
CarryPass(r, acc) ==
  LET sums[i \in Is] ==
        IF i = 1 THEN acc[1] ELSE LET below == sums[i - 1] IN acc[i] + (below \div Base(r, i - 1))
      top == sums[N] \div Base(r, N)
  IN Limbs([i \in Is |-> (sums[i] % Base(r, i)) + (IF i = 1 THEN (Fold * top) % Word ELSE 0)])

\* The loop ends when the top carry is zero: a further pass changes nothing.
reduceAccumulators(r, acc) ==
  LET passes[i \in 0 .. 4] == IF i = 0 THEN acc ELSE LET before == passes[i - 1] IN CarryPass(r, before)
      result == passes[4]
  IN IF AtLeast(result, modulusLimbs(r)) THEN subtractLimbs(r, result, modulusLimbs(r)) ELSE result
r43ReduceAccumulators(acc) == reduceAccumulators("r43", acc)
Reduced(l) == reduceAccumulators("r51", l)

Add(a, b) == reduceAccumulators("r51", [i \in Is |-> (a[i] + b[i]) % Word])
Subtract(a, b) ==
  IF AtLeast(a, b) THEN subtractLimbs("r51", a, b)
  ELSE subtractLimbs("r51", modulusLimbs("r51"), subtractLimbs("r51", b, a))
Negate(a) == IF a = Zero THEN Zero ELSE subtractLimbs("r51", modulusLimbs("r51"), a)
r43Add(a, b) == r43ReduceAccumulators([i \in Is |-> (a[i] + b[i]) % Word])
r43Subtract(a, b) ==
  IF AtLeast(a, b) THEN r43SubtractLimbs(a, b)
  ELSE LET delta == r43SubtractLimbs(b, a)
       IN IF delta = Zero THEN Zero ELSE r43SubtractLimbs(modulusLimbs("r43"), delta)
r43Negate(a) == IF a = Zero THEN Zero ELSE r43SubtractLimbs(modulusLimbs("r43"), a)

\* Products of limbs by degree; degrees of N and more are folded back.
Columns(a, b, scale) ==
  Limbs([k \in Is |->
    FoldFunction(+, 0, [i \in Is |-> IF i <= k THEN a[i] * b[k - i + 1] ELSE scale * a[i] * b[k - i + 1 + N]])])
Multiply(a, b) == reduceAccumulators("r51", Columns(a, b, Fold))
\* Mutant: the fold of the top carry, used for the products too.
r43MultiplyFold(a, b) == r43ReduceAccumulators(Columns(a, b, Fold))
\* Past the sixth limb of r43 a product is 2^258 = 152 and not 2^255 = 19.
r43MultiplyReference(a, b) == r43ReduceAccumulators(Columns(a, b, Fold * TopGap))

-----------------------------------------------------------------------------
\* VPMADD52 and the composable representation.

\* Each product is split at twice the radix; the high half has the next degree.
ifmaMulRaw(a, b) ==
  LET low(d) == {p \in Is \X Is : p[1] + p[2] - 1 = d}
      coefficient(d) ==
        MapThenSumSet(LAMBDA p : (a[p[1]] * b[p[2]]) % (2 * B), low(d))
          + 2 * MapThenSumSet(LAMBDA p : (a[p[1]] * b[p[2]]) \div (2 * B), low(d - 1))
  IN Limbs([k \in Is |-> (coefficient(k) + Fold * coefficient(k + N)) % Word])

\* Every carry is taken from the limbs as they came.
Carried(l) ==
  Limbs([i \in Is |-> (l[i] % B) + (IF i = 1 THEN Fold * (l[N] \div B) ELSE l[i - 1] \div B)])

IsIFMAMultiplicand(l) == \A i \in Is : l[i] < 2 * B
normalizeIFMAProductLane(l) ==
  LET out == Carried(l)
  IN [limbs |-> out,
      ok |-> /\ \A i \in Is : l[i] < ProductLimit
             /\ out[1] < B + Fold * (ProductLimit \div B)
             /\ IsIFMAMultiplicand(out)]

ifmaSubtractionBias(i) == IF i = 1 THEN 4 * B - 4 * Fold ELSE 4 * B - 4
Raw(f) == Limbs([i \in Is |-> f[i] % Word])
addPortable(a, b) == normalizeIFMAProductLane(Raw([i \in Is |-> a[i] + b[i]]))
subtractPortable(a, b) == normalizeIFMAProductLane(Raw([i \in Is |-> a[i] + ifmaSubtractionBias(i) - b[i]]))
negatePortable(a) == normalizeIFMAProductLane(Raw([i \in Is |-> ifmaSubtractionBias(i) - a[i]]))
\* The leaves called when the CPU has the kernels.
ifmaAddNormalizedUnchecked(a, b) == normalizeIFMAProductLane(Raw([i \in Is |-> a[i] + b[i]]))
ifmaSubtractNormalizedUnchecked(a, b) ==
  normalizeIFMAProductLane(Raw([i \in Is |-> a[i] + ifmaSubtractionBias(i) - b[i]]))
conditionalNegate(a, negative) == IF negative THEN negatePortable(a) ELSE normalizeIFMAProductLane(a)
ifmaMultiplyComposable(a, b) == normalizeIFMAProductLane(ifmaMulRaw(a, b))

-----------------------------------------------------------------------------
\* The vendored field.

carryPropagate(l) == Raw(Carried(l))
feAdd(a, b) == carryPropagate(Raw([i \in Is |-> a[i] + b[i]]))
\* 2p is added first.
feSubtract(a, b) ==
  carryPropagate(Raw([i \in Is |-> a[i] + (IF i = 1 THEN 2 * (B - Fold) ELSE 2 * (B - 1)) - b[i]]))
feNegate(a) == feSubtract(Zero, a)

\* Two parallel carries; the first still overflows a limb.
CarryWide(r) == carryPropagate(Raw(Carried(r)))
feMulGeneric(a, b) == CarryWide(Columns(a, b, Fold))
\* Equal factors are grouped: each unordered pair once, twice if they differ.
feSquareGeneric(a) ==
  LET partner(k, i) == IF i <= k THEN k - i + 1 ELSE k - i + 1 + N
      scale(k, i) == (IF i = partner(k, i) THEN 1 ELSE 2) * (IF i <= k THEN 1 ELSE Fold)
  IN CarryWide([k \in Is |->
       FoldFunction(+, 0, [i \in Is |-> IF i <= partner(k, i) THEN scale(k, i) * a[i] * a[partner(k, i)] ELSE 0])])
\* No second carry: the high halves are short.
Mult32(a, s) == Carried([i \in Is |-> a[i] * s])

\* After one carry the value is below 2p; adding Fold shows whether it is p
\* or more, and then Fold stays in and the top carry falls off.
reduce(l) ==
  LET a == carryPropagate(l)
      c[i \in Is] == IF i = 1 THEN (a[1] + Fold) \div B ELSE LET below == c[i - 1] IN (a[i] + below) \div B
      sums[i \in Is] == IF i = 1 THEN a[1] + Fold * c[N] ELSE LET below == sums[i - 1] IN a[i] + (below \div B)
  IN Limbs([i \in Is |-> sums[i] % B])
feEqual(a, b) == reduce(a) = reduce(b)
feIsNegative(a) == reduce(a)[1] % 2 = 1
Absolute(a) == IF feIsNegative(a) THEN feNegate(a) ELSE a

-----------------------------------------------------------------------------
\* SetBytes: the low bits of an encoding; the vendored field keeps a value of
\* p or more, the others reduce it.
SetBytes(r, n) ==
  LET l == Digits(n)
  IN IF r # "vendored" /\ AtLeast(l, modulusLimbs(r)) THEN subtractLimbs(r, l, modulusLimbs(r)) ELSE l
Edge(r) == {0, 1, Prime(r) - 1, Prime(r), Bound(r) - 1} \cup Middle

Init ==
  /\ rep \in Reps
  /\ \E a, b \in Edge(rep) :
       /\ x = SetBytes(rep, a) /\ v = a % Prime(rep)
       /\ y = SetBytes(rep, b) /\ w = b % Prime(rep)
  /\ ops = 0 /\ fault = FALSE

Put(limbs, value) ==
  /\ ops < MaxOps /\ ~fault
  /\ x' = limbs /\ v' = value % Prime(rep) /\ ops' = ops + 1
  /\ UNCHANGED <<rep, y, w, fault>>
\* A composable result comes with its range check.
PutChecked(result, value) ==
  /\ ops < MaxOps /\ ~fault
  /\ x' = result.limbs /\ v' = value % Prime(rep) /\ ops' = ops + 1
  /\ fault' = ~result.ok
  /\ UNCHANGED <<rep, y, w>>

AddStep ==
  \/ rep = "r51" /\ Put(Add(x, y), v + w)
  \/ rep = "r43" /\ Put(r43Add(x, y), v + w)
  \/ rep = "composable" /\ \E native \in BOOLEAN :
       PutChecked(IF native THEN ifmaAddNormalizedUnchecked(x, y) ELSE addPortable(x, y), v + w)
  \/ rep = "vendored" /\ Put(feAdd(x, y), v + w)
SubtractStep ==
  \/ rep = "r51" /\ Put(Subtract(x, y), Prime(rep) + v - w)
  \/ rep = "r43" /\ Put(r43Subtract(x, y), Prime(rep) + v - w)
  \/ rep = "composable" /\ \E native \in BOOLEAN :
       PutChecked(IF native THEN ifmaSubtractNormalizedUnchecked(x, y) ELSE subtractPortable(x, y), Prime(rep) + v - w)
  \/ rep = "vendored" /\ Put(feSubtract(x, y), Prime(rep) + v - w)
NegateStep ==
  \/ rep = "r51" /\ Put(Negate(x), Prime(rep) - v)
  \/ rep = "r43" /\ Put(r43Negate(x), Prime(rep) - v)
  \/ rep = "composable" /\ \E negative \in BOOLEAN :
       PutChecked(conditionalNegate(x, negative), IF negative THEN Prime(rep) - v ELSE v)
  \/ rep = "vendored" /\ Put(feNegate(x), Prime(rep) - v)
MultiplyStep ==
  \/ rep = "r51" /\ Put(Multiply(x, y), MulMod(rep, v, w))
  \/ rep = "r43" /\ Put(r43MultiplyReference(x, y), MulMod(rep, v, w))
  \/ rep = "composable" /\ PutChecked(ifmaMultiplyComposable(x, y), MulMod(rep, v, w))
  \/ rep = "vendored" /\ Put(feMulGeneric(x, y), MulMod(rep, v, w))
SquareStep == rep = "vendored" /\ Put(feSquareGeneric(x), MulMod(rep, v, v))
Mult32Step == rep = "vendored" /\ \E s \in Small : Put(Mult32(x, s), MulMod(rep, v, s))
AbsoluteStep == rep = "vendored" /\ Put(Absolute(x), IF v % 2 = 1 THEN Prime(rep) - v ELSE v)
\* ExperimentalIFMAMultiplyX4 and X8: reduced factors, a raw product within
\* its own limit, and a canonical result; the fault is errIFMAOutputRange.
MultiplyLooseStep ==
  LET raw == ifmaMulRaw(x, y) IN
  /\ rep = "r51"
  /\ PutChecked([limbs |-> Reduced(raw), ok |-> \A i \in Is : raw[i] < LooseLimit], MulMod(rep, v, w))
\* The registers change places, or the second takes the first.
Swap ==
  /\ ops < MaxOps /\ ~fault /\ ops' = ops + 1
  /\ x' = y /\ y' = x /\ v' = w /\ w' = v
  /\ UNCHANGED <<rep, fault>>
Set ==
  /\ ops < MaxOps /\ ~fault /\ ops' = ops + 1
  /\ y' = x /\ w' = v
  /\ UNCHANGED <<rep, x, v, fault>>

Next == AddStep \/ SubtractStep \/ NegateStep \/ MultiplyStep \/ SquareStep \/ Mult32Step
        \/ AbsoluteStep \/ MultiplyLooseStep \/ Swap \/ Set

Spec == Init /\ [][Next]_vars

-----------------------------------------------------------------------------
\* Whatever operations came before, the limbs stand for the field element the
\* operations define: no carry, borrow, fold or bias is lost, no word wraps.
ValueExact == Value(x) % Prime(rep) = v

\* Every result is fit to be the operand of every operation of its
\* representation: reduced limbs are unique, composable limbs are multiplicands
\* and pass the internal range checks, and vendored limbs stay below the 2p
\* that Subtract adds, which is less than the 2^52 the type allows.
RangeClosed ==
  /\ ~fault
  /\ rep = "r51" => IsReduced("r51", x)
  /\ rep = "r43" => r43IsReduced(x)
  /\ rep = "composable" => IsIFMAMultiplicand(x)
  /\ rep = "vendored" => x[1] <= 2 * (B - Fold) /\ \A i \in 2 .. N : x[i] <= 2 * (B - 1)

\* The bytes of an element are those of the one integer below p, so comparing
\* them, or the limbs where these are unique, compares field elements.
CanonicalExact ==
  /\ rep = "vendored" => reduce(x) = Digits(v) /\ (feEqual(x, y) <=> v = w)
  /\ rep = "composable" => Reduced(x) = Digits(v)
  /\ rep \in {"r51", "r43"} => (x = y <=> v = w)

=============================================================================
