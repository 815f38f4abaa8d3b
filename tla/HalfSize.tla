------------------------------ MODULE HalfSize ------------------------------
(***************************************************************************)
(* The half-size scalar selectors of internal/heea8l: given a challenge k  *)
(* below the prime order L, find rho and tau of about half the size with   *)
(* rho = tau * k modulo 8L and tau a unit modulo 8L, or fall back to the   *)
(* ordinary verifier.  Eight selectors walk rows (rho, tau) of the         *)
(* extended Euclidean algorithm in different ways; one action is one       *)
(* iteration of the loop of one of them.  Numbers are integers here: the   *)
(* word by word arithmetic is module WideInt's.                            *)
(***************************************************************************)
EXTENDS Integers, Sequences

CONSTANTS
  Order,        \* the prime order L of the subgroup
  WordBits,     \* bits of a machine word
  WidthLimits,  \* the admission limits the selectors accept
  Challenges,   \* the challenges a caller may pass, canonical or not
  Limits        \* the limits a caller may pass

HalfSizeAssumption ==
  /\ Order > 8 /\ Order % 2 = 1 /\ WordBits \in 4 .. 14
  /\ WidthLimits \subseteq 1 .. 30 /\ Challenges \subseteq Nat /\ Limits \subseteq Nat

VARIABLES
  selector, k, limit,  \* the call
  rows,                \* the two rows of the walk, <<[rho, tau], [rho, tau]>>
  queue,               \* proposed quotients not used yet, quotientLookahead
  best,                \* the best candidate so far, <<>> before the first
  iterations,
  result               \* the Selection returned; Running before

vars == <<selector, k, limit, rows, queue, best, iterations, result>>

Modulus == 8 * Order
Abs(x) == IF x < 0 THEN -x ELSE x
Larger(x, y) == IF x >= y THEN x ELSE y
BitLen(x) == CHOOSE n \in 0 .. 30 : Abs(x) < 2 ^ n /\ (n = 0 \/ Abs(x) >= 2 ^ (n - 1))

\* A magnitude fits a coefficient, which has exactly the bits of the modulus.
NumberBits == BitLen(Modulus)
Fits(x) == BitLen(x) <= NumberBits
FitsWord(x) == x < 2 ^ WordBits

Row(rho, tau) == [rho |-> rho, tau |-> tau]

Running == [fallback |-> "running", candidate |-> <<>>]
UseCandidate(row) == [fallback |-> "none", candidate |-> row]
Fallback(why) == [fallback |-> why, candidate |-> <<>>]

-----------------------------------------------------------------------------
(* Which rows may be used. *)

\* Below 8L an odd number shares a factor with 8L exactly when it is an odd
\* multiple of L: the table fixedOddOrderMultiples.
coprimeToModulus(tau) ==
  tau % 2 = 1 /\ \A odd \in {1, 3, 5, 7} : Abs(tau) # odd * Order

unitMultiplier(tau) == coprimeToModulus(tau)

Admissible(row) ==
  BitLen(row.rho) <= limit /\ BitLen(row.tau) <= limit /\ unitMultiplier(row.tau)

\* considerShiftSubtractRow and approxQuotientCandidate decide alike.
considerShiftSubtractRow(row) == Admissible(row)
approxQuotientCandidate(row) == Admissible(row)

Width(c) == Larger(BitLen(c.rho), BitLen(c.tau))

\* The order on candidates: width, larger coefficient, sum, size of tau, sign.
better(a, b) ==
  LET maxA == Larger(Abs(a.rho), Abs(a.tau))   maxB == Larger(Abs(b.rho), Abs(b.tau))
      sumA == Abs(a.rho) + Abs(a.tau)          sumB == Abs(b.rho) + Abs(b.tau) IN
  IF Width(a) # Width(b) THEN Width(a) < Width(b)
  ELSE IF maxA # maxB THEN maxA < maxB
  ELSE IF sumA # sumB THEN sumA < sumB
  ELSE IF Abs(a.tau) # Abs(b.tau) THEN Abs(a.tau) < Abs(b.tau)
  ELSE a.tau > b.tau

betterFixed(a, b) == better(a, b)

consider(old, row) ==
  IF ~ coprimeToModulus(row.tau) THEN old
  ELSE IF old = <<>> THEN row
  ELSE IF better(row, old) THEN row ELSE old

considerAll(old, candidates) ==
  LET after[i \in 0 .. Len(candidates)] ==
        IF i = 0 THEN old ELSE LET before == after[i - 1] IN consider(before, candidates[i])
  IN after[Len(candidates)]

-----------------------------------------------------------------------------
(* Quotients. *)

TopWord(x, shift) == (x \div 2 ^ shift) % 2 ^ WordBits

\* Up to eight quotients of the leading words of the pair.
fill(r0, r1) ==
  LET shift == Larger(BitLen(r0) - WordBits, 0)
      propose[i \in 0 .. 8] ==
        IF i = 0 THEN [x |-> TopWord(r0, shift), y |-> TopWord(r1, shift), values |-> <<>>]
        ELSE LET s == propose[i - 1] IN
             IF s.y = 0 \/ s.x < s.y THEN s
             ELSE [x |-> s.y, y |-> s.x % s.y, values |-> Append(s.values, s.x \div s.y)]
      last == propose[8]
  IN last.values

\* A proposed quotient is used only if it is the quotient of the full pair;
\* otherwise the queue is dropped and the pair is divided.
next(q, r0, r1) ==
  LET proposed == IF q = <<>> THEN fill(r0, r1) ELSE q
      product == Head(proposed) * r1 IN
  IF proposed # <<>> /\ Fits(product) /\ product <= r0 /\ r0 - product < r1
    THEN [quotient |-> Head(proposed), rest |-> Tail(proposed)]
    ELSE [quotient |-> r0 \div r1, rest |-> <<>>]

Divide(q, r0, r1, batched) ==
  IF batched THEN next(q, r0, r1) ELSE [quotient |-> r0 \div r1, rest |-> q]

\* Where the two coefficients cross, within the interval.
center(r0, r1, t0, t1, a) ==
  IF r0 > Abs(t0)
    THEN LET c == (r0 - Abs(t0)) \div (r1 + Abs(t1)) IN IF c > a THEN a ELSE c
    ELSE 0

\* The multipliers tried for the intermediate rows of one quotient, in order.
nearbyMultipliers(r0, r1, t0, t1, a) ==
  LET c == center(r0, r1, t0, t1, a)
      tried == <<0, a, 1, a - 1, 2, a - 2, c - 3, c - 2, c - 1, c, c + 1, c + 2, c + 3>>
      valid(q) == q \in 0 .. a /\ t0 - q * t1 # 0 /\ (t0 - q * t1) % 2 = 1
  IN SelectSeq(tried, valid)

\* The fixed-width form decides zero and parity from t0 and the low bits.
nearbyMultipliersFixed(r0, r1, t0, t1, a) ==
  LET c == center(r0, r1, t0, t1, a)
      tried == <<0, a, 1, a - 1, 2, a - 2, c - 3, c - 2, c - 1, c, c + 1, c + 2, c + 3>>
      valid(q) == q \in 0 .. a /\ ~ (t0 = 0 /\ q = 0) /\ (t0 + (q % 2) * (t1 % 2)) % 2 = 1
  IN SelectSeq(tried, valid)

-----------------------------------------------------------------------------
(* The call. *)

Exhaustive == {"Select", "SelectFixed", "selectFixedBatched"}
Principal == {"SelectEuclidPrincipal", "selectEuclidPrincipalLookahead"}
Selectors == Exhaustive \cup Principal
               \cup {"SelectLehmer", "SelectShiftSubtract", "SelectApproxQuotient"}

Init ==
  /\ selector \in Selectors /\ k \in Challenges /\ limit \in Limits
  /\ rows = <<Row(Modulus, 0), Row(k, 1)>>
  /\ queue = <<>> /\ best = <<>> /\ iterations = -1 /\ result = Running

\* What a selector answers before its loop.
AtOnce ==
  CASE limit \notin WidthLimits -> Fallback("invalid-width")
    [] k >= Order -> Fallback("invalid-challenge")
    [] k = 0 -> UseCandidate(Row(0, 1))
    [] selector \notin Exhaustive /\ Admissible(rows[2]) -> UseCandidate(rows[2])
    [] OTHER -> Running

Start ==
  /\ iterations = -1
  /\ iterations' = 0
  /\ result' = AtOnce
  /\ UNCHANGED <<selector, k, limit, rows, queue, best>>

Looping(some) == result = Running /\ iterations >= 0 /\ selector \in some

\* Defensive bounds of the loops: 384, 512 and 384 for 256 bits.
principalEuclidIterationCap == (3 * NumberBits) \div 2
shiftSubtractIterationCap == 2 * NumberBits
approxQuotientIterationCap == (3 * NumberBits) \div 2

\* The loop ends with pair as the next rows if they hold no candidate, and with
\* a fallback if they cannot be represented.
MoveTo(pair, ok) ==
  /\ rows' = IF ok THEN pair ELSE rows
  /\ result' = IF ~ ok THEN Fallback("width-exceeded")
               ELSE IF Admissible(pair[2]) THEN UseCandidate(pair[2]) ELSE Running

-----------------------------------------------------------------------------
(* Select, SelectFixed and its batched form: the best row of all. *)

BestStep ==
  /\ Looping(Exhaustive)
  /\ LET r0 == rows[1].rho  r1 == rows[2].rho  t0 == rows[1].tau  t1 == rows[2].tau
         d == Divide(queue, r0, r1, selector = "selectFixedBatched")
         a == d.quotient
         qs == IF selector = "Select" THEN nearbyMultipliers(r0, r1, t0, t1, a)
               ELSE nearbyMultipliersFixed(r0, r1, t0, t1, a)
         tried == <<rows[2]>> \o [i \in 1 .. Len(qs) |-> Row(r0 - qs[i] * r1, t0 - qs[i] * t1)]
         found == considerAll(best, tried)
         done == r0 - a * r1 = 0 IN
     /\ best' = found
     /\ queue' = d.rest
     /\ rows' = <<rows[2], Row(r0 - a * r1, t0 - a * t1)>>
     /\ result' = IF ~ done THEN Running
                  ELSE IF found = <<>> \/ Width(found) > limit THEN Fallback("width-exceeded")
                  ELSE UseCandidate(found)
  /\ iterations' = iterations + 1
  /\ UNCHANGED <<selector, k, limit>>

-----------------------------------------------------------------------------
(* SelectEuclidPrincipal: the first admissible principal row. *)

\* One exact step of the walk; a quotient of more than a word is given up on.
EuclidNext(pair, q) == <<pair[2], Row(pair[1].rho - q * pair[2].rho, pair[1].tau - q * pair[2].tau)>>

ExactStep(q) ==
  MoveTo(EuclidNext(rows, q), FitsWord(q) /\ Fits(rows[1].tau - q * rows[2].tau))

GiveUp(some, cap) ==
  /\ Looping(some)
  /\ rows[2].rho = 0 \/ iterations >= cap
  /\ result' = Fallback("width-exceeded")
  /\ UNCHANGED <<selector, k, limit, rows, queue, best, iterations>>

PrincipalStep ==
  /\ Looping(Principal) /\ rows[2].rho # 0 /\ iterations < principalEuclidIterationCap
  /\ LET d == Divide(queue, rows[1].rho, rows[2].rho, selector = "selectEuclidPrincipalLookahead") IN
     queue' = d.rest /\ ExactStep(d.quotient)
  /\ iterations' = iterations + 1
  /\ UNCHANGED <<selector, k, limit, best>>

-----------------------------------------------------------------------------
(* SelectLehmer: several principal steps at once from the leading words. *)

\* Half a word, and the entry size that stops a batch.
lehmerGuardBits == WordBits \div 2
lehmerCoefficientCap == 2 ^ ((WordBits \div 2) - 1)

\* The Euclidean recurrence on the leading words; a step is taken while the
\* two bounds of its quotient agree and no entry has reached the cap.
lehmerMatrix(r0, r1) ==
  LET shift == BitLen(r0) - (WordBits - 1)
      batch[i \in 0 .. 2 * WordBits] ==
        IF i = 0 THEN [a |-> 1, b |-> 0, c |-> 0, d |-> 1, steps |-> 0,
                       u |-> r0 \div 2 ^ shift, v |-> r1 \div 2 ^ shift]
        ELSE LET s == batch[i - 1]
                 capped == s.steps > 0 /\ (Abs(s.c) >= lehmerCoefficientCap \/ Abs(s.d) >= lehmerCoefficientCap)
                 q == (s.u + s.a) \div (s.v + s.c) IN
             IF capped \/ s.v + s.c <= 0 \/ s.v + s.d <= 0 THEN s
             ELSE IF q # (s.u + s.b) \div (s.v + s.d) THEN s
             ELSE [a |-> s.c, b |-> s.d, c |-> s.a - q * s.c, d |-> s.b - q * s.d,
                   u |-> s.v, v |-> s.u - q * s.v, steps |-> s.steps + 1]
  IN batch[2 * WordBits]

applyLehmerMatrix(pair, m) ==
  <<Row(m.a * pair[1].rho + m.b * pair[2].rho, m.a * pair[1].tau + m.b * pair[2].tau),
    Row(m.c * pair[1].rho + m.d * pair[2].rho, m.c * pair[1].tau + m.d * pair[2].tau)>>

\* A negative or too wide entry means that the batch was no Euclidean walk.
BatchSound(pair) ==
  \A i \in 1 .. 2 : pair[i].rho >= 0 /\ Fits(pair[i].rho) /\ Fits(pair[i].tau)

LehmerBatch == lehmerMatrix(rows[1].rho, rows[2].rho)

\* Mutant: batches run right down to the limit.
BatchedToTheLimit == BitLen(rows[2].rho) > limit /\ LehmerBatch.steps > 0

Batched == BitLen(rows[2].rho) > limit + lehmerGuardBits /\ LehmerBatch.steps > 0

LehmerStep ==
  /\ Looping({"SelectLehmer"}) /\ rows[2].rho # 0 /\ iterations < principalEuclidIterationCap
  /\ \/ /\ Batched
        /\ LET pair == applyLehmerMatrix(rows, LehmerBatch) IN MoveTo(pair, BatchSound(pair))
        /\ iterations' = iterations + LehmerBatch.steps
     \/ /\ ~ Batched
        /\ ExactStep(rows[1].rho \div rows[2].rho)
        /\ iterations' = iterations + 1
  /\ UNCHANGED <<selector, k, limit, queue, best>>

-----------------------------------------------------------------------------
(* SelectShiftSubtract: the larger row minus a shift of the smaller. *)

LargerRow == IF rows[1].rho < rows[2].rho THEN 2 ELSE 1

\* The largest shift that does not make the difference negative.
ShiftOf(large, small) ==
  LET aligned == BitLen(large) - BitLen(small)
  IN IF small * 2 ^ aligned > large THEN aligned - 1 ELSE aligned

ShiftSubtractStep ==
  /\ Looping({"SelectShiftSubtract"})
  /\ \A i \in 1 .. 2 : rows[i].rho # 0
  /\ iterations < shiftSubtractIterationCap
  /\ LET large == rows[LargerRow]
         small == rows[3 - LargerRow]
         shift == ShiftOf(large.rho, small.rho)
         new == Row(large.rho - small.rho * 2 ^ shift, large.tau - small.tau * 2 ^ shift)
         ok == shift >= 0 /\ BitLen(new.rho) < BitLen(large.rho) /\ Fits(new.tau) IN
     /\ rows' = IF ok THEN [rows EXCEPT ![LargerRow] = new] ELSE rows
     /\ result' = IF ~ ok THEN Fallback("width-exceeded")
                  ELSE IF considerShiftSubtractRow(new) THEN UseCandidate(new) ELSE Running
  /\ iterations' = iterations + 1
  /\ UNCHANGED <<selector, k, limit, queue, best>>

ShiftSubtractEnd ==
  /\ Looping({"SelectShiftSubtract"})
  /\ (\E i \in 1 .. 2 : rows[i].rho = 0) \/ iterations >= shiftSubtractIterationCap
  /\ result' = Fallback("width-exceeded")
  /\ UNCHANGED <<selector, k, limit, rows, queue, best, iterations>>

-----------------------------------------------------------------------------
(* SelectApproxQuotient: a power of two for the quotient, signed remainders. *)

\* The rows with the wider remainder first.
ByWidth == IF BitLen(rows[1].rho) < BitLen(rows[2].rho) THEN <<rows[2], rows[1]>> ELSE rows

\* v and w are the coefficients of a row each, x and y their remainders: the
\* shifted row is subtracted when the remainders have the same sign.
TowardsZero(x, y, v, w, shift) ==
  IF (x < 0) = (y < 0) THEN v - w * 2 ^ shift ELSE v + w * 2 ^ shift

ApproxQuotientStep ==
  /\ Looping({"SelectApproxQuotient"}) /\ rows[2].rho # 0
  /\ iterations < approxQuotientIterationCap
  /\ LET wide == ByWidth[1]   narrow == ByWidth[2]
         shift == BitLen(wide.rho) - BitLen(narrow.rho)
         new == Row(TowardsZero(wide.rho, narrow.rho, wide.rho, narrow.rho, shift),
                    TowardsZero(wide.rho, narrow.rho, wide.tau, narrow.tau, shift))
         ok == Fits(new.rho) /\ Fits(new.tau) IN
     /\ result' = IF ~ ok THEN Fallback("width-exceeded")
                  ELSE IF approxQuotientCandidate(new) THEN UseCandidate(new) ELSE Running
     /\ rows' = IF ~ ok THEN ByWidth
                ELSE IF BitLen(new.rho) > BitLen(narrow.rho) THEN <<new, narrow>>
                ELSE <<narrow, new>>
  /\ iterations' = iterations + 1
  /\ UNCHANGED <<selector, k, limit, queue, best>>

-----------------------------------------------------------------------------

Next ==
  \/ Start
  \/ BestStep
  \/ PrincipalStep
  \/ GiveUp(Principal \cup {"SelectLehmer"}, principalEuclidIterationCap)
  \/ LehmerStep
  \/ ShiftSubtractStep \/ ShiftSubtractEnd
  \/ ApproxQuotientStep
  \/ GiveUp({"SelectApproxQuotient"}, approxQuotientIterationCap)

Spec == Init /\ [][Next]_vars

-----------------------------------------------------------------------------
Reduced(x) == x % Modulus
\* tau * k modulo the modulus, in two halves that TLC can multiply.
TimesChallenge(tau) ==
  LET t == Reduced(tau)
  IN Reduced(Reduced((t \div 256) * k) * 256 + (t % 256) * k)

Coprime(x, y) == ~ \E d \in {2, Order} : x % d = 0 /\ y % d = 0

Used == result.fallback = "none"

\* Whatever selector produced it, a candidate in use satisfies the relation
\* rho = tau * k modulo 8L with a tau invertible modulo 8L, and both fit the
\* limit: the condition under which the transformed equation decides exactly
\* what the strict one does, torsion included.
CandidateExact ==
  Used => LET c == result.candidate IN
          /\ Reduced(c.rho) = TimesChallenge(c.tau)
          /\ Coprime(Abs(c.tau), Modulus) /\ c.tau # 0
          /\ BitLen(c.rho) <= limit /\ BitLen(c.tau) <= limit

\* All along every walk both rows satisfy the relation, their determinant is
\* the modulus up to sign, and the coefficients stay within the words they have.
RowsExact ==
  /\ \A i \in 1 .. 2 : Reduced(rows[i].rho) = TimesChallenge(rows[i].tau) /\ Fits(rows[i].tau)
  /\ k > 0 => Abs(rows[1].rho * rows[2].tau - rows[2].rho * rows[1].tau) = Modulus

\* The search of Select and SelectFixed looks at a constant number of rows for
\* each quotient, and yet no pair at all with a unit tau has a smaller larger
\* coefficient: a fallback means that no candidate of that width exists.
Symmetric(x) == LET r == Reduced(x) IN IF r > Modulus - r THEN Modulus - r ELSE r
NoneBelow(bound) ==
  \A tau \in 1 .. (bound - 1) :
    tau % 2 = 1 /\ tau % Order # 0 => Symmetric(tau * k) >= bound
BestExact ==
  selector \in Exhaustive /\ result # Running /\ k \in 1 .. (Order - 1) /\ limit \in WidthLimits =>
    IF Used THEN NoneBelow(Larger(Abs(result.candidate.rho), Abs(result.candidate.tau)))
    ELSE NoneBelow(2 ^ limit)

\* The first admissible row of the exact walk from the given pair, <<>> if a
\* quotient of more than a word or the end comes first.
FirstPrincipal ==
  LET from[i \in 0 .. principalEuclidIterationCap] ==
        IF i = 0 THEN <<Row(Modulus, 0), Row(k, 1)>>
        ELSE LET pair == from[i - 1] IN
             IF Admissible(pair[2]) \/ pair[2].rho = 0 \/ ~ FitsWord(pair[1].rho \div pair[2].rho) THEN pair
             ELSE EuclidNext(pair, pair[1].rho \div pair[2].rho)
      last == from[principalEuclidIterationCap]
  IN IF Admissible(last[2]) THEN last[2] ELSE <<>>

\* SelectLehmer and the lookahead form return exactly what the plain principal
\* walk returns: a batch never steps over the row where the walk stops, and a
\* quotient guessed from leading words never changes it.
SameRow ==
  selector \in Principal \cup {"SelectLehmer"} /\ result # Running
    /\ k \in 1 .. (Order - 1) /\ limit \in WidthLimits =>
    result.candidate = FirstPrincipal

\* No selector reaches its iteration bound with a walk unfinished; the
\* exhaustive selectors have no bound and need none.
LoopsEnd ==
  iterations < (IF selector = "SelectShiftSubtract" THEN shiftSubtractIterationCap
                ELSE principalEuclidIterationCap)

=============================================================================
