----------------------------- MODULE BaseSplit ------------------------------
(***************************************************************************)
(* The half-size verification equation (r51x5/heea_base_split.go,          *)
(* heea_base_split_ifma.go and the four-term multiplication of             *)
(* scalar_window.go):                                                      *)
(*                                                                         *)
(*     [tau*s]B - [tau]R - [epsilon*rho]A                                  *)
(*                                                                         *)
(* where B has order L, so tau*s is reduced modulo L and split over B and  *)
(* [2^SplitBit]B, while R and A may have torsion, so their coefficients    *)
(* stay signed integers.  A point is its discrete logarithm in a cyclic    *)
(* group of order Cofactor * Order.                                        *)
(***************************************************************************)
EXTENDS Recode, TLC

CONSTANTS
  Cofactor,
  X4Lanes,
  Items,       \* what a lane is asked: [s, tau, rho, epsilon, R, A]
  LaneItems,   \* the assignments of items to lanes that are tried
  Later,       \* the assignments a workspace is reused for
  BasePoints   \* the points B

VARIABLES caller, items, width, half, work, coefficients, result, points, asked

vars == <<caller, items, width, half, work, coefficients, result, points, asked>>

frame == <<caller, width, half>>

X8Lanes == 2 * X4Lanes
QSMTerms == 4
heeaBaseSplitBit == StorageBits \div 2
maxFixedScalarRounds == Max({RoundCount[w] : w \in DOMAIN RoundCount})
GroupOrder == Cofactor * Order

BaseSplitAssumption ==
  /\ \A B \in BasePoints : (Order * B) % GroupOrder = 0
  /\ LaneItems \cup Later \subseteq [0 .. (X8Lanes - 1) -> Items]

Term == 0 .. (QSMTerms - 1)
Lane == 0 .. (width - 1)
Identity == 0
Abs(x) == IF x < 0 THEN -x ELSE x
Plus(p, q) == (p + q) % GroupOrder

\* The item of a lane of the workspace: a four-lane one holds one half.
Item(l) == items[half * X4Lanes + l]

-----------------------------------------------------------------------------
\* tau*s modulo L.

ProductWords == 2 * (StorageBits \div WordBits)
Word(x, i) == Low(Shr(x, i * WordBits), WordBits)
WordBase == 2 ^ WordBits

\* heeaAdd128: add a two-word product at a word index; FALSE when it does not fit.
heeaAdd128(acc, index, lo, hi) ==
  LET addend(i) == IF i = index THEN lo ELSE IF i = index + 1 THEN hi ELSE 0
      carry[i \in 0 .. ProductWords] ==
        IF i <= index THEN 0
        ELSE (acc.words[i - 1] + addend(i - 1) + carry[i - 1]) \div WordBase
  IN IF index >= ProductWords THEN [acc EXCEPT !.ok = acc.ok /\ lo = 0 /\ hi = 0]
     ELSE [ok |-> /\ acc.ok /\ carry[ProductWords] = 0
                  /\ (index + 1 = ProductWords => hi = 0),
           words |-> [i \in DOMAIN acc.words |->
                        (acc.words[i] + addend(i) + carry[i]) % WordBase]]

\* reduceUniformScalar (module ScalarReduce) of the assembled words.
reduceUniformScalar(words) ==
  MapThenSumSet(LAMBDA i : words[i] * WordBase ^ i, DOMAIN words) % Order

heeaNegateCanonicalScalar(x) == IF x = 0 THEN 0 ELSE Order - x

WordCount(x) == (BitLen(x) + WordBits - 1) \div WordBits

\* heeaReduceSignedProduct: x*y modulo L, refused when the exact product is
\* wider than the reducer's input.
heeaReduceSignedProduct(x, y) ==
  LET a == Abs(x)
      b == Abs(y)
      m == WordCount(b)
      step[n \in 0 .. (WordCount(a) * m)] ==
        IF n = 0 THEN [ok |-> TRUE, words |-> [i \in 0 .. (ProductWords - 1) |-> 0]]
        ELSE LET before == step[n - 1]
                 i == (n - 1) \div m
                 j == (n - 1) % m
                 p == Word(a, i) * Word(b, j)
             IN heeaAdd128(before, i + j, p % WordBase, p \div WordBase)
      product == step[WordCount(a) * m]
      reduced == reduceUniformScalar(product.words)
  IN IF x = 0 \/ y = 0 THEN [ok |-> TRUE, value |-> 0]
     ELSE IF BitLen(a) + BitLen(b) > 2 * StorageBits THEN [ok |-> FALSE, value |-> 0]
     ELSE [ok |-> product.ok,
           value |-> IF (x < 0) # (y < 0) THEN heeaNegateCanonicalScalar(reduced) ELSE reduced]

-----------------------------------------------------------------------------
\* The portable helpers: tables, digits and one shared doubling chain.

ExperimentalHEEABaseSplitB128(B) ==
  LET d[i \in 0 .. heeaBaseSplitBit] == IF i = 0 THEN B ELSE LET p == d[i - 1] IN Plus(p, p)
  IN d[heeaBaseSplitBit]

\* The multiples 1, 2, 3, ... of a base.
FullTable(base, w) ==
  LET entry[i \in 0 .. (2 ^ (w - 1) - 1)] ==
        IF i = 0 THEN base ELSE LET p == entry[i - 1] IN Plus(p, base)
  IN <<>> \o [i \in 1 .. 2 ^ (w - 1) |-> entry[i - 1]]

Select(table, digit) ==
  IF digit = 0 THEN Identity
  ELSE IF digit < 0 THEN (GroupOrder - table[-digit]) % GroupOrder ELSE table[digit]

\* Digits and lanes are kept as sequences, the lowest first.
Listed(f) == <<>> \o [i \in 1 .. Cardinality(DOMAIN f) |-> f[i - 1]]
DigitAt(d, round) == IF round < Len(d) THEN d[round + 1] ELSE 0

\* One lane of the shared chain: rounds is the longest schedule of the group.
Chain(table, digits, w, rounds) ==
  LET doubled(p, n) == LET d[i \in 0 .. n] == IF i = 0 THEN p ELSE LET q == d[i - 1] IN Plus(q, q)
                       IN d[n]
      sum(p, round) ==
        LET t[i \in 0 .. QSMTerms] ==
              IF i = 0 THEN p
              ELSE LET q == t[i - 1] IN Plus(q, Select(table[i], DigitAt(digits[i], round)))
        IN t[QSMTerms]
      acc[r \in 0 .. rounds] ==
        IF r = 0 THEN Identity
        ELSE LET p == acc[r - 1] IN sum(IF r = 1 THEN p ELSE doubled(p, w), rounds - r)
  IN acc[rounds]

\* QSMX4, QSMX8: inactive lanes select nothing; their coefficients are zero.
QSM(bases, coeffs, w, active) ==
  LET digits == Listed([l \in Lane |->
                  Listed([t \in Term |-> Listed(RecodeRegularRadix(coeffs[l][t], w))])])
      rounds == Max({Len(digits[l + 1][t + 1]) : l \in Lane, t \in Term})
  IN [l \in Lane |->
        IF l \notin active THEN Identity
        ELSE Chain(Listed([t \in Term |-> FullTable(bases[l][t], w)]), digits[l + 1], w, rounds)]

NoCoefficients == [t \in Term |-> 0]

\* HEEAEquationX4, HEEAEquationX8: the exact product, unsplit; the fourth
\* term is unused.
HEEAEquation(B, w, active) ==
  LET usable == {l \in active : Item(l).epsilon \in {-1, 1}}
      coeff(l) == LET x == Item(l)
                  IN <<x.tau * x.s, -x.tau, -(x.epsilon * x.rho), 0>>
      bases == [l \in Lane |-> [t \in Term |-> <<B, Item(l).R, Item(l).A, Identity>>[t + 1]]]
      coeffs == [l \in Lane |-> IF l \in usable THEN [t \in Term |-> coeff(l)[t + 1]]
                                ELSE NoCoefficients]
  IN [usable |-> usable, point |-> QSM(bases, coeffs, w, usable)]

\* ExperimentalHEEABaseSplitEquationX4, X8.
ExperimentalHEEABaseSplitEquation(B, w, active) ==
  LET reduced == [l \in Lane |-> heeaReduceSignedProduct(Item(l).tau, Item(l).s)]
      usable == {l \in active : Item(l).epsilon \in {-1, 1} /\ reduced[l].ok}
      coeff(l) == <<Low(reduced[l].value, heeaBaseSplitBit), Shr(reduced[l].value, heeaBaseSplitBit),
                    -Item(l).tau, -(Item(l).epsilon * Item(l).rho)>>
      bases == [l \in Lane |-> [t \in Term |->
                  <<B, ExperimentalHEEABaseSplitB128(B), Item(l).R, Item(l).A>>[t + 1]]]
      coeffs == [l \in Lane |-> IF l \in usable THEN [t \in Term |-> coeff(l)[t + 1]]
                                ELSE NoCoefficients]
  IN [usable |-> usable, point |-> QSM(bases, coeffs, w, usable)]

-----------------------------------------------------------------------------
\* Coefficients in fixed storage: four magnitudes and sign masks per lane.

\* Mutant: the parity of tau is left to the selector.
AdmissibleTauAny(tau) == TRUE

heeaAdmissibleTau(tau) == Abs(tau) % 2 = 1

\* prepareHEEABaseSplitLane: the four magnitudes and which are negated.
prepareHEEABaseSplitLane(x) ==
  LET reduced == heeaReduceSignedProduct(x.tau, x.s)
      aNegative == IF x.epsilon = 1 THEN ~(x.rho < 0) ELSE x.rho < 0
  IN [ok |-> reduced.ok,
      magnitude |-> <<Low(reduced.value, heeaBaseSplitBit), Shr(reduced.value, heeaBaseSplitBit),
                      Abs(x.tau), Abs(x.rho)>>,
      negative |-> {t \in {2} : x.tau > 0} \cup {t \in {3} : x.rho # 0 /\ aNegative}]

Representable(x) ==
  /\ x.epsilon \in {-1, 1}
  /\ canonicalScalarBytes(x.s) /\ canonicalScalarBytes(Abs(x.tau)) /\ canonicalScalarBytes(Abs(x.rho))
  /\ heeaAdmissibleTau(x.tau)

\* ExperimentalPrepareHEEABaseSplitCoefficientsX4, X8: a rejected lane stays zero.
PrepareCoefficientsOf(lanes, item, active) ==
  LET lane == [l \in lanes |-> prepareHEEABaseSplitLane(item[l])]
      usable == {l \in active : Representable(item[l]) /\ lane[l].ok}
  IN [scalars |-> [t \in Term |-> [l \in lanes |-> IF l \in usable THEN lane[l].magnitude[t + 1] ELSE 0]],
      negativeMasks |-> [t \in Term |-> {l \in usable : t \in lane[l].negative}],
      validMask |-> usable]

\* ExperimentalSplitHEEABaseSplitCoefficientsX8: one half of an x8 record.
ExperimentalSplitHEEABaseSplitCoefficientsX8(c, h) ==
  LET own(mask) == {l \in 0 .. (X4Lanes - 1) : h * X4Lanes + l \in mask}
  IN [scalars |-> [t \in Term |-> [l \in 0 .. (X4Lanes - 1) |-> c.scalars[t][h * X4Lanes + l]]],
      negativeMasks |-> [t \in Term |-> own(c.negativeMasks[t])],
      validMask |-> own(c.validMask)]

\* recodeHEEAFixedScalarX4, X8: only as many digits as the magnitude needs.
recodeHEEAFixedScalar(x, w, negative) ==
  LET n == (BitLen(x) + w - 1) \div w
      r == Balanced([i \in 0 .. (n - 1) |-> fixedScalarBits(x, i * w, w)], w, n)
      all == [i \in 0 .. (IF r.carry = 0 THEN n - 1 ELSE n) |-> IF i = n THEN r.carry ELSE r.digits[i]]
  IN [ok |-> n = 0 \/ r.carry = 0 \/ n < maxFixedScalarRounds,
      digits |-> Listed([i \in DOMAIN all |-> IF negative THEN -all[i] ELSE all[i]])]

\* recodeHEEAFixedScalarsX4, X8 of one term: every lane on its own.
recodeHEEAFixedScalars(c, t, w) ==
  Listed([l \in Lane |-> recodeHEEAFixedScalar(c.scalars[t][l], w, l \in c.negativeMasks[t])])

\* The lanes among the given ones that are still usable after term t.
UsableAfter(t, c, recoded, lanes) ==
  {l \in lanes : \A u \in 0 .. t : canonicalScalarBytes(c.scalars[u][l]) /\ recoded[u + 1][l + 1].ok}

-----------------------------------------------------------------------------
\* The reusable workspace.

NoTable == [l \in Lane |-> <<>>]

NoResult == [kind |-> "none"]

Init ==
  /\ caller \in {"workspace", "portable"}
  /\ items \in LaneItems
  /\ width \in {X4Lanes, X8Lanes}
  /\ half \in (IF width = X4Lanes THEN {0, 1} ELSE {0})
  /\ work = [tables |-> [t \in Term |-> NoTable], radixBits |-> 0, variableValidMask |-> {},
             fixedBasesPrepared |-> FALSE, variableBasesPrepared |-> FALSE]
  /\ coefficients = [scalars |-> [t \in Term |-> [l \in Lane |-> 0]],
                     negativeMasks |-> [t \in Term |-> {}], validMask |-> {}]
  /\ result = NoResult
  /\ points = [l \in Lane |-> [B |-> 0, R |-> 0, A |-> 0, decoded |-> FALSE]]
  /\ asked = [l \in Lane |-> [active |-> FALSE, item |-> Item(l)]]

\* A failing addition leaves a table whose first entry is new.
HalfBuilt(old, new) ==
  [l \in Lane |-> <<new[l][1]>> \o SubSeq(old[l], 2, Len(old[l]))]

FixedTables(B, w) ==
  [t \in {0, 1} |-> [l \in Lane |->
     FullTable(IF t = 0 THEN B ELSE ExperimentalHEEABaseSplitB128(B), w)]]

\* PrepareFixedBase.
PrepareFixedBase(B, w) ==
  /\ work' = [work EXCEPT !.tables = FixedTables(B, w) @@ work.tables,
                          !.radixBits = w, !.variableValidMask = {},
                          !.fixedBasesPrepared = TRUE, !.variableBasesPrepared = FALSE]
  /\ points' = [l \in Lane |-> [points[l] EXCEPT !.B = B]]
  /\ result' = NoResult
  /\ UNCHANGED <<frame, items, coefficients, asked>>

PrepareFixedBaseFails(B, w) ==
  /\ \E t \in {0, 1} :
       work' = [work EXCEPT
         !.tables = [u \in Term |-> IF u < t THEN FixedTables(B, w)[u]
                                    ELSE IF u = t THEN HalfBuilt(work.tables[u], FixedTables(B, w)[u])
                                    ELSE work.tables[u]],
         !.variableValidMask = {}, !.fixedBasesPrepared = FALSE, !.variableBasesPrepared = FALSE]
  /\ result' = NoResult
  /\ UNCHANGED <<frame, items, coefficients, points, asked>>

\* The variable tables; an undecoded R enters as the identity
\* (heeaIFMAPointFromAffineX4, X8 and the two builders).
VariableTables(valid) ==
  [t \in {2, 3} |-> [l \in Lane |->
     FullTable(IF t = 3 THEN Item(l).A ELSE IF l \in valid THEN Item(l).R ELSE Identity, work.radixBits)]]

\* PrepareVariableBasesAffineR, and PrepareVariableBases with every lane valid.
PrepareVariableBases(valid) ==
  /\ work.fixedBasesPrepared
  /\ work' = [work EXCEPT !.tables = VariableTables(valid) @@ work.tables,
                          !.variableValidMask = valid, !.variableBasesPrepared = TRUE]
  /\ points' = [l \in Lane |-> [B |-> points[l].B, A |-> Item(l).A, decoded |-> l \in valid,
                                R |-> IF l \in valid THEN Item(l).R ELSE Identity]]
  /\ result' = NoResult
  /\ UNCHANGED <<frame, items, coefficients, asked>>

\* A failing builder: PrepareVariableBases keeps the old mask, the affine form
\* clears it; either way the workspace is no longer prepared.
PrepareVariableBasesFails ==
  /\ work.fixedBasesPrepared
  /\ \E t \in {2, 3}, mask \in {{}, work.variableValidMask} :
       work' = [work EXCEPT
         !.tables = [u \in Term |->
                       IF u = 2 /\ t = 3 THEN VariableTables(Lane)[u]
                       ELSE IF u = t THEN HalfBuilt(work.tables[u], VariableTables(Lane)[u])
                       ELSE work.tables[u]],
         !.variableValidMask = mask, !.variableBasesPrepared = FALSE]
  /\ result' = NoResult
  /\ UNCHANGED <<frame, items, coefficients, points, asked>>

\* Fill the record directly, or take half of an x8 record.
PrepareCoefficients(active, split) ==
  /\ LET direct == PrepareCoefficientsOf(Lane, [l \in Lane |-> Item(l)], active)
         whole == PrepareCoefficientsOf(0 .. (X8Lanes - 1), items,
                                        {half * X4Lanes + l : l \in active})
     IN coefficients' = IF split THEN ExperimentalSplitHEEABaseSplitCoefficientsX8(whole, half)
                        ELSE direct
  /\ asked' = [l \in Lane |-> [active |-> l \in active, item |-> Item(l)]]
  /\ result' = NoResult
  /\ UNCHANGED <<frame, items, work, points>>

Recoded == Listed([t \in Term |-> recodeHEEAFixedScalars(coefficients, t, work.radixBits)])

\* What a result is an answer to.
Question(l) ==
  [s |-> asked[l].item.s, tau |-> asked[l].item.tau, rho |-> asked[l].item.rho,
   epsilon |-> asked[l].item.epsilon, admitted |-> asked[l].active,
   decoded |-> points[l].decoded, B |-> points[l].B, R |-> points[l].R, A |-> points[l].A]

\* Evaluate.  When a kernel fails it returns every active lane as a fallback
\* and has written nothing but its digits, which the next call overwrites.
Evaluate(active) ==
  /\ work.fixedBasesPrepared /\ work.variableBasesPrepared
  /\ \E recoded \in {Recoded} :
       LET started == active \cap coefficients.validMask \cap work.variableValidMask
           usable == UsableAfter(QSMTerms - 1, coefficients, recoded, started)
           rounds == Max({0} \cup UNION {{Len(recoded[t + 1][l + 1].digits) :
                           l \in UsableAfter(t, coefficients, recoded, started)} : t \in Term})
       IN result' = [kind |-> "ifma", active |-> active, usable |-> usable,
                   fallback |-> active \ usable,
                   out |-> [l \in Lane |->
                     IF l \notin usable THEN Identity
                     ELSE Chain(Listed([t \in Term |-> work.tables[t][l]]),
                                Listed([t \in Term |-> recoded[t + 1][l + 1].digits]),
                                work.radixBits, rounds)],
                   question |-> [l \in Lane |-> Question(l)]]
  /\ UNCHANGED <<frame, items, work, coefficients, points, asked>>

\* The portable equations answer for the caller's points directly.
EvaluatePortable(kind, B, w, active) ==
  /\ LET r == IF kind = "exact" THEN HEEAEquation(B, w, active)
              ELSE ExperimentalHEEABaseSplitEquation(B, w, active)
     IN result' = [kind |-> kind, active |-> active, usable |-> r.usable,
                   fallback |-> active \ r.usable, out |-> r.point,
                   question |-> [l \in Lane |-> [B |-> B] @@ Item(l)]]
  /\ UNCHANGED <<frame, items, work, coefficients, points, asked>>

\* The caller moves on to other signatures and keeps the workspace.
NextItems(next) ==
  /\ result.kind # "none" /\ next # items
  /\ items' = next
  /\ UNCHANGED <<frame, work, coefficients, result, points, asked>>

Workspace ==
  \/ \E B \in BasePoints, w \in DOMAIN RoundCount :
       PrepareFixedBase(B, w) \/ PrepareFixedBaseFails(B, w)
  \/ PrepareVariableBasesFails
  \/ \E valid \in SUBSET Lane : PrepareVariableBases(valid)
  \/ \E active \in SUBSET Lane, split \in BOOLEAN :
       (split => width = X4Lanes) /\ PrepareCoefficients(active, split)
  \/ \E active \in SUBSET Lane : Evaluate(active)
  \/ \E next \in Later : NextItems(next)

\* The portable equations share nothing with a workspace.
Portable ==
  \E kind \in {"exact", "split"}, B \in BasePoints, w \in DOMAIN RoundCount, active \in SUBSET Lane :
    EvaluatePortable(kind, B, w, active)

Next ==
  \/ caller = "workspace" /\ Workspace
  \/ caller = "portable" /\ Portable

Spec == Init /\ [][Next]_vars

-----------------------------------------------------------------------------

\* Every usable lane holds [tau*s]B - [tau]R - [epsilon*rho]A of the point it
\* was prepared with, exactly, on points with torsion too, and every other
\* lane the identity: through the split at bit 128, recoding to the length of
\* the longest lane, reused or half-built tables and the x8 to x4 handoff.
EquationExact ==
  result.kind # "none" =>
    \A l \in Lane :
      LET q == result.question[l]
      IN result.out[l] = IF l \in result.usable
                  THEN (q.tau * q.s * q.B - q.tau * q.R - q.epsilon * q.rho * q.A) % GroupOrder
                  ELSE Identity

\* With a half-size relation rho = epsilon*tau*k modulo 8L, a usable lane of
\* the workspace gives the identity exactly when the signature equation
\* [s]B = R + [k]A holds without clearing the cofactor: the gates leave no
\* multiplier that could hide a torsion error.
AcceptsExact ==
  result.kind = "ifma" =>
    \A l \in result.usable, k \in 0 .. (Order - 1) :
      LET q == result.question[l]
      IN (q.rho - q.epsilon * q.tau * k) % GroupOrder = 0
           => (result.out[l] = Identity <=> (q.s * q.B - q.R - k * q.A) % GroupOrder = 0)

\* The lanes an Evaluate answers for are those with representable
\* coefficients, admitted by their preparation and decoded: no undecoded R is
\* ever reported usable, and none is sent to the slow path without need.
FallbackExact ==
  result.kind = "ifma" =>
    /\ result.usable = {l \in result.active :
         LET q == result.question[l]
         IN /\ q.admitted /\ q.decoded /\ q.epsilon * q.epsilon = 1 /\ q.tau % 2 = 1
            /\ {q.s, q.tau, q.rho} \subseteq (1 - Order) .. (Order - 1)}
    /\ result.fallback = result.active \ result.usable

=============================================================================
