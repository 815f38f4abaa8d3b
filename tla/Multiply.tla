------------------------------ MODULE Multiply ------------------------------
(***************************************************************************)
(* The scalar multiplications [s]B - [k]A behind every verifier: table     *)
(* construction, digit selection and the schedule of doublings and         *)
(* additions, one schedule per evaluator.  A point is an exact integer     *)
(* combination of the bases, so that -k and L-k are told apart as they are *)
(* on a key with a torsion component.  Lanes of a group share a schedule.  *)
(***************************************************************************)
EXTENDS Recode, SequencesExt

CONSTANTS
  Lanes,      \* lanes of a group, 0 first
  Keys,       \* the points A
  Groups,     \* assignments of keys to lanes that a caller prepares
  Scalars,    \* what lane 0 carries
  SecondLane, \* what the lanes above 0 carry: pairs <<s, k>>
  WA, WB,     \* digit widths of the two terms
  PA, PB,     \* passes of the partial comb
  NA, NB      \* non-adjacent form widths

VARIABLES evaluator, table, prepared, keys, s, k, active, usable, digits, plan, acc, form, out, result

vars == <<evaluator, table, prepared, keys, s, k, active, usable, digits, plan, acc, form, out, result>>

MultiplyAssumption ==
  /\ {WA, WB} \subseteq DOMAIN RoundCount /\ Groups \subseteq [Lanes -> Keys]
  /\ (asymmetricFixedBRoundCount(WB) - 1) * WB <= (RoundCount[WA] - 1) * WA

Bases == {"B"} \cup Keys
Identity == [b \in Bases |-> 0]
Base(b) == [Identity EXCEPT ![b] = 1]
Add(p, q) == [b \in Bases |-> p[b] + q[b]]
Negate(p) == [b \in Bases |-> -p[b]]
Double(p) == Add(p, p)
DoubleTimes(p, n) == LET d[i \in 0 .. n] == IF i = 0 THEN p ELSE Double(d[i - 1]) IN d[n]

Vendored == {"radix16", "doubleComb", "baseMult", "scalarMult", "naf", "multiNaf", "r43Naf"}
OneSignature == Vendored \cup {"quadNaf", "twoChain"}
Regular == {"dsm", "scalarLoop"}
Portable == Vendored \cup {"dsm", "portable", "portableVariable"}
FixedDSM == {"portable", "fixed"}
VariableBase == {"portableVariable", "variable", "niels", "projectiveDouble"}
FixedB10 == {"fixedB10", "wholeWindow"}
Evaluators == OneSignature \cup Regular \cup FixedDSM \cup VariableBase \cup FixedB10
              \cup {"asymmetric", "partial", "comb", "paired"}

\* The terms a workspace holds, and the shape of each table: digit width, row
\* count, doublings between two rows, odd multiples only.
Terms(e) ==
  IF e \in VariableBase \cup {"scalarLoop", "scalarMult"} THEN {"A"}
  ELSE IF e \in {"comb", "baseMult"} THEN {"B"} ELSE {"A", "B"}

digitCount(w) == asymmetricFixedBRoundCount(w)
rowCount(w, p) == (digitCount(w) + p - 1) \div p
onlineDepth(w, p) == w * (p - 1)
positions(w) == (RoundCount[w] + 1) \div 2

fullTable(w) == [width |-> w, rows |-> 1, shift |-> 0, odd |-> FALSE]
partialCombTable(w, p) == [width |-> w, rows |-> rowCount(w, p), shift |-> w * p, odd |-> FALSE]
fixedBaseCombTable(w) == [width |-> w, rows |-> positions(w), shift |-> 2 * w, odd |-> FALSE]
PubkeyTable == [width |-> ByteBits \div 2, rows |-> StorageBits \div ByteBits,
                shift |-> ByteBits, odd |-> FALSE]
basepointTable == PubkeyTable
projLookupTable == fullTable(ByteBits \div 2)
nafTable(w) == [width |-> w, rows |-> 1, shift |-> 0, odd |-> TRUE]

Shape(e, t) ==
  CASE e \in Regular \cup FixedDSM \cup VariableBase -> fullTable(WA)
    [] e = "asymmetric" -> fullTable(IF t = "A" THEN WA ELSE WB)
    [] e \in FixedB10 -> fullTable(IF t = "A" THEN WA ELSE 2 * WA)
    [] e = "partial" -> IF t = "A" THEN partialCombTable(WA, PA) ELSE partialCombTable(WB, PB)
    [] e = "comb" -> fixedBaseCombTable(WA)
    [] e \in {"radix16", "scalarMult"} -> projLookupTable
    [] e = "doubleComb" -> PubkeyTable
    [] e = "baseMult" -> basepointTable
    [] OTHER -> nafTable(IF t = "A" \/ e = "multiNaf" THEN NA ELSE NB)

EntryCount(shape) == IF shape.odd THEN 2 ^ (shape.width - 2) ELSE 2 ^ (shape.width - 1)

\* Row r starts at the base doubled r * shift times; its entries are the
\* multiples 1, 2, 3, ... or, for a non-adjacent form, 1, 3, 5, ...
BuildRow(rowBase, shape) ==
  LET step == IF shape.odd THEN Double(rowBase) ELSE rowBase
      row[i \in 0 .. (EntryCount(shape) - 1)] ==
        IF i = 0 THEN rowBase ELSE Add(row[i - 1], step)
  IN row

BuildTable(base, shape) ==
  LET rowBase[r \in 0 .. (shape.rows - 1)] ==
        IF r = 0 THEN base ELSE DoubleTimes(rowBase[r - 1], shape.shift)
  IN [r \in 0 .. (shape.rows - 1) |-> BuildRow(rowBase[r], shape)]

NoTable(shape) ==
  [r \in 0 .. (shape.rows - 1) |-> [i \in 0 .. (EntryCount(shape) - 1) |-> Identity]]

\* The first n entries in building order are new, the others still the old ones.
HalfBuilt(old, new, shape, n) ==
  [r \in DOMAIN new |-> [i \in DOMAIN new[r] |->
     IF r * EntryCount(shape) + i < n THEN new[r][i] ELSE old[r][i]]]

-----------------------------------------------------------------------------

\* The shared digits of B in the ten-bit table of eight lanes.
RecodeAsymmetricFixedB10(x) == RecodeAsymmetric(x, 2 * WA, FALSE)

\* Digits of the scalars.  The vendored code negates A and keeps k; the others
\* keep A and negate every digit of k, as integers.
DigitsOf(e, t, x) ==
  LET minus == t = "A"
      w == IF minus \/ e = "multiNaf" THEN NA ELSE NB
      quad == RecodeQuadCanonicalNAF(x, w) IN
  CASE e \in Regular -> RecodeRegularRadix(IF minus THEN -x ELSE x, WA)
    [] e \in FixedDSM \cup VariableBase \/ (minus /\ e \in FixedB10 \cup {"asymmetric"}) ->
         RecodeCanonicalScalar(x, WA, minus).digits
    [] e = "asymmetric" -> RecodeAsymmetric(x, WB, FALSE).digits
    [] e \in FixedB10 -> RecodeAsymmetricFixedB10(x).digits
    [] e = "partial" -> RecodeAsymmetric(x, IF minus THEN WA ELSE WB, minus).digits
    [] e = "comb" -> RecodeFixedBase(x, WA).digits
    [] e \in {"radix16", "scalarMult", "doubleComb", "baseMult"} -> signedRadix16(x)
    [] e = "r43Naf" -> R43NonAdjacentForm(x, w)
    [] e \in Vendored -> nonAdjacentForm(x, w)
    [] OTHER -> [i \in DOMAIN quad |-> IF minus THEN -quad[i] ELSE quad[i]]

TermBase(e, t, key) ==
  IF t = "B" THEN Base("B") ELSE IF e \in Vendored THEN Negate(Base(key)) ELSE Base(key)

\* NonzeroMask & usable # 0.
Hit(d, t, i, u) == \E l \in u : i \in DOMAIN d[t][l] /\ d[t][l][i] # 0

\* A step of a schedule.  The experiments keep the accumulator without its T
\* coordinate (P2) or as an unmultiplied quotient (completed) between doublings.
Op(op) == [op |-> op, term |-> "none", row |-> 0, round |-> 0]
AddStep(t, row, i) == [op |-> "add", term |-> t, row |-> row, round |-> i]
Repeat(op, n) == [j \in 1 .. n |-> Op(op)]
Doubles(n) == Repeat("double", n)
AddIf(d, u, t, row, i) == IF Hit(d, t, i, u) THEN <<AddStep(t, row, i)>> ELSE <<>>

Accepts(op) ==
  CASE op \in {"double", "add", "combine"} -> {"P3"}
    [] op = "doubleP2" -> {"P3", "P2"}
    [] op \in {"doubleP3", "doubleC"} -> {"P2"}
    [] OTHER -> {"completed"}

Yields(op) ==
  CASE op \in {"doubleP2", "toP2"} -> "P2"
    [] op \in {"doubleC", "addC"} -> "completed"
    [] OTHER -> "P3"

\* Rounds from n - 1 down to 0 with the doublings of one digit between them.
Rounds(n, between, adds(_)) ==
  FlattenSeq([j \in 1 .. n |-> (IF j = 1 THEN <<>> ELSE between) \o adds(n - j)])

\* DSMX4, DSMX8: the rounds of the longest lane of either term; a term or lane
\* that is shorter adds the identity.
DSMPlan(d, u) ==
  LET lens == {Cardinality(DOMAIN d[t][l]) : t \in DOMAIN d, l \in Lanes}
      add(i) == <<AddStep("B", 0, i), AddStep("A", 0, i)>>
  IN Rounds(Max(lens), Doubles(WA), add)

\* ScalarMultLoopX4, X8: one term of that schedule.
ScalarMultLoopPlan(d, u) ==
  LET add(i) == <<AddStep("A", 0, i)>>
  IN Rounds(Max({Cardinality(DOMAIN d["A"][l]) : l \in Lanes}), Doubles(WA), add)

\* The bridged and the composable IFMA loops.
IFMAScalarMultLoopPlan(d, u) == ScalarMultLoopPlan(d, u)

\* FixedDSMWorkspace.Evaluate.
PortableDSMPlan(d, u) ==
  LET add(i) == AddIf(d, u, "B", 0, i) \o AddIf(d, u, "A", 0, i)
  IN Rounds(RoundCount[WA], Doubles(WA), add)

\* The IFMA workspaces run the same rounds.
FixedDSMPlan(d, u) == PortableDSMPlan(d, u)

VariableBasePlan(d, u) ==
  LET add(i) == AddIf(d, u, "A", 0, i) IN Rounds(RoundCount[WA], Doubles(WA), add)

\* The IFMA variable-base workspaces, extended or projective Niels entries.
IFMAVariableBasePlan(d, u) == VariableBasePlan(d, u)

\* The x8 workspaces with projective Niels tables, grouped or per key.
ProjectiveNielsPlan(d, u) == VariableBasePlan(d, u)
MicroAoSPlan(d, u) == ProjectiveNielsPlan(d, u)

\* P3 -> P2 -> ... -> P3: T is dropped by the first doublings of a window and
\* restored by the last.
ProjectiveWindow(w) == Repeat("doubleP2", w - 1) \o <<Op("doubleP3")>>

ProjectiveDoublePlan(d, u) ==
  LET add(i) == AddIf(d, u, "A", 0, i) IN Rounds(RoundCount[WA], ProjectiveWindow(WA), add)

\* evaluateAsymmetricFixedB[Dense]PreparedRadix64DSMX4: one timeline of exponents
\* that starts at A's last round.
AsymmetricPlan(d, u) ==
  LET top == (RoundCount[WA] - 1) * WA
      add(x) == (IF x % WB = 0 /\ x \div WB < digitCount(WB)
                 THEN AddIf(d, u, "B", 0, x \div WB) ELSE <<>>)
                \o (IF x % WA = 0 THEN AddIf(d, u, "A", 0, x \div WA) ELSE <<>>)
  IN Rounds(top + 1, Doubles(1), add)

\* IFMAAsymmetricFixedB10EvaluateX8: a digit of B is two digits of A wide.
FixedB10Plan(d, u) ==
  LET even(b) == AddIf(d, u, "B", 0, b) \o AddIf(d, u, "A", 0, 2 * b)
      block(b) == even(b) \o (IF b = 0 THEN <<>>
                              ELSE ProjectiveWindow(WA) \o AddIf(d, u, "A", 0, 2 * b - 1))
  IN Rounds(digitCount(2 * WA), ProjectiveWindow(WA), block)

Completed(plan0) == [j \in DOMAIN plan0 |-> [plan0[j] EXCEPT !.op = "addC"]]
CompletedWindow(w) == Repeat("doubleP2", w - 1) \o <<Op("doubleC")>>

\* IFMAAsymmetricFixedB10EvaluateWholeWindowExperimentX8: inside the loop digits
\* are added to the completed form; the first and last blocks use P3.
WholeWindowPlan(d, u) ==
  LET even(b) == AddIf(d, u, "B", 0, b) \o AddIf(d, u, "A", 0, 2 * b)
      odd(b) == CompletedWindow(WA) \o Completed(AddIf(d, u, "A", 0, 2 * b - 1)) \o <<Op("toP2")>>
      block(b) == IF b = 0 THEN <<Op("toP3")>> \o even(0)
                  ELSE Completed(even(b)) \o <<Op("toP2")>> \o odd(b)
      top == digitCount(2 * WA) - 1
  IN even(top) \o odd(top) \o CompletedWindow(WA) \o Rounds(top, CompletedWindow(WA), block)

\* One pass of the partial comb: a digit of each row.
Pass(d, u, t, w, p, pass) ==
  FlattenSeq([r \in 1 .. rowCount(w, p) |->
    LET i == (r - 1) * p + pass IN
    IF i >= digitCount(w) THEN <<>> ELSE AddIf(d, u, t, r - 1, i)])

PartialCombPlan(d, u) ==
  LET top == Max({onlineDepth(WA, PA), onlineDepth(WB, PB)})
      add(x) == (IF x % WB = 0 /\ x \div WB < PB THEN Pass(d, u, "B", WB, PB, x \div WB) ELSE <<>>)
                \o (IF x % WA = 0 /\ x \div WA < PA THEN Pass(d, u, "A", WA, PA, x \div WA) ELSE <<>>)
  IN Rounds(top + 1, Doubles(1), add)

\* Ascending rounds first, first + 2, ... of a comb whose rows are two digits apart.
EveryOther(first, n, add(_)) == FlattenSeq([j \in 1 .. n |-> add(first + 2 * (j - 1))])

\* ExperimentalFixedBaseCombScalarMult: odd rounds, w doublings, even rounds.
\* With an odd count the last position has no odd round.
FixedBaseCombPlan(d, u) ==
  LET add(r) == IF r >= RoundCount[WA] THEN <<>> ELSE AddIf(d, u, "B", r \div 2, r)
  IN EveryOther(1, positions(WA), add) \o Doubles(WA) \o EveryOther(0, positions(WA), add)

\* The IFMA combs.
IFMAFixedBaseCombPlan(d, u) == FixedBaseCombPlan(d, u)

\* MultiScalarMult of the vendored code: every digit is added.
MultiScalarMultPlan(d, u) ==
  LET add(i) == <<AddStep("A", 0, i), AddStep("B", 0, i)>>
  IN Rounds(2 * (StorageBits \div ByteBits), Doubles(ByteBits \div 2), add)

\* VarTimeDoubleCombMult.
DoubleCombPlan(d, u) ==
  LET n == StorageBits \div ByteBits
      add(i) == AddIf(d, u, "A", i \div 2, i) \o AddIf(d, u, "B", i \div 2, i)
  IN EveryOther(1, n, add) \o Doubles(ByteBits \div 2) \o EveryOther(0, n, add)

\* ScalarMult and ScalarBaseMult: one term, no digit skipped.
ScalarMultPlan(d, u) ==
  LET add(i) == <<AddStep("A", 0, i)>>
  IN Rounds(2 * (StorageBits \div ByteBits), Doubles(ByteBits \div 2), add)

ScalarBaseMultPlan(d, u) ==
  LET n == StorageBits \div ByteBits
      add(i) == <<AddStep("B", i \div 2, i)>>
  IN EveryOther(1, n, add) \o Doubles(ByteBits \div 2) \o EveryOther(0, n, add)

\* The r43x6 copy starts at the top position, doubling the identity.
R43NafPlan(d, u) ==
  LET add(i) == Doubles(1) \o AddIf(d, u, "A", 0, i) \o AddIf(d, u, "B", 0, i)
  IN Rounds(StorageBits, <<>>, add)

\* VarTimeMultiScalarMult: as many terms as there are points, small tables.
VarTimeMultiScalarMultPlan(d, u) == R43NafPlan(d, u)

\* varTimeDoubleScalarBaseMult starts at the highest nonzero digit.
NafPlan(d, u) ==
  LET hits == {i \in 0 .. (StorageBits - 1) : Hit(d, "A", i, u) \/ Hit(d, "B", i, u)}
      add(i) == Doubles(1) \o AddIf(d, u, "A", 0, i) \o AddIf(d, u, "B", 0, i)
  IN IF hits = {} THEN <<>> ELSE Rounds(Max(hits) + 1, <<>>, add)

\* evaluateQuadNAFVerifyX4 and its hardware form.
QuadNafPlan(d, u) == NafPlan(d, u)

\* evaluateQuadTwoChainNAFVerifyX8Experiment: the two terms run in the halves of
\* one register and are added at the end.
TwoChainPlan(d, u) == NafPlan(d, u) \o <<Op("combine")>>

\* evaluateQuadPairedNAFVerifyX8: a signature in each half, one schedule; it
\* starts at the highest digit of either and adds when either has one.
PairedNafPlan(d, u) == NafPlan(d, u)

PlanOf(e, d, u) ==
  CASE e = "dsm" -> DSMPlan(d, u)
    [] e = "scalarLoop" -> IFMAScalarMultLoopPlan(d, u)
    [] e = "portable" -> PortableDSMPlan(d, u)
    [] e = "fixed" -> FixedDSMPlan(d, u)
    [] e = "portableVariable" -> VariableBasePlan(d, u)
    [] e = "variable" -> IFMAVariableBasePlan(d, u)
    [] e = "niels" -> MicroAoSPlan(d, u)
    [] e = "projectiveDouble" -> ProjectiveDoublePlan(d, u)
    [] e = "asymmetric" -> AsymmetricPlan(d, u)
    [] e = "fixedB10" -> FixedB10Plan(d, u)
    [] e = "wholeWindow" -> WholeWindowPlan(d, u)
    [] e = "partial" -> PartialCombPlan(d, u)
    [] e = "comb" -> IFMAFixedBaseCombPlan(d, u)
    [] e = "radix16" -> MultiScalarMultPlan(d, u)
    [] e = "doubleComb" -> DoubleCombPlan(d, u)
    [] e = "scalarMult" -> ScalarMultPlan(d, u)
    [] e = "baseMult" -> ScalarBaseMultPlan(d, u)
    [] e = "multiNaf" -> VarTimeMultiScalarMultPlan(d, u)
    [] e = "naf" -> NafPlan(d, u)
    [] e = "r43Naf" -> R43NafPlan(d, u)
    [] e = "quadNaf" -> QuadNafPlan(d, u)
    [] e = "twoChain" -> TwoChainPlan(d, u)
    [] e = "paired" -> PairedNafPlan(d, u)

Signed(p, x) == IF x < 0 THEN Negate(p) ELSE p
Magnitude(x) == IF x < 0 THEN -x ELSE x

\* SelectFullTableX4Public and X8.
SelectFullTable(rows, row, x) == Signed(rows[row][Magnitude(x) - 1], x)

\* selectIFMAFullTable, checked and unchecked.
SelectIFMAFullTable(rows, row, x) == SelectFullTable(rows, row, x)

\* The per-key micro-AoS selectors of four lanes.
SelectMicroAoS(rows, row, x) == SelectFullTable(rows, row, x)

\* The pre-signed tables hold both signs; the sign is an index, not a negation.
PreSigned(rows) == [sign \in {0, 1} |-> [r \in DOMAIN rows |-> [i \in DOMAIN rows[r] |->
                      IF sign = 0 THEN rows[r][i] ELSE Negate(rows[r][i])]]]
SelectPreSigned(rows, row, x) == PreSigned(rows)[IF x < 0 THEN 1 ELSE 0][row][Magnitude(x) - 1]
SelectFixedB10(rows, row, x) == SelectPreSigned(rows, row, x)
SelectProjectiveNiels(rows, row, x) == SelectFullTable(rows, row, x)

\* The vendored selections of a signed digit.
SelectInto(rows, row, x) == SelectFullTable(rows, row, x)
selectVartime(rows, row, x) == SelectInto(rows, row, x)

\* selectAsymmetricFixedB, scalar and dense; the partial comb and the fixed-base
\* comb index a row first.
SelectAsymmetric(rows, row, x) == SelectFullTable(rows, row, x)
SelectPartialComb(rows, row, x) == SelectFullTable(rows, row, x)
SelectFixedBaseCached(rows, row, x) == SelectFullTable(rows, row, x)

\* The odd-multiple tables.
SelectNAF(rows, row, x) == Signed(rows[row][Magnitude(x) \div 2], x)
SelectR43NAF(rows, row, x) == SelectNAF(rows, row, x)
SelectQuadNAFEntry(rows, row, x) == SelectNAF(rows, row, x)
SelectQuadPairedNAFEntry(rows, row, x) == SelectQuadNAFEntry(rows, row, x)

Selector(e, t, rows, row, x) ==
  CASE e \in {"fixed", "scalarLoop"} -> SelectIFMAFullTable(rows, row, x)
    [] e \in FixedB10 /\ t = "B" -> SelectFixedB10(rows, row, x)
    [] e \in {"projectiveDouble"} \cup FixedB10 -> SelectPreSigned(rows, row, x)
    [] e = "niels" -> SelectProjectiveNiels(rows, row, x)
    [] e = "variable" \/ (e = "asymmetric" /\ t = "A") -> SelectMicroAoS(rows, row, x)
    [] e = "asymmetric" /\ t = "B" -> SelectAsymmetric(rows, row, x)
    [] e = "partial" -> SelectPartialComb(rows, row, x)
    [] e = "comb" -> SelectFixedBaseCached(rows, row, x)
    [] e \in {"naf", "multiNaf"} -> SelectNAF(rows, row, x)
    [] e = "r43Naf" -> SelectR43NAF(rows, row, x)
    [] e \in {"radix16", "scalarMult", "baseMult"} -> SelectInto(rows, row, x)
    [] e = "doubleComb" -> selectVartime(rows, row, x)
    [] e \in {"quadNaf", "twoChain"} -> SelectQuadNAFEntry(rows, row, x)
    [] e = "paired" -> SelectQuadPairedNAFEntry(rows, row, x)
    [] OTHER -> SelectFullTable(rows, row, x)

\* A lane without a digit in the round, or not usable, adds the identity.
Select(step, lane) ==
  LET d == digits[step.term][lane]
      x == IF step.round \in DOMAIN d THEN d[step.round] ELSE 0
  IN IF x = 0 \/ lane \notin usable THEN Identity
     ELSE Selector(evaluator, step.term, table[step.term][lane], step.row, x)

-----------------------------------------------------------------------------

AllIdentity == [l \in Lanes |-> Identity]

Init ==
  /\ evaluator \in Evaluators
  /\ table = [t \in Terms(evaluator) |-> [l \in Lanes |-> NoTable(Shape(evaluator, t))]]
  /\ prepared = [t \in Terms(evaluator) |-> FALSE]
  /\ keys = CHOOSE g \in Groups : TRUE
  /\ s = [l \in Lanes |-> 0] /\ k = [l \in Lanes |-> 0]
  /\ active = {} /\ usable = {} /\ digits = <<>> /\ plan = <<>>
  /\ acc = AllIdentity /\ form = "P3" /\ out = AllIdentity /\ result = "idle"

\* PrepareFixedBase: a new fixed base drops the variable one.
PrepareFixedBase ==
  /\ result = "idle" /\ "B" \in Terms(evaluator)
  /\ table' = [table EXCEPT !["B"] = [l \in Lanes |-> BuildTable(Base("B"), Shape(evaluator, "B"))]]
  /\ prepared' = [t \in DOMAIN prepared |-> t = "B"]
  /\ UNCHANGED <<evaluator, keys, s, k, active, usable, digits, plan, acc, form, out, result>>

NewTables(g) ==
  [l \in Lanes |-> BuildTable(TermBase(evaluator, "A", g[l]), Shape(evaluator, "A"))]

\* PrepareVariableBase, or Prepare of a one-term workspace.
PrepareVariableBase(g) ==
  /\ result = "idle" /\ "A" \in Terms(evaluator)
  /\ \A t \in Terms(evaluator) \ {"A"} : prepared[t]
  /\ table' = [table EXCEPT !["A"] = NewTables(g)]
  /\ prepared' = [prepared EXCEPT !["A"] = TRUE]
  /\ keys' = g
  /\ UNCHANGED <<evaluator, s, k, active, usable, digits, plan, acc, form, out, result>>

PreparedAfterFailure == [prepared EXCEPT !["A"] = FALSE]

\* A point addition fails while the table is being replaced.
PrepareVariableBaseFails(g, n) ==
  /\ result = "idle" /\ evaluator \in {"fixed", "variable", "niels", "projectiveDouble"}
  /\ \A t \in Terms(evaluator) \ {"A"} : prepared[t]
  /\ table' = [table EXCEPT !["A"] = [l \in Lanes |->
                 HalfBuilt(@[l], NewTables(g)[l], Shape(evaluator, "A"), n)]]
  /\ prepared' = PreparedAfterFailure
  /\ UNCHANGED <<evaluator, keys, s, k, active, usable, digits, plan, acc, form, out, result>>

Canonical(l) == canonicalScalarBytes(s'[l]) /\ canonicalScalarBytes(k'[l])

\* Mutant: the shape is read from lane 0, which may have no table.
SpecFromLaneZero(a) == IF a = {} THEN -1 ELSE 0

\* liveHeterogeneousPartialCombSpec: per-key tables exist for active lanes only.
liveSpecLane(a) == IF a = {} THEN -1 ELSE Min(a)

\* twoChain: the low half carries A's digits and the high half B's.
DigitRows(e) ==
  [t \in Terms(e) |-> [l \in Lanes |->
     LET x == IF t = "A" THEN k'[IF e = "twoChain" THEN 0 ELSE l]
              ELSE s'[IF e = "twoChain" THEN 0 ELSE l]
         dead == (e = "twoChain" /\ (t = "A") # (l = 0)) \/ (e \notin Regular \cup {"twoChain"} /\ l \notin usable')
         d == DigitsOf(e, t, x)
     IN IF dead THEN [i \in DOMAIN d |-> 0] ELSE d]]

\* Evaluate: restrict to usable lanes, recode, and start at the identity.
Evaluate(a, s0, k0, other) ==
  /\ result = "idle" /\ \A t \in Terms(evaluator) : prepared[t]
  /\ evaluator \in OneSignature => a = {0}
  /\ evaluator \in Vendored => canonicalScalarBytes(s0) /\ canonicalScalarBytes(k0)
  /\ s' = [l \in Lanes |-> IF l = 0 THEN s0 ELSE other[1]]
  /\ k' = [l \in Lanes |-> IF l = 0 THEN k0 ELSE other[2]]
  /\ active' = a
  /\ usable' = IF evaluator \in Regular THEN a
               ELSE IF evaluator = "twoChain" THEN (IF Canonical(0) THEN Lanes ELSE {})
               ELSE {l \in a : \A t \in Terms(evaluator) :
                        canonicalScalarBytes(IF t = "A" THEN k'[l] ELSE s'[l])}
  /\ digits' = IF usable' = {} THEN <<>> ELSE DigitRows(evaluator)
  /\ plan' = IF usable' = {} THEN <<>> ELSE PlanOf(evaluator, digits', usable')
  /\ acc' = AllIdentity /\ form' = "P3"
  /\ result' = IF evaluator = "partial" /\ a # {} /\ liveSpecLane(a) \notin a THEN "panic" ELSE "running"
  /\ UNCHANGED <<evaluator, table, prepared, keys, out>>

Step ==
  /\ result = "running" /\ plan # <<>>
  /\ LET step == Head(plan) IN
     /\ acc' = [l \in Lanes |->
          CASE step.op \in {"double", "doubleP2", "doubleP3", "doubleC"} -> Double(acc[l])
            [] step.op \in {"add", "addC"} -> Add(acc[l], Select(step, l))
            [] step.op = "combine" -> IF l = 0 THEN Add(acc[0], acc[1]) ELSE Identity
            [] OTHER -> acc[l]]
     /\ form' = Yields(step.op)
  /\ plan' = Tail(plan)
  /\ UNCHANGED <<evaluator, table, prepared, keys, s, k, active, usable, digits, out, result>>

\* A point operation of the IFMA path returns an error.
StepFails ==
  /\ result = "running" /\ plan # <<>> /\ evaluator \notin Portable
  /\ result' = "error" /\ plan' = <<>> /\ usable' = {}
  /\ UNCHANGED <<evaluator, table, prepared, keys, s, k, active, digits, acc, form, out>>

Return ==
  /\ result = "running" /\ plan = <<>>
  /\ out' = acc /\ result' = "done"
  /\ UNCHANGED <<evaluator, table, prepared, keys, s, k, active, usable, digits, plan, acc, form>>

\* The caller consumes the result and may prepare or evaluate again.
Again ==
  /\ result \in {"done", "error"}
  /\ result' = "idle" /\ digits' = <<>> /\ active' = {} /\ usable' = {}
  /\ s' = [l \in Lanes |-> 0] /\ k' = [l \in Lanes |-> 0]
  /\ acc' = AllIdentity /\ form' = "P3" /\ out' = AllIdentity
  /\ UNCHANGED <<evaluator, table, prepared, keys, plan>>

Next ==
  \/ PrepareFixedBase
  \/ \E g \in Groups : PrepareVariableBase(g) \/ \E n \in {1, 2} : PrepareVariableBaseFails(g, n)
  \/ \E a \in SUBSET Lanes, s0, k0 \in Scalars, other \in SecondLane : Evaluate(a, s0, k0, other)
  \/ Step \/ StepFails \/ Return \/ Again

Spec == Init /\ [][Next]_vars

-----------------------------------------------------------------------------

\* What [s]B - [k]A is for one lane, over the terms the evaluator has.
Expected(l) ==
  [b \in Bases |-> IF b = "B" /\ "B" \in Terms(evaluator) THEN s[l]
                   ELSE IF b = keys[l] /\ "A" \in Terms(evaluator) THEN -k[l] ELSE 0]

LaneUsable(l) ==
  /\ l \in active
  /\ evaluator \notin Regular => \A t \in Terms(evaluator) :
       canonicalScalarBytes(IF t = "A" THEN k[l] ELSE s[l])

\* Every evaluator returns exactly [s]B - [k]A, as an integer combination, of
\* the keys last prepared for the lanes that are active and canonical, and the
\* identity in every other lane.
ResultExact ==
  result = "done" => \A l \in Lanes : out[l] = IF LaneUsable(l) THEN Expected(l) ELSE Identity

\* An IFMA failure leaves the caller's output as it was, however far the loop
\* was ("out is unchanged if an IFMA operation fails").
OutAtomic == result = "error" => out = AllIdentity

\* No operation consumes a coordinate that the previous one did not compute: an
\* addition always finds T, a doubling chain never reads a completed point.
FormsFit ==
  /\ plan # <<>> => form \in Accepts(Head(plan).op)
  /\ result = "done" => form = "P3"

\* A group whose lane 0 failed its pre-checks still has a table to take the
\* comb shape from.
NoPanic == result # "panic"

=============================================================================
