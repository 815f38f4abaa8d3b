---------------------------- MODULE MCArithmetic ----------------------------
(***************************************************************************)
(* The arithmetic kernels side by side: limbs and words, encodings to      *)
(* points and back, and the group law.  Each behaviour runs one of them,   *)
(* the variables of the others stay idle.                                  *)
(***************************************************************************)
EXTENDS BitPack, BatchEncode, Decode, CurvePoint

VARIABLES
  kernel,
  rep, xLimbs, yLimbs, xValue, yValue, ops, fault,             \* FieldLimbs
  schedule, radixLimbs, residue, kind,                         \* ScalarReduce
  wideM, wideN,                                                \* WideInt: a pair of numbers
  selector, challenge, limit, rows, queue, best, iterations, result   \* HalfSize

fieldVars == <<rep, xLimbs, yLimbs, xValue, yValue, ops, fault>>
reductionVars == <<schedule, radixLimbs, residue, kind>>
wideVars == <<wideM, wideN>>
halfVars == <<selector, challenge, limit, rows, queue, best, iterations, result>>
curveVars == <<decodeVars, pointVars, encodeVars>>

\* Three limbs of nine bits and words of sixteen: every bound the comments
\* derive for 51 and 64 bits holds with the same slack or less.
FieldN == INSTANCE FieldLimbs WITH
  N <- 3, B <- 512, Fold <- 3, TopGap <- 8, Word <- 65536, ProductLimit <- 32768, LooseLimit <- 16384,
  Small <- {2, 15}, Middle <- {512 * 511 + 510, 262144 * 37 + 512 * 255 + 256}, MaxOps <- 5,
  x <- xLimbs, y <- yLimbs, v <- xValue, w <- yValue

\* Limbs of five bits, four to a scalar, and the order 32^4 + 307; products
\* and uniform inputs take eight limbs, the last of up to seven bits.
Limb == {0, 17, 31}
Uniform ==
  {<<a, b, c, d, e, f, g, h>> : a \in Limb, b \in {0, 31}, c \in Limb, d \in {0, 31},
                                e \in Limb, f \in {15, 31}, g \in {0, 31}, h \in {0, 63, 127}}
  \cup {<<a, b, c, d, e, 0, 0, 0>> : a \in 0 .. 31, b \in {9, 10}, c \in {0, 31}, d \in {0, 31}, e \in 0 .. 2}
Scalars == {<<0, 0, 0, 0>>, <<1, 0, 0, 0>>, <<18, 9, 0, 32>>, <<31, 31, 31, 31>>, <<0, 0, 0, 32>>, <<16, 15, 16, 15>>}
WideInputs ==
  {q * 1051 + r : q \in {0, 1, 2, 3, 127, 128, 16383, 255407, 255408}, r \in {0, 1, 2, 525, 1049, 1050}}
  \cup ((2 ^ 28 - 300) .. (2 ^ 28 - 1)) \cup {i * 16384 - 1 : i \in 1 .. 2000}
Reduction == INSTANCE ScalarReduce WITH
  B <- 32, K <- 4, C <- <<13, -10>>, Word <- 32768, Uniform <- Uniform, Scalars <- Scalars,
  WordB <- 128, KB <- 2, OrderB <- 1051, WideB <- WideInputs, s <- radixLimbs

\* Every single bit of 64 bytes, all of them, none, and all but one.
PackInputs == {{b} : b \in 0 .. 511} \cup {0 .. 511, {}} \cup {(0 .. 511) \ {b} : b \in 0 .. 255}

\* Numbers of three words of two bits.
WideN == INSTANCE WideInt WITH WordBits <- 2, Limbs <- 3

\* Modulo 8 * 16411, an 18-bit modulus for the 256-bit one, at the admission
\* limits of half its bits and one more; every seventh challenge, the smallest,
\* and two that are not canonical.
Half == INSTANCE HalfSize WITH
  Order <- 16411, WordBits <- 8, WidthLimits <- {9, 10}, Limits <- {8, 9, 10},
  Challenges <- {c \in 0 .. 16410 : c % 7 = 0 \/ c < 40} \cup {16410, 16411, 16412},
  k <- challenge

\* The field of 29 = 2^5 - 3 elements, two lanes.  Every encoding passes
\* through every slot, beside neighbours that decode, do not, or alias.
Beside == {[y |-> 30, sign |-> 1], [y |-> 6, sign |-> 0], [y |-> 2, sign |-> 0]}
DecodeCalls ==
  {[A |-> [l \in {1, 2} |-> IF <<"A", l>> = slot THEN e ELSE beside],
    R |-> [l \in {1, 2} |-> IF <<"R", l>> = slot THEN e ELSE beside], active |-> on] :
     slot \in {"A", "R"} \X (1 .. 2), e \in [y : 0 .. 31, sign : {0, 1}], beside \in Beside, on \in SUBSET (1 .. 2)}

\* The curve of 24 points with D = 3 over that field: a point of order 8,
\* as Edwards25519 has, and points of order 3.
GivenQuadruples == [X : 0 .. 28, Y : {0, 1, 5}, Z : {1, 2}, T : {0, 1, 4}]

\* The encoders: the same field, three groups of two lanes.  One slot
\* takes every encoding and a sound point, a point without Z or limbs out of
\* range; its neighbours keep theirs.
Sound == [X |-> 1, Y |-> 2, Z |-> 2, inRange |-> TRUE]
Other == [X |-> 0, Y |-> 0, Z |-> 3, inRange |-> TRUE]
NoZ == [X |-> 2, Y |-> 0, Z |-> 0, inRange |-> TRUE]
Wild == [Sound EXCEPT !.inRange = FALSE]

At(slot, here, rest) == [g \in 1 .. 3 |-> [l \in 1 .. 2 |-> IF <<g, l>> = slot THEN here ELSE rest]]
Slots == {<<1, 1>>, <<2, 2>>, <<3, 1>>}
Masks == [1 .. 3 -> SUBSET {1, 2}]
Base == [op |-> "encode", width |-> "x4", groups |-> 3, active |-> [g \in 1 .. 3 |-> {1, 2}],
         points |-> At(<<1, 1>>, Sound, Other), encoded |-> At(<<1, 1>>, <<1, 1>>, <<0, 0>>)]

EncodeCalls ==
  {[Base EXCEPT !.op = op, !.active = active, !.points = At(slot, p, rest), !.groups = groups] :
     op \in {"encode", "compare"}, active \in Masks, slot \in Slots, p \in {Sound, NoZ},
     rest \in {Other, NoZ}, groups \in {2, 3}}
  \cup {[Base EXCEPT !.op = "compare", !.active = active, !.points = At(slot, p, Other), !.encoded = At(slot, e, <<0, 0>>)] :
     active \in {[g \in 1 .. 3 |-> {1, 2}], [g \in 1 .. 3 |-> {(g % 2) + 1}]}, slot \in Slots,
     p \in {Sound, Other, NoZ}, e \in {0, 1, 2, 29, 30, 31} \X {0, 1}}
  \cup {[Base EXCEPT !.groups = groups] : groups \in {0, 4}}
  \cup {[Base EXCEPT !.op = op, !.active[2] = {0, 1}] : op \in {"encode", "compare"}}
  \cup {[Base EXCEPT !.width = width, !.active[1] = {}, !.points = At(slot, Wild, Sound)] :
     width \in {"x4", "x8"}, slot \in Slots}
  \cup {[Base EXCEPT !.width = "x8", !.groups = groups, !.active = active, !.points = At(slot, p, Other)] :
     groups \in 0 .. 4, active \in Masks, slot \in Slots, p \in {Sound, NoZ}}

ASSUME /\ FieldN!FieldLimbsAssumption
       /\ Reduction!ScalarReduceAssumption
       /\ WideN!WideIntAssumption
       /\ Half!HalfSizeAssumption

-----------------------------------------------------------------------------
Idle == "idle"
FieldIdle == rep = Idle /\ xLimbs = Idle /\ yLimbs = Idle /\ xValue = Idle /\ yValue = Idle
             /\ ops = Idle /\ fault = Idle
ReductionIdle == schedule = Idle /\ radixLimbs = Idle /\ residue = Idle /\ kind = Idle
PackingIdle == layout = Idle /\ in = {} /\ limbs = <<>> /\ packed = {}
WideIdle == wideM = Idle /\ wideN = Idle
HalfIdle == selector = Idle /\ challenge = Idle /\ limit = Idle /\ rows = Idle /\ queue = Idle /\ best = Idle
            /\ iterations = Idle /\ result = Idle
DecodeIdle ==
  /\ decoder = Idle /\ request = Idle /\ position = 0 /\ regs = Idle /\ phase = Idle
  /\ points = [c \in {"A", "R"} |-> [l \in Lanes |-> Stale]] /\ valid = [c \in {"A", "R"} |-> {}]
PointIdle == form = "P2" /\ acc = projP2FromP3(Scaled(Neutral, 1)) /\ pt = Neutral
EncodeIdle ==
  /\ pc = "idle" /\ call = Idle /\ mask = Idle /\ group = 0 /\ err = "none" /\ out = Idle
  /\ prefix = Idle /\ inverseZ = Idle /\ staged = Idle /\ inverseProduct = Idle

\* Every pair of numbers, the first as the second grows.
WideInit == wideM \in 0 .. (WideN!Size - 1) /\ wideN = 0
WideNext == wideN < WideN!Size - 1 /\ wideN' = wideN + 1 /\ UNCHANGED wideM

Init ==
  /\ kernel \in {"field", "reduction", "packing", "wide", "half", "decode", "point", "encode"}
  /\ IF kernel = "field" THEN FieldN!Init ELSE FieldIdle
  /\ IF kernel = "reduction" THEN Reduction!Init ELSE ReductionIdle
  /\ IF kernel = "packing" THEN PackInit ELSE PackingIdle
  /\ IF kernel = "wide" THEN WideInit ELSE WideIdle
  /\ IF kernel = "half" THEN Half!Init ELSE HalfIdle
  /\ IF kernel = "decode" THEN DecodeInit ELSE DecodeIdle
  /\ IF kernel = "point" THEN PointInit ELSE PointIdle
  /\ IF kernel = "encode" THEN EncodeInit ELSE EncodeIdle

\* A step of a kernel on words; a step of one on points.
WordsNext ==
  \/ kernel = "field" /\ FieldN!Next /\ UNCHANGED <<reductionVars, packVars, wideVars, halfVars>>
  \/ kernel = "reduction" /\ Reduction!Next /\ UNCHANGED <<fieldVars, packVars, wideVars, halfVars>>
  \/ kernel = "packing" /\ PackNext /\ UNCHANGED <<fieldVars, reductionVars, wideVars, halfVars>>
  \/ kernel = "wide" /\ WideNext /\ UNCHANGED <<fieldVars, reductionVars, packVars, halfVars>>
  \/ kernel = "half" /\ Half!Next /\ UNCHANGED <<fieldVars, reductionVars, packVars, wideVars>>
PointsNext ==
  \/ kernel = "decode" /\ DecodeNext /\ UNCHANGED <<pointVars, encodeVars>>
  \/ kernel = "point" /\ PointNext /\ UNCHANGED <<decodeVars, encodeVars>>
  \/ kernel = "encode" /\ EncodeNext /\ UNCHANGED <<decodeVars, pointVars>>

wordVars == <<fieldVars, reductionVars, packVars, wideVars, halfVars>>
Next ==
  /\ UNCHANGED kernel
  /\ \/ WordsNext /\ UNCHANGED curveVars
     \/ PointsNext /\ UNCHANGED wordVars

vars == <<kernel, wordVars, curveVars>>
Spec == Init /\ [][Next]_vars

-----------------------------------------------------------------------------
\* Whatever operations came before, limbs stand for the field element the
\* operations define, are fit to be the operand of every operation of their
\* representation, and encode to its one canonical string: no carry, borrow,
\* fold or bias is lost and no word wraps (r51x5, r43x6, edwards25519/field).
FieldExact ==
  kernel = "field" => FieldN!ValueExact /\ FieldN!RangeClosed /\ FieldN!CanonicalExact

\* Every fold and carry of the scalar schedules keeps the residue within the
\* machine word and the schedules end in the encoding below the order; so does
\* Barrett's reduction, whose quotient is at most two too small.
ReductionExact ==
  kernel = "reduction" => Reduction!ResidueKept /\ Reduction!Canonical /\ Reduction!BarrettExact

\* A half-size candidate decides what the strict equation decides, the
\* exhaustive search misses none, batched and plain walks agree, and no walk
\* ends at its iteration bound; the fixed-width integers of heea8l under them
\* agree with the integers, or report that a result does not fit, for every
\* sign, shift and factor.
WordsExact ==
  /\ WideN!UnsignedExact(wideM, wideN) /\ WideN!ShiftsExact(wideM, wideN)
  /\ WideN!DivisionExact(wideM, wideN) /\ WideN!SignedExact(wideM, wideN)
SelectorsExact ==
  /\ Half!CandidateExact /\ Half!RowsExact /\ Half!BestExact
  /\ Half!SameRow /\ Half!LoopsEnd
HalfExact ==
  /\ kernel = "wide" => WordsExact
  /\ kernel = "half" => SelectorsExact
=============================================================================
