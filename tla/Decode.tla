------------------------------- MODULE Decode -------------------------------
(***************************************************************************)
(* Decompression of points, several lanes at a time: r51x5/decode2.go,     *)
(* decode2_ifma.go, decode_ifma.go, decode_composable_ifma_experiment.go,  *)
(* and the one-lane decoders of r43x6, r51x5 and the vendored library.     *)
(* Each is a straight-line program of field operations over the lanes of   *)
(* one point or of a pair (A, R), in its own order.  An IFMA operation may *)
(* report a range error at any multiplication.                             *)
(***************************************************************************)
EXTENDS FieldLanes, Sequences

CONSTANTS
  SqrtM1,    \* a square root of -1
  Requests   \* inputs: [A, R : Lanes -> encodings, active : SUBSET Lanes]

Compressed == [y : 0 .. (P + Gap - 1), sign : {0, 1}]

\* x^n, by repeated multiplication.
Power(x, n) ==
  LET power[i \in 0 .. n] == IF i = 0 THEN 1 ELSE Times(power[i - 1], x) IN power[n]

\* P = 5 modulo 8, and Fermat's theorem holds, as P is prime.
ASSUME DecodeAssumption ==
  /\ P % 8 = 5
  /\ \A x \in 1 .. (P - 1) : Power(x, P - 1) = 1
  /\ SqrtM1 \in Fe /\ Times(SqrtM1, SqrtM1) = P - 1
  /\ D \in Fe /\ \A x \in Fe : Times(x, x) # D
  /\ \A c \in Requests :
       /\ c.A \in [Lanes -> Compressed] /\ c.R \in [Lanes -> Compressed]
       /\ c.active \in SUBSET Lanes

-----------------------------------------------------------------------------
\* The exponentiation chain x^(2^252 - 3).  An exponent is the set of its one
\* bits; squaring shifts it and a product unites two disjoint ones.

Shift(e, n) == {b + n : b \in e}

\* Each register is an earlier one squared so many times, times another.
pow22523Chain ==
  [x2   |-> <<"base", 1, "none">>,  x9 |-> <<"x2", 2, "base">>,   x11 |-> <<"x9", 0, "x2">>,
   x5   |-> <<"x11", 1, "x9">>,     x10 |-> <<"x5", 5, "x5">>,    x20 |-> <<"x10", 10, "x10">>,
   x40  |-> <<"x20", 20, "x20">>,   x50 |-> <<"x40", 10, "x10">>, x100 |-> <<"x50", 50, "x50">>,
   x200 |-> <<"x100", 100, "x100">>, x250 |-> <<"x200", 50, "x50">>, z |-> <<"x250", 2, "base">>]

\* The same chain in lockstep for A and R, in IFMA form, in r43x6, in r51x5 and
\* in the vendored field.
pow22523PairChain == pow22523Chain
pow22523IFMAChain == pow22523Chain
pow22523PairIFMAChain == pow22523Chain
r43Pow22523Chain == pow22523Chain
r43Pow22523PairChain == pow22523Chain
feInvertTail == <<"x250", 5, "x11">>
fePow22523Chain == pow22523Chain

\* The registers before the first: only x itself, and the empty product.
ChainRegisters == {"base", "none", "x2", "x9", "x11", "x5", "x10", "x20", "x40", "x50", "x100", "x200", "x250", "z"}
Powers == [r \in ChainRegisters |-> IF r = "base" THEN {0} ELSE IF r = "none" THEN {} ELSE {-1}]

\* repeatedSquareMultiply: the exponent, or Collision when bits would carry.
Collision == {-1}
repeatedSquareMultiply(x, count, y) ==
  LET shifted == Shift(x, count) IN IF shifted \cap y = {} THEN shifted \cup y ELSE Collision

ChainOrder == <<"x2", "x9", "x11", "x5", "x10", "x20", "x40", "x50", "x100", "x200", "x250", "z">>

Exponents(chain, tail) ==
  LET run[i \in 0 .. 12] ==
        IF i = 0 THEN Powers
        ELSE LET rule == IF i = 12 THEN tail ELSE chain[ChainOrder[i]]
             IN [run[i - 1] EXCEPT ![ChainOrder[i]] =
                   repeatedSquareMultiply(run[i - 1][rule[1]], rule[2], run[i - 1][rule[3]])]
  IN run[12]["z"]

-----------------------------------------------------------------------------
\* Field elements.

Sub(x, y) == (x + P - y) % P
Negate(x) == (P - x) % P
IsNegative(x) == x % 2

\* x^((P - 5) / 8): what the chain computes for the field of 2^255 - 19.
Pow22523(x) == Power(x, (P - 5) \div 8)

\* conditionalNegate and decodeSelect act lane by lane.
conditionalNegate(x, flag) == IF flag THEN Negate(x) ELSE x
decodeSelect(x, y, flag) == IF flag THEN y ELSE x

-----------------------------------------------------------------------------
\* Stages of one lane of one point.  Its registers:

Registers == [y |-> 0, y2 |-> 0, u |-> 0, v |-> 0, uv |-> 0, pow |-> 0, root |-> 0,
              root2 |-> 0, check |-> 0, negUI |-> 0, x |-> 0, square |-> FALSE, t |-> 0]

\* Inactive lanes decode y = 1.
decodeY(encoding, on) == IF on THEN encoding.y % P ELSE 1

\* correct, flipped, flippedI of the root under test.
Correct(g) == g.check = g.u
Flipped(g) == g.check = Negate(g.u)
FlippedI(g) == g.check = g.negUI

\* Mutant: the root of -u is not turned.
UnturnedRoot(g) == decodeSelect(g.root, Times(g.root, SqrtM1), FlippedI(g))

SelectedRoot(g) == decodeSelect(g.root, Times(g.root, SqrtM1), Flipped(g) \/ FlippedI(g))

\* The sign bit is honoured in active lanes.
encodedSign(encoding, on) == IF on THEN encoding.sign ELSE 0
applyEncodedSign(x, encoding, on) ==
  conditionalNegate(x, on /\ IsNegative(x) # encodedSign(encoding, on))

\* The composable decoder chooses the requested root at once.
signedRoot(root, encoding, on) ==
  conditionalNegate(root, IsNegative(root) # encodedSign(encoding, on))

Stage(op, g, encoding, on) ==
  CASE op = "y"      -> [g EXCEPT !.y = decodeY(encoding, on)]
    [] op = "y2"     -> [g EXCEPT !.y2 = Times(g.y, g.y), !.u = Sub(Times(g.y, g.y), 1)]
    [] op = "v"      -> [g EXCEPT !.v = (Times(g.y2, D) + 1) % P]
    [] op = "uv"     -> [g EXCEPT !.uv = Times(g.u, g.v)]
    [] op = "pow"    -> [g EXCEPT !.pow = Pow22523(g.uv)]
    [] op = "root"   -> [g EXCEPT !.root = Times(g.u, g.pow)]
    [] op = "root2"  -> [g EXCEPT !.root2 = Times(g.root, g.root)]
    [] op = "check"  -> [g EXCEPT !.check = Times(g.v, g.root2)]
    [] op = "negUI"  -> [g EXCEPT !.negUI = Times(Negate(g.u), SqrtM1)]
    [] op = "select" -> [g EXCEPT !.x = conditionalNegate(SelectedRoot(g), IsNegative(SelectedRoot(g)) = 1),
                                  !.square = Correct(g) \/ Flipped(g)]
    [] op = "sign"   -> [g EXCEPT !.x = applyEncodedSign(g.x, encoding, on)]
    [] op = "signed" -> [g EXCEPT !.x = signedRoot(SelectedRoot(g), encoding, on),
                                  !.square = Correct(g) \/ Flipped(g)]
    [] op = "t"      -> [g EXCEPT !.t = Times(g.x, g.y)]

-----------------------------------------------------------------------------
\* Programs: sequences of stages of A and R.

Of(w, ops) == [i \in 1 .. Len(ops) |-> <<ops[i], w>>]
Both(ops) == [i \in 1 .. 2 * Len(ops) |-> <<ops[(i + 1) \div 2], IF i % 2 = 1 THEN "A" ELSE "R">>]

Setup == <<"y", "y2", "v">>
sqrtRatio == <<"uv", "pow", "root", "root2", "check", "negUI", "select">>
decodeOne(w) == Of(w, Setup) \o Of(w, sqrtRatio) \o Of(w, <<"sign">>)

\* sqrtRatioPair, in lockstep.
sqrtRatioPair == Both(sqrtRatio)
sqrtRatioPairIFMA == Both(sqrtRatio)

Decode2NoT == Both(Setup) \o sqrtRatioPair \o Both(<<"sign">>) \o <<<<"t", "A">>>>
decode2NoTIFMA == Both(Setup) \o sqrtRatioPairIFMA \o Both(<<"sign">>) \o <<<<"t", "A">>>>
decode2NoTIFMAIndependent == decodeOne("A") \o decodeOne("R") \o <<<<"t", "A">>>>
decodeIFMA == decodeOne("A") \o <<<<"t", "A">>>>
sqrtRatioSignedComposable == <<"uv", "pow", "root", "root2", "check", "negUI", "signed">>
decodeComposableIFMA == Of("A", Setup \o sqrtRatioSignedComposable \o <<"t">>)
sqrtRatio2 == Both(sqrtRatio)
r43Decode2NoT == Both(Setup) \o sqrtRatio2 \o Both(<<"sign">>) \o <<<<"t", "A">>>>
SetBytes == decodeOne("A") \o <<<<"t", "A">>>>
r43SqrtRatio == sqrtRatio
r43SetBytes == Of("A", Setup \o r43SqrtRatio \o <<"sign", "t">>)
feSqrtRatio == sqrtRatio
vendoredSetBytes == Of("A", Setup \o feSqrtRatio \o <<"sign", "t">>)

Program ==
  [Decode2NoT |-> Decode2NoT, decode2NoTIFMA |-> decode2NoTIFMA,
   decode2NoTIFMAIndependent |-> decode2NoTIFMAIndependent, decodeIFMA |-> decodeIFMA,
   decodeComposableIFMA |-> decodeComposableIFMA, r43Decode2NoT |-> r43Decode2NoT,
   SetBytes |-> SetBytes, r43SetBytes |-> r43SetBytes, vendoredSetBytes |-> vendoredSetBytes]
Decoders == DOMAIN Program
IFMA == {"decode2NoTIFMA", "decode2NoTIFMAIndependent", "decodeIFMA", "decodeComposableIFMA"}
OneLane == {"r43Decode2NoT", "SetBytes", "r43SetBytes", "vendoredSetBytes"}
Paired == {"Decode2NoT", "decode2NoTIFMA", "decode2NoTIFMAIndependent", "r43Decode2NoT"}

VARIABLES
  decoder, request,
  position,        \* in the program
  regs,
  points, valid,   \* the caller's
  phase            \* "run", "done", "error"
decodeVars == <<decoder, request, position, regs, points, valid, phase>>

Stale == "stale"
IdentityPoint == <<0, 1, 1, 0>>
ZeroPoint == <<0, 0, 0, 0>>

DecodeInit ==
  /\ decoder \in Decoders /\ request \in Requests
  /\ decoder \in OneLane => request.active = Lanes
  /\ position = 0
  /\ regs = [w \in {"A", "R"} |-> [l \in Lanes |-> Registers]]
  /\ points = [w \in {"A", "R"} |-> [l \in Lanes |-> Stale]]
  /\ valid = [w \in {"A", "R"} |-> {}]
  /\ phase = "run"

Input(w) == IF w = "A" THEN request.A ELSE request.R

\* One operation over all lanes of one point.
Operate ==
  /\ phase = "run" /\ position < Len(Program[decoder])
  /\ LET op == Program[decoder][position + 1][1]
         w == Program[decoder][position + 1][2]
     IN regs' = [regs EXCEPT ![w] = [l \in Lanes |-> Stage(op, @[l], Input(w)[l], l \in request.active)]]
  /\ position' = position + 1
  /\ UNCHANGED <<decoder, request, points, valid, phase>>

\* ops.mul or the import check fails, or IFMA is unavailable, at position 0.
DecodeFail ==
  /\ phase = "run" /\ decoder \in IFMA /\ position < Len(Program[decoder])
  /\ Program[decoder][position + 1][1] # "sign"
  /\ phase' = "error"
  /\ UNCHANGED <<decoder, request, position, regs, points, valid>>

ValidLanes(w) == {l \in request.active : regs[w][l].square}

Extended(g) == <<g.x, g.y, 1, g.t>>
Affine(g) == <<g.x, g.y, 0, 0>>

\* What a lane that does not decode is given.
Invalid(w, old) ==
  CASE decoder \in OneLane \ {"r43Decode2NoT"} -> old
    [] decoder = "r43Decode2NoT" \/ w = "R" -> ZeroPoint
    [] OTHER -> IdentityPoint

\* The points a decoder returns.
Returned == IF decoder \in Paired THEN {"A", "R"} ELSE {"A"}

DecodeCommit ==
  /\ phase = "run" /\ position = Len(Program[decoder])
  /\ valid' = [w \in {"A", "R"} |-> IF w \in Returned THEN ValidLanes(w) ELSE {}]
  /\ points' = [w \in {"A", "R"} |->
                  IF w \notin Returned THEN points[w]
                  ELSE [l \in Lanes |->
                          IF l \notin ValidLanes(w) THEN Invalid(w, points[w][l])
                          ELSE IF w = "A" THEN Extended(regs[w][l]) ELSE Affine(regs[w][l])]]
  /\ phase' = "done"
  /\ UNCHANGED <<decoder, request, position, regs>>

DecodeNext == Operate \/ DecodeFail \/ DecodeCommit
DecodeSpec == DecodeInit /\ [][DecodeNext]_decodeVars

-----------------------------------------------------------------------------
\* Properties.

\* The curve points an encoding stands for: none, or one.
Decoded(encoding) ==
  LET y == encoding.y % P IN
  {<<x, y>> : x \in {x \in Fe : /\ (y * y + P * P - x * x) % P = (1 + D * Times(Times(x, x), Times(y, y))) % P
                                /\ x = 0 \/ x % 2 = encoding.sign}}

\* A decoder that returns reports as valid exactly the active lanes whose
\* encoding has a point, gives them that point (the root with the encoded
\* sign, T = xy), and fills the others as documented, for A and R apart and
\* whatever the neighbouring lanes hold.
ReturnedExact ==
  phase = "done" =>
    \A w \in Returned, l \in Lanes :
      LET candidates == Decoded(Input(w)[l]) IN
      /\ l \in valid[w] <=> l \in request.active /\ candidates # {}
      /\ l \in valid[w] =>
           \E p \in candidates : points[w][l] = IF w = "A" THEN <<p[1], p[2], 1, Times(p[1], p[2])>>
                                                         ELSE <<p[1], p[2], 0, 0>>
      /\ l \notin valid[w] =>
           points[w][l] = CASE decoder \in OneLane \ {"r43Decode2NoT"} -> Stale
                            [] decoder = "r43Decode2NoT" \/ w = "R" -> ZeroPoint
                            [] OTHER -> IdentityPoint

\* "The receiver is unchanged on error": until every operation of both points
\* has succeeded nothing of the caller's buffers is written.
DecodeAtomic ==
  phase # "done" => \A w \in {"A", "R"}, l \in Lanes : points[w][l] = Stale /\ valid[w] = {}

\* Every addition chain raises to 2^252 - 3 (and inversion's to 2^255 - 21),
\* with no product whose exponents overlap.
ChainExact ==
  /\ \A chain \in {pow22523Chain, pow22523PairChain, pow22523IFMAChain, pow22523PairIFMAChain,
                   r43Pow22523Chain, r43Pow22523PairChain, fePow22523Chain} :
       Exponents(chain, chain.z) = {0} \cup 2 .. 251
  /\ Exponents(fePow22523Chain, feInvertTail) = {0, 1, 3} \cup 5 .. 254

\* All three.
DecodeExact == ReturnedExact /\ DecodeAtomic /\ ChainExact

=============================================================================
