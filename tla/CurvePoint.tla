------------------------------ MODULE CurvePoint ------------------------------
(***************************************************************************)
(* The group law in every coordinate system the program computes it in:    *)
(* extended points (r51x5/point_x4.go, point_x8.go, point_ifma.go,         *)
(* point_ifma_composable.go, r43x6/point.go), projective points without T, *)
(* projective and affine Niels points, the packed [X,Y,T,Z] vector of      *)
(* quad_packed_ifma.go, and P1xP1 of the vendored library.  One            *)
(* accumulator passes through them in any order, as a scalar multiplication*)
(* drives it; pt is the affine point it should stand for.  The multiples   *)
(* of the modulus that keep lazily reduced limbs positive vanish here: a   *)
(* coordinate is its residue.                                              *)
(***************************************************************************)
EXTENDS FieldLanes, Sequences, TLC

CONSTANTS
  Scales,       \* the values of Z that operands come with
  Quadruples    \* what SetExtendedCoordinates is given: [X, Y, Z, T]

\* -1 is a square and D is none: the addition law has no exceptions.  isOnCurve
\* accepts the quadruple of zeros, which is no point, and nobody gives it.
ASSUME PointAssumption ==
  /\ \E x \in Fe : Times(x, x) = P - 1
  /\ D \in Fe /\ \A x \in Fe : Times(x, x) # D
  /\ Scales \subseteq Fe \ {0}
  /\ Quadruples \subseteq [X : Fe, Y : Fe, Z : Fe, T : Fe] \ {[X |-> 0, Y |-> 0, Z |-> 0, T |-> 0]}

Plus(x, y) == (x + y) % P
Minus(x, y) == (x + P - y) % P
Twice(x) == (x + x) % P
Minus0(x) == Minus(0, x)
curve2D == Twice(D)

Invert(x) == Inverses[x]

-----------------------------------------------------------------------------
\* Affine points and their addition, the reference.

OnCurve(x, y) == Minus(Times(y, y), Times(x, x)) = Plus(1, Times(D, Times(Times(x, x), Times(y, y))))
Points == {p \in Fe \X Fe : OnCurve(p[1], p[2])}
Neutral == <<0, 1>>
Opposite(p) == <<Minus0(p[1]), p[2]>>
Sum(p, q) ==
  LET k == Times(D, Times(Times(p[1], q[1]), Times(p[2], q[2])))
  IN <<Times(Plus(Times(p[1], q[2]), Times(p[2], q[1])), Invert(Plus(1, k))),
       Times(Plus(Times(p[2], q[2]), Times(p[1], q[1])), Invert(Minus(1, k)))>>

\* The extended point with a given Z.
Scaled(p, z) == [X |-> Times(p[1], z), Y |-> Times(p[2], z), Z |-> z, T |-> Times(Times(p[1], p[2]), z)]

-----------------------------------------------------------------------------
\* The four final products of E, F, G and H, and the three of a projective
\* result, which has no T.

ifmaPointFinalProducts(k) ==
  [X |-> Times(k[1], k[2]), Y |-> Times(k[3], k[4]), Z |-> Times(k[2], k[3]), T |-> Times(k[1], k[4])]
ifmaProjectiveFinalProducts(k) ==
  [X |-> Times(k[1], k[2]), Y |-> Times(k[3], k[4]), Z |-> Times(k[2], k[3])]

\* Addition of two extended points.
Add(a, b) ==
  LET A == Times(Minus(a.Y, a.X), Minus(b.Y, b.X))
      B == Times(Plus(a.Y, a.X), Plus(b.Y, b.X))
      C == Times(Times(a.T, b.T), curve2D)
      DD == Twice(Times(a.Z, b.Z))
  IN ifmaPointFinalProducts(<<Minus(B, A), Minus(DD, C), Plus(DD, C), Plus(B, A)>>)

Negated(a) == [X |-> Minus0(a.X), Y |-> a.Y, Z |-> a.Z, T |-> Minus0(a.T)]

Subtract(a, b) == Add(a, Negated(b))

\* The same formula in eight lanes, in r43x6, through the checked IFMA
\* bridge, statically bound, with an injected product, and for tables.
AddX8(a, b) == Add(a, b)
r43Add(a, b) == Add(a, b)
ExperimentalIFMAPointAddX8(a, b) == Add(a, b)
ExperimentalIFMAPointAddX4(a, b) == Add(a, b)
ifmaPointAddComposableStatic(a, b) == Add(a, b)
ifmaPointAddComposable(a, b) == Add(a, b)
fixedBasePointAdd(a, b) == Add(a, b)
SubtractX8(a, b) == Subtract(a, b)
r43Subtract(a, b) == Subtract(a, b)

-----------------------------------------------------------------------------
\* Doubling.

\* E from (X + Y)^2.
Double(q) ==
  LET A == Times(q.X, q.X)
      B == Times(q.Y, q.Y)
      C == Twice(Times(q.Z, q.Z))
      S == Times(Plus(q.X, q.Y), Plus(q.X, q.Y))
      G == Plus(Minus0(A), B)
  IN ifmaPointFinalProducts(<<Minus(Minus(S, A), B), Minus(G, C), G, Minus(Minus0(A), B)>>)

DoubleX8(q) == Double(q)
r43Double(q) == Double(q)
ExperimentalIFMAPointDoubleX8(q) == Double(q)
ExperimentalIFMAPointDoubleX4(q) == Double(q)
fixedBasePointDouble(q) == Double(q)

\* E from X * Y: the second stage, from the products X^2, Y^2, Z^2 and XY.
ifmaDoubleStage2(a, b, c, e) ==
  LET g == Minus(b, a) IN <<Twice(e), Minus(g, Twice(c)), g, Minus(Minus0(a), b)>>
\* E = (X + Y)^2 + H.
ifmaDoubleStage2SquareTrick(a, b, c, s) ==
  LET g == Minus(b, a)
      h == Minus(Minus0(a), b)
  IN <<Plus(s, h), Minus(g, Twice(c)), g, h>>

DirectStage(q) == ifmaDoubleStage2(Times(q.X, q.X), Times(q.Y, q.Y), Times(q.Z, q.Z), Times(q.X, q.Y))
SquareTrickStage(q) ==
  ifmaDoubleStage2SquareTrick(Times(q.X, q.X), Times(q.Y, q.Y), Times(q.Z, q.Z),
                              Times(Plus(q.X, q.Y), Plus(q.X, q.Y)))

ifmaPointDoubleComposableStatic(q) == ifmaPointFinalProducts(DirectStage(q))
ifmaPointDoubleComposable(q) ==
  LET G == Plus(Minus0(Times(q.X, q.X)), Times(q.Y, q.Y))
  IN ifmaPointFinalProducts(<<Twice(Times(q.X, q.Y)), Minus(G, Twice(Times(q.Z, q.Z))), G,
                              Minus(Minus0(Times(q.X, q.X)), Times(q.Y, q.Y))>>)

-----------------------------------------------------------------------------
\* Niels points.  The stage takes the products A, B, C and D, or Z for D.

ifmaNielsStage2(a, b, c, d) == <<Minus(b, a), Minus(Twice(d), c), Plus(Twice(d), c), Plus(b, a)>>

ifmaProjectiveNielsFromPoint(q) ==
  [YPlusX |-> Plus(q.Y, q.X), YMinusX |-> Minus(q.Y, q.X), Z |-> q.Z, T2D |-> Times(q.T, curve2D)]

fixedBaseCacheAffine(q) ==
  LET x == Times(q.X, Invert(q.Z))
      y == Times(q.Y, Invert(q.Z))
  IN [YPlusX |-> Plus(y, x), YMinusX |-> Minus(y, x), T2D |-> Times(Times(x, y), curve2D)]

\* A negative digit swaps the two linear terms and negates the third.
SignedNiels(n, negative) ==
  IF negative THEN [n EXCEPT !.YPlusX = n.YMinusX, !.YMinusX = n.YPlusX, !.T2D = Minus0(n.T2D)] ELSE n
setFixedBaseCachedLane(n, negative) == SignedNiels(n, negative)

\* What a lane without a digit adds.
setIdentityIFMAProjectiveNielsLane == [YPlusX |-> 1, YMinusX |-> 1, Z |-> 1, T2D |-> 0]
identityFixedBaseCached == [YPlusX |-> 1, YMinusX |-> 1, T2D |-> 0]

ifmaPointAddProjectiveNiels(a, n) ==
  ifmaPointFinalProducts(ifmaNielsStage2(Times(Minus(a.Y, a.X), n.YMinusX), Times(Plus(a.Y, a.X), n.YPlusX),
                                         Times(a.T, n.T2D), Times(a.Z, n.Z)))
addFixedBaseIFMACached(a, n) ==
  ifmaPointFinalProducts(ifmaNielsStage2(Times(Minus(a.Y, a.X), n.YMinusX), Times(Plus(a.Y, a.X), n.YPlusX),
                                         Times(a.T, n.T2D), a.Z))
addFixedBaseCached(a, n) ==
  LET A == Times(Minus(a.Y, a.X), n.YMinusX)
      B == Times(Plus(a.Y, a.X), n.YPlusX)
      C == Times(a.T, n.T2D)
      DD == Twice(a.Z)
  IN ifmaPointFinalProducts(<<Minus(B, A), Minus(DD, C), Plus(DD, C), Plus(B, A)>>)

-----------------------------------------------------------------------------
\* Completed points <<E, F, G, H>>: the state between a doubling's or an
\* addition's linear stage and the products it still owes.

ifmaCompletedToLinear(k) ==
  LET x == Times(k[1], k[2])
      y == Times(k[3], k[4])
  IN [YMinusX |-> Minus(y, x), YPlusX |-> Plus(y, x), Z |-> Times(k[2], k[3]), T |-> Times(k[1], k[4])]
ifmaCompletedAddProjectiveNiels(k, n) ==
  LET l == ifmaCompletedToLinear(k)
  IN ifmaNielsStage2(Times(l.YMinusX, n.YMinusX), Times(l.YPlusX, n.YPlusX), Times(l.T, n.T2D), Times(l.Z, n.Z))
ifmaCompletedAddAffineNiels(k, n) ==
  LET l == ifmaCompletedToLinear(k)
  IN ifmaNielsStage2(Times(l.YMinusX, n.YMinusX), Times(l.YPlusX, n.YPlusX), Times(l.T, n.T2D), l.Z)

-----------------------------------------------------------------------------
\* The packed point <<X, Y, T, Z>>, one coordinate in each lane.

Lanewise(u, v) == [i \in DOMAIN u |-> Times(u[i], v[i])]
quadPacked(a) == <<a.X, a.Y, a.T, a.Z>>
quadReduced(q) == [X |-> q[1], Y |-> q[2], Z |-> q[4], T |-> q[3]]

quadDoubleFirstOperands(q) == <<<<q[1], q[2], q[4], q[1]>>, <<q[1], q[2], q[4], q[2]>>>>
quadDoubleFinalOperands(m) ==
  LET e == Twice(m[4])
      g == Minus(m[2], m[1])
      h == Minus(Minus0(m[1]), m[2])
      f == Minus(Minus(m[2], m[1]), Twice(m[3]))
  IN <<<<e, g, e, f>>, <<f, h, h, g>>>>
quadPointDouble(q) ==
  LET u == quadDoubleFirstOperands(q)
      k == quadDoubleFinalOperands(Lanewise(u[1], u[2]))
  IN Lanewise(k[1], k[2])

quadCachedAddFirstOperand(q) == <<Minus(q[2], q[1]), Plus(q[2], q[1]), q[3], q[4]>>
quadCachedAddFinalOperands(m) ==
  LET e == Minus(m[2], m[1])
      g == Plus(m[4], m[3])
      h == Plus(m[2], m[1])
      f == Minus(m[4], m[3])
  IN <<<<e, g, e, f>>, <<f, h, h, g>>>>
quadCachedScale == <<1, 1, curve2D, 2>>
quadCachePackedPoint(q) == Lanewise(quadCachedAddFirstOperand(q), quadCachedScale)
quadNegateCachedPoint(c) == <<c[2], c[1], Minus0(c[3]), c[4]>>
\* A point cached at once, with its sign.
quadCachedSetReduced(q, negative) ==
  LET c == <<Minus(q.Y, q.X), Plus(q.Y, q.X), Times(q.T, curve2D), Twice(q.Z)>>
  IN IF negative THEN quadNegateCachedPoint(c) ELSE c
quadPointAddCached(q, c) ==
  LET k == quadCachedAddFinalOperands(Lanewise(quadCachedAddFirstOperand(q), c)) IN Lanewise(k[1], k[2])

\* buildQuadNAFEntriesX4: the odd multiples, twice the base added each time.
buildQuadNAFEntries(base, count) ==
  LET twice == quadCachePackedPoint(quadPointDouble(quadPacked(base)))
      odd[i \in 1 .. count] ==
        IF i = 1 THEN quadPacked(base) ELSE LET before == odd[i - 1] IN quadPointAddCached(before, twice)
  IN [i \in 1 .. count |-> quadCachePackedPoint(odd[i])]

\* Two packed points, one in each half of an eight-lane vector.
packQuadTwoChain(first, second) == first \o second
unpackQuadTwoChain(v) == <<SubSeq(v, 1, 4), SubSeq(v, 5, 8)>>
quadTwoChainDouble(v) ==
  LET half == unpackQuadTwoChain(v) IN packQuadTwoChain(quadPointDouble(half[1]), quadPointDouble(half[2]))
quadTwoChainCachedAdd(v, c) ==
  LET half == unpackQuadTwoChain(v)
      cached == unpackQuadTwoChain(c)
  IN packQuadTwoChain(quadPointAddCached(half[1], cached[1]), quadPointAddCached(half[2], cached[2]))

-----------------------------------------------------------------------------
\* The vendored library: sums and doubles in P1xP1, then P2 or P3.

projCachedFromP3(q) ==
  [YPlusX |-> Plus(q.Y, q.X), YMinusX |-> Minus(q.Y, q.X), Z |-> q.Z, T2D |-> Times(q.T, curve2D)]
affineCachedFromP3(q) ==
  LET invZ == Invert(q.Z)
  IN [YPlusX |-> Times(Plus(q.Y, q.X), invZ), YMinusX |-> Times(Minus(q.Y, q.X), invZ),
      T2D |-> Times(Times(q.T, curve2D), invZ)]
CondNeg(n, cond) == SignedNiels(n, cond)

\* The products of the four additions and subtractions; flipped for a difference.
Completed1(PP, MM, Z, T) == [X |-> Minus(PP, MM), Y |-> Plus(PP, MM), Z |-> Z, T |-> T]
projP1xP1Add(p, q) ==
  LET TT2d == Times(p.T, q.T2D)
      ZZ2 == Twice(Times(p.Z, q.Z))
  IN Completed1(Times(Plus(p.Y, p.X), q.YPlusX), Times(Minus(p.Y, p.X), q.YMinusX), Plus(ZZ2, TT2d), Minus(ZZ2, TT2d))
projP1xP1Sub(p, q) ==
  LET TT2d == Times(p.T, q.T2D)
      ZZ2 == Twice(Times(p.Z, q.Z))
  IN Completed1(Times(Plus(p.Y, p.X), q.YMinusX), Times(Minus(p.Y, p.X), q.YPlusX), Minus(ZZ2, TT2d), Plus(ZZ2, TT2d))
projP1xP1AddAffine(p, q) ==
  LET TT2d == Times(p.T, q.T2D)
  IN Completed1(Times(Plus(p.Y, p.X), q.YPlusX), Times(Minus(p.Y, p.X), q.YMinusX),
                Plus(Twice(p.Z), TT2d), Minus(Twice(p.Z), TT2d))
projP1xP1SubAffine(p, q) ==
  LET TT2d == Times(p.T, q.T2D)
  IN Completed1(Times(Plus(p.Y, p.X), q.YMinusX), Times(Minus(p.Y, p.X), q.YPlusX),
                Minus(Twice(p.Z), TT2d), Plus(Twice(p.Z), TT2d))
projP1xP1Double(p) ==
  LET XX == Times(p.X, p.X)
      YY == Times(p.Y, p.Y)
      S == Times(Plus(p.X, p.Y), Plus(p.X, p.Y))
  IN [X |-> Minus(S, Plus(YY, XX)), Y |-> Plus(YY, XX), Z |-> Minus(YY, XX),
      T |-> Minus(Twice(Times(p.Z, p.Z)), Minus(YY, XX))]

projP2FromP1xP1(c) == [X |-> Times(c.X, c.T), Y |-> Times(c.Y, c.Z), Z |-> Times(c.Z, c.T)]
projP2FromP3(p) == [X |-> p.X, Y |-> p.Y, Z |-> p.Z]
fromP1xP1(c) == [X |-> Times(c.X, c.T), Y |-> Times(c.Y, c.Z), Z |-> Times(c.Z, c.T), T |-> Times(c.X, c.Y)]
fromP2(p) == [X |-> Times(p.X, p.Z), Y |-> Times(p.Y, p.Z), Z |-> Times(p.Z, p.Z), T |-> Times(p.X, p.Y)]

vendoredAdd(p, q) == fromP1xP1(projP1xP1Add(p, projCachedFromP3(q)))
vendoredSubtract(p, q) == fromP1xP1(projP1xP1Sub(p, projCachedFromP3(q)))
MultByCofactor(p) ==
  LET once == projP2FromP1xP1(projP1xP1Double(projP2FromP3(p)))
      again == projP2FromP1xP1(projP1xP1Double(once))
  IN fromP1xP1(projP1xP1Double(again))
r43MultByCofactor(p) == Double(Double(Double(p)))

\* isOnCurve: what SetExtendedCoordinates accepts.
isOnCurve(c) ==
  /\ Minus(Times(c.Y, c.Y), Times(c.X, c.X)) = Plus(Times(D, Times(c.T, c.T)), Times(c.Z, c.Z))
  /\ Times(c.X, c.Y) = Times(c.T, c.Z)

-----------------------------------------------------------------------------
\* Comparisons and the encoding.

Equal(p, q) == Times(p.X, q.Z) = Times(q.X, p.Z) /\ Times(p.Y, q.Z) = Times(q.Y, p.Z)
\* q has Z = 1.
EqualAffine(p, q) == p.X = Times(q.X, p.Z) /\ p.Y = Times(q.Y, p.Z)
EqualX8(p, q) == Equal(p, q)
r51Equal(p, q) == Equal(p, q)
r43Equal(p, q) == Equal(p, q)
vendoredEqual(p, q) == Equal(p, q)
EqualAffineX8(p, q) == EqualAffine(p, q)
r43EqualAffine(p, q) == EqualAffine(p, q)
EqualCompactAffine(p, q) == p.X = Times(q.X, p.Z) /\ p.Y = Times(q.Y, p.Z)
EqualCompactAffineX8(p, q) == EqualCompactAffine(p, q)
ExperimentalIFMAPointEqualAffineX8(p, q) == EqualAffine(p, q)
ExperimentalIFMAPointEqualAffineX4(p, q) == EqualAffine(p, q)
IsIdentity(p) == p.X = 0 /\ p.Y = p.Z
IsIdentityX8(p) == IsIdentity(p)
r51IsIdentity(p) == IsIdentity(p)
r43IsIdentity(p) == r43Equal(p, Scaled(Neutral, 1))

\* The canonical y and the sign of x.
Bytes(p) == <<Times(p.Y, Invert(p.Z)), Times(p.X, Invert(p.Z)) % 2>>
r43PointBytes(p) == Bytes(p)
vendoredBytes(p) == Bytes(p)

-----------------------------------------------------------------------------
\* One accumulator.

VARIABLES
  form,  \* "P3" extended, "P2" without T, "completed"
  acc,
  pt     \* the affine point it should stand for

pointVars == <<form, acc, pt>>

PointInit == form = "P3" /\ acc = Scaled(Neutral, 1) /\ pt = Neutral

Signed(p, negative) == IF negative THEN Opposite(p) ELSE p

\* Every implementation of a + q, of a - q, and of a + q or a - q from a cached q.
Sums(a, q) ==
  {Add(a, q), AddX8(a, q), r43Add(a, q), ExperimentalIFMAPointAddX8(a, q), ExperimentalIFMAPointAddX4(a, q),
   ifmaPointAddComposableStatic(a, q), ifmaPointAddComposable(a, q), fixedBasePointAdd(a, q), vendoredAdd(a, q)}
Differences(a, q) ==
  {Subtract(a, q), SubtractX8(a, q), r43Subtract(a, q), vendoredSubtract(a, q)}
CachedSums(a, q, negative) ==
  {ifmaPointAddProjectiveNiels(a, SignedNiels(ifmaProjectiveNielsFromPoint(q), negative)),
   addFixedBaseIFMACached(a, SignedNiels(fixedBaseCacheAffine(q), negative)),
   addFixedBaseCached(a, setFixedBaseCachedLane(fixedBaseCacheAffine(q), negative)),
   fromP1xP1(projP1xP1Add(a, CondNeg(projCachedFromP3(q), negative))),
   fromP1xP1(projP1xP1AddAffine(a, CondNeg(affineCachedFromP3(q), negative))),
   fromP1xP1(IF negative THEN projP1xP1SubAffine(a, affineCachedFromP3(q))
             ELSE projP1xP1AddAffine(a, affineCachedFromP3(q))),
   quadReduced(quadPointAddCached(quadPacked(a), quadCachedSetReduced(q, negative)))}
Doubles(a) ==
  {Double(a), DoubleX8(a), r43Double(a), ExperimentalIFMAPointDoubleX8(a), ExperimentalIFMAPointDoubleX4(a),
   fixedBasePointDouble(a), ifmaPointDoubleComposableStatic(a), ifmaPointDoubleComposable(a),
   ifmaPointFinalProducts(SquareTrickStage(a)), quadReduced(quadPointDouble(quadPacked(a))),
   fromP1xP1(projP1xP1Double(projP2FromP3(a)))}

AddPoint ==
  /\ form = "P3"
  /\ \E p \in Points, z \in Scales, negative \in BOOLEAN :
       /\ acc' \in IF negative THEN Differences(acc, Scaled(p, z)) ELSE Sums(acc, Scaled(p, z))
       /\ pt' = Sum(pt, Signed(p, negative))
  /\ UNCHANGED form

AddCached ==
  /\ form = "P3"
  /\ \E p \in Points, z \in Scales, negative \in BOOLEAN :
       acc' \in CachedSums(acc, Scaled(p, z), negative) /\ pt' = Sum(pt, Signed(p, negative))
  /\ UNCHANGED form

\* A lane whose digit is zero.
AddIdentity ==
  /\ form = "P3"
  /\ acc' \in {ifmaPointAddProjectiveNiels(acc, setIdentityIFMAProjectiveNielsLane),
               addFixedBaseIFMACached(acc, identityFixedBaseCached)}
  /\ UNCHANGED <<form, pt>>

\* An entry of a packed table of odd multiples.
AddOddMultiple ==
  /\ form = "P3"
  /\ \E p \in Points, i \in 1 .. 3, negative \in BOOLEAN :
       LET entry == buildQuadNAFEntries(Scaled(p, 1), 3)[i]
           odd == IF i = 1 THEN p ELSE IF i = 2 THEN Sum(p, Sum(p, p)) ELSE Sum(Sum(p, Sum(p, p)), Sum(p, p))
       IN /\ acc' = quadReduced(quadPointAddCached(quadPacked(acc),
                                   IF negative THEN quadNegateCachedPoint(entry) ELSE entry))
          /\ pt' = Sum(pt, Signed(odd, negative))
  /\ UNCHANGED form

DoublePoint == form = "P3" /\ acc' \in Doubles(acc) /\ pt' = Sum(pt, pt) /\ UNCHANGED form

\* The accumulator in one half of a vector, another point in the other.
TwoChain ==
  /\ form = "P3"
  /\ \E p \in Points, z \in Scales, half \in 1 .. 2 :
       LET mine == quadPacked(acc)
           other == quadPacked(Scaled(p, z))
           packed == IF half = 1 THEN packQuadTwoChain(mine, other) ELSE packQuadTwoChain(other, mine)
           cached == packQuadTwoChain(quadCachePackedPoint(other), quadCachePackedPoint(other))
       IN \/ acc' = quadReduced(unpackQuadTwoChain(quadTwoChainDouble(packed))[half]) /\ pt' = Sum(pt, pt)
          \/ acc' = quadReduced(unpackQuadTwoChain(quadTwoChainCachedAdd(packed, cached))[half]) /\ pt' = Sum(pt, p)
  /\ UNCHANGED form

\* Mutant: the result passes for an extended point, with the T it had before.
DoubleKeepingT ==
  /\ form = "P3"
  /\ acc' = ifmaProjectiveFinalProducts(DirectStage(acc)) @@ [T |-> acc.T]
  /\ pt' = Sum(pt, pt) /\ UNCHANGED form

\* A doubling whose result needs no T.
DoubleToP2 ==
  /\ form \in {"P3", "P2"}
  /\ acc' \in {ifmaProjectiveFinalProducts(DirectStage(acc)), ifmaProjectiveFinalProducts(SquareTrickStage(acc)),
               projP2FromP1xP1(projP1xP1Double(projP2FromP3(acc)))}
  /\ form' = "P2" /\ pt' = Sum(pt, pt)

\* The last of a run, which computes T again.
DoubleToP3 ==
  /\ form = "P2"
  /\ acc' \in {ifmaPointFinalProducts(DirectStage(acc)), ifmaPointFinalProducts(SquareTrickStage(acc)),
               fromP1xP1(projP1xP1Double(acc))}
  /\ form' = "P3" /\ pt' = Sum(pt, pt)

DoubleToCompleted == form = "P2" /\ acc' = DirectStage(acc) /\ form' = "completed" /\ pt' = Sum(pt, pt)

AddCompleted ==
  /\ form = "completed"
  /\ \E p \in Points, z \in Scales, negative \in BOOLEAN :
       /\ acc' \in {ifmaCompletedAddProjectiveNiels(acc, SignedNiels(ifmaProjectiveNielsFromPoint(Scaled(p, z)), negative)),
                    ifmaCompletedAddAffineNiels(acc, SignedNiels(fixedBaseCacheAffine(Scaled(p, z)), negative))}
       /\ pt' = Sum(pt, Signed(p, negative))
  /\ UNCHANGED form

FinishCompleted ==
  /\ form = "completed"
  /\ \/ acc' = ifmaProjectiveFinalProducts(acc) /\ form' = "P2"
     \/ acc' = ifmaPointFinalProducts(acc) /\ form' = "P3"
  /\ UNCHANGED pt

FromP3 == form = "P3" /\ acc' = projP2FromP3(acc) /\ form' = "P2" /\ UNCHANGED pt
FromP2 == form = "P2" /\ acc' = fromP2(acc) /\ form' = "P3" /\ UNCHANGED pt

NegatePoint == form = "P3" /\ acc' = Negated(acc) /\ pt' = Opposite(pt) /\ UNCHANGED form

Cofactor ==
  /\ form = "P3"
  /\ acc' \in {MultByCofactor(acc), r43MultByCofactor(acc)}
  /\ LET twice == Sum(pt, pt)
         four == Sum(twice, twice)
     IN pt' = Sum(four, four)
  /\ UNCHANGED form

SetExtendedCoordinates ==
  /\ form = "P3"
  /\ \E c \in Quadruples :
       /\ isOnCurve(c)
       /\ acc' = c
       /\ pt' = <<Times(c.X, Invert(c.Z)), Times(c.Y, Invert(c.Z))>>
  /\ UNCHANGED form

PointNext ==
  \/ AddPoint \/ AddCached \/ AddIdentity \/ AddOddMultiple \/ DoublePoint \/ TwoChain
  \/ DoubleToP2 \/ DoubleToP3 \/ DoubleToCompleted \/ AddCompleted \/ FinishCompleted
  \/ FromP3 \/ FromP2 \/ NegatePoint \/ Cofactor \/ SetExtendedCoordinates

PointSpec == PointInit /\ [][PointNext]_pointVars

-----------------------------------------------------------------------------

\* The accumulator stands for the point the operations sum to, whatever
\* formulas and coordinate systems they went through: Z is never zero, and
\* where T is carried it is XY/Z, so no addition reads a T that a run of
\* projective doublings left behind.
StandsFor ==
  LET a == IF form = "completed" THEN ifmaPointFinalProducts(acc) ELSE acc
  IN /\ a.Z # 0
     /\ a.X = Times(pt[1], a.Z) /\ a.Y = Times(pt[2], a.Z)
     /\ form # "P2" => Times(a.T, a.Z) = Times(a.X, a.Y)

\* Two points compare equal exactly when they are the same point, in whatever
\* scaling: both cross-products of Equal and EqualAffine are needed.
EqualExact ==
  form = "P3" =>
    \A p \in Points :
      LET affine == Scaled(p, 1)
          same == pt = p
      IN /\ \A z \in Scales : \A verdict \in {Equal(acc, Scaled(p, z)), EqualX8(acc, Scaled(p, z)),
              r51Equal(acc, Scaled(p, z)), r43Equal(acc, Scaled(p, z)), vendoredEqual(acc, Scaled(p, z))} :
              verdict = same
         /\ \A verdict \in {EqualAffine(acc, affine), EqualAffineX8(acc, affine), r43EqualAffine(acc, affine),
              EqualCompactAffine(acc, affine), EqualCompactAffineX8(acc, affine),
              ExperimentalIFMAPointEqualAffineX8(acc, affine), ExperimentalIFMAPointEqualAffineX4(acc, affine)} :
              verdict = same
         /\ \A verdict \in {IsIdentity(acc), IsIdentityX8(acc), r51IsIdentity(acc), r43IsIdentity(acc)} :
              verdict = (pt = Neutral)

\* The encoding of a point depends on the point and not on its scaling, and
\* tells it from every other point.
BytesExact ==
  form = "P3" =>
    \A p \in Points : \A encoding \in {Bytes(acc), r43PointBytes(acc), vendoredBytes(acc)} :
      (encoding = <<p[2], p[1] % 2>>) = (pt = p)

\* All of it: the accumulator stands for the point its operations sum to,
\* whatever formulas and coordinate systems they went through, and comparisons
\* and encodings depend on the point and not on its scaling.
PointExact == StandsFor /\ EqualExact /\ BytesExact

=============================================================================
