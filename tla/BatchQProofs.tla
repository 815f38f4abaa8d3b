---------------------------- MODULE BatchQProofs ----------------------------
(***************************************************************************)
(* Theorems about the r51 lane pipeline, for any batches, any lane width,  *)
(* chunk size and dispatch, and a worker with any history: its masks and   *)
(* lanes stay those of their own items, and it implements BatchContract.   *)
(***************************************************************************)
EXTENDS BatchQ, FiniteSetTheorems, TLAPS

-----------------------------------------------------------------------------
\* The invariant.

Labels == {"idle", "chunk", "prepare", "evaluate", "returned", "failed"}
Working == {"prepare", "evaluate"}
InChunk == 0 .. (Count - 1)

\* The item reaches the equation, so its lane must be live.
Deserves(i) == batch[i].kind \in {"good", "bad"}

TypeOK ==
  /\ config \in Config /\ pc \in Labels
  /\ withDecoded \in BOOLEAN /\ compact \in BOOLEAN /\ encodeX8 \in BOOLEAN
  /\ offset \in Nat /\ relative \in Nat /\ missCount \in Nat
  /\ points \in [Positions -> BOOLEAN] /\ pointsX8 \in [Positions -> BOOLEAN]
  /\ decodedA \in [Positions -> Int] /\ decodedS \in [Positions -> Int]
  /\ missA \in [Lanes -> Int] /\ missLanes \in [Lanes -> Int]

\* The chunks before the offset are decided, the others are still FALSE.
CallState ==
  /\ IF pc = "idle" THEN batch = NoBatch ELSE batch \in Batches \cup Warmups
  /\ pc = "chunk" => offset <= Size
  /\ pc \in Working => offset < Size
  /\ pc \in {"chunk"} \cup Working => ok = [i \in DOMAIN batch |-> i < offset /\ Accepts(batch[i])]
  /\ pc = "returned" => ok = Verdicts(batch)
  /\ pc = "failed" => ok = [i \in DOMAIN batch |-> FALSE]

\* What the finalizer will find in a lane.
Held(p) == IF encodeX8 /\ p \div X8 \in directX8 THEN p \in activeX8 ELSE p \in active
Point(p) == IF encodeX8 /\ p \div X8 \in directX8 THEN pointsX8[p] ELSE points[p]

\* The lanes before r hold what their own items deserve, the others were cleared.
Scratch(r) ==
  \A p \in InChunk :
    IF p < r THEN /\ Held(p) <=> Deserves(offset + p)
                  /\ Held(p) => (Point(p) <=> Accepts(batch[offset + p]))
    ELSE p \notin active /\ (encodeX8 => p \div X8 \notin directX8)

\* Every lane met so far whose key decodes is live or packed, and a live or
\* packed lane has the A and the S of its own item.
Own(p) == decodedA[p] = offset + p /\ decodedS[p] = offset + p
Misses == 0 .. (missCount - 1)
Packed(m) ==
  /\ missLanes[m] \in 0 .. (relative - 1) /\ missLanes[m] \notin live
  /\ missA[m] = offset + missLanes[m] /\ decodedS[missLanes[m]] = offset + missLanes[m]
  /\ prepareR51Signature(offset + missLanes[m])
Preparation ==
  /\ compact /\ ~coldWide /\ relative <= Count
  /\ missCount < X8 /\ (~config.wide \/ relative > WideCount => missCount < X4)
  /\ \A m \in Misses : Packed(m)
  /\ \A m, n \in Misses : missLanes[m] = missLanes[n] => m = n
  /\ \A p \in live : p \in 0 .. (relative - 1) /\ Deserves(offset + p) /\ Own(p)
  /\ \A p \in 0 .. (relative - 1) :
       Deserves(offset + p) => p \in live \/ \E m \in Misses : missLanes[m] = p

\* The lanes that were prepared for evaluation.
Reported ==
  /\ live = IF compact /\ ~coldWide THEN {p \in InChunk : Deserves(offset + p)} ELSE {}
  /\ \A p \in live : Own(p)

LaneInv ==
  /\ TypeOK /\ CallState
  /\ pc = "prepare" => Scratch(0) /\ Preparation
  /\ pc = "evaluate" => relative % X8 = 0 /\ Scratch(relative) /\ Reported

-----------------------------------------------------------------------------
\* Arithmetic of lanes and chunks.

\* The smaller of two naturals.
LEMMA MinOfTwo ==
  ASSUME NEW m \in Nat, NEW n \in Nat
  PROVE  Min({m, n}) = IF m <= n THEN m ELSE n
<1>1. \A x \in {m, n} : x \in Nat
  OBVIOUS
<1>2. \E x \in {m, n} : \A y \in {m, n} : x <= y
  BY <1>1
<1>3. Min({m, n}) \in {m, n} /\ \A y \in {m, n} : Min({m, n}) <= y
  BY <1>2 DEF Min
<1> QED
  BY <1>3

\* Division by a lane width.
LEMMA Division ==
  ASSUME NEW n \in Nat, NEW d \in Nat \ {0}
  PROVE  /\ n % d \in 0 .. (d - 1) /\ n % d <= n
         /\ n \div d \in Nat /\ n = (d * (n \div d)) + (n % d)
OBVIOUS

\* Multiples of a width leave no remainder.
LEMMA Multiple ==
  ASSUME NEW q \in Nat, NEW d \in Nat \ {0}
  PROVE  (d * q) % d = 0
OBVIOUS

\* The next multiple.
LEMMA NextMultiple ==
  ASSUME NEW n \in Nat, NEW d \in Nat \ {0}, n % d = 0
  PROVE  (n + d) % d = 0
<1> DEFINE q == n \div d
<1>1. q \in Nat /\ n = (d * q) + (n % d)
  BY Division
<1> HIDE DEF q
<1>2. n + d = d * (q + 1) /\ q + 1 \in Nat
  BY <1>1
<1> QED
  BY <1>2, Multiple

\* Rounding up to a lane width.
LEMMA Rounded ==
  ASSUME NEW n \in Nat, NEW d \in Nat \ {0}
  PROVE  Ceil(n, d) \in Nat /\ n <= Ceil(n, d)
<1> DEFINE m == n + d - 1
           q == m \div d
<1>1. m \in Nat
  OBVIOUS
<1>2. q \in Nat /\ m % d \in 0 .. (d - 1) /\ m = (d * q) + (m % d)
  BY <1>1, Division
<1>3. Ceil(n, d) = q * d
  BY DEF Ceil
<1> HIDE DEF q
<1>4. q * d = d * q /\ q * d \in Nat
  BY <1>2
<1>5. d * q = m - (m % d)
  BY <1>2, <1>4
<1>6. m - (m % d) >= n
  BY <1>2
<1> QED
  BY <1>3, <1>4, <1>5, <1>6

\* No group holds lanes from both sides of its boundary.
LEMMA Boundary ==
  ASSUME NEW d \in Nat \ {0}, NEW r \in Nat, r % d = 0, NEW p \in Nat, p < r, NEW s \in Nat, r <= s
  PROVE  p \div d # s \div d
<1> DEFINE a == p \div d
           b == r \div d
           c == s \div d
<1>1. /\ a \in Nat /\ p % d \in 0 .. (d - 1) /\ p = (d * a) + (p % d)
      /\ b \in Nat /\ r % d \in 0 .. (d - 1) /\ r = (d * b) + (r % d)
      /\ c \in Nat /\ s % d \in 0 .. (d - 1) /\ s = (d * c) + (s % d)
  BY Division
<1> HIDE DEF a, b, c
<1>2. d * a \in Nat /\ d * b \in Nat /\ d * c \in Nat
  BY <1>1
<1>3. d * a < d * b /\ d * b < (d * c) + d
  BY <1>1, <1>2
<1>4. a < b
  <2>1. a >= b => d * a >= d * b
    BY <1>1
  <2> QED
    BY <2>1, <1>1, <1>2, <1>3
<1>5. a # c
  BY <1>1, <1>3, <1>4
<1> QED
  BY <1>5 DEF a, c

\* The lanes of a group that starts at a multiple of its width share its number.
LEMMA SameGroup ==
  ASSUME NEW d \in Nat \ {0}, NEW r \in Nat, r % d = 0, NEW p \in r .. (r + d - 1)
  PROVE  p \div d = r \div d
<1> DEFINE b == r \div d
           c == p \div d
<1>1. /\ b \in Nat /\ r % d \in 0 .. (d - 1) /\ r = (d * b) + (r % d) /\ p \in Nat
      /\ c \in Nat /\ p % d \in 0 .. (d - 1) /\ p = (d * c) + (p % d)
  <2>1. p \in Nat
    OBVIOUS
  <2> QED
    BY <2>1, Division
<1> HIDE DEF b, c
<1>2. d * b \in Nat /\ d * c \in Nat
  BY <1>1
<1>3. d * b < (d * c) + d /\ d * c < (d * b) + d
  BY <1>1, <1>2
<1>4. c > b => d * c >= (d * b) + d
  <2>1. c > b => c >= b + 1
    BY <1>1
  <2>2. c >= b + 1 => d * c >= d * (b + 1)
    BY <1>1
  <2> QED
    BY <2>1, <2>2, <1>1
<1>5. b > c => d * b >= (d * c) + d
  <2>1. b > c => b >= c + 1
    BY <1>1
  <2>2. b >= c + 1 => d * b >= d * (c + 1)
    BY <1>1
  <2> QED
    BY <2>1, <2>2, <1>1
<1>6. b = c
  BY <1>1, <1>2, <1>3, <1>4, <1>5
<1> QED
  BY <1>6 DEF b, c

\* The sizes of the call and of the chunk at hand.
LEMMA ChunkShape ==
  ASSUME TypeOK, CallState, pc # "idle"
  PROVE  /\ Size \in Nat /\ batch \in [0 .. (Size - 1) -> Item] /\ X8 \in Nat \ {0}
         /\ offset < Size => /\ Count \in 1 .. MaxChunk /\ offset + Count <= Size
                             /\ WideCount \in Nat /\ WideCount <= Count
                             /\ Cleared \in Nat /\ Count <= Cleared
                             /\ InChunk \subseteq Positions
<1>1. /\ X4 \in Nat \ {0} /\ X8 \in Nat \ {0} /\ MaxChunk \in Nat \ {0} /\ offset \in Nat
  BY BatchQAssumption DEF X8, TypeOK
<1>2. Size \in Nat /\ batch \in [0 .. (Size - 1) -> Item]
  <2>1. batch \in Batches \cup Warmups
    BY DEF CallState
  <2>2. IsFiniteSet(DOMAIN batch) /\ batch \in [0 .. (Cardinality(DOMAIN batch) - 1) -> Item]
    BY <2>1, BatchQAssumption
  <2> QED
    BY <2>2, FS_CardinalityType DEF Size
<1>3. ASSUME offset < Size
      PROVE  /\ Count \in 1 .. MaxChunk /\ offset + Count <= Size
             /\ WideCount \in Nat /\ WideCount <= Count
             /\ Cleared \in Nat /\ Count <= Cleared /\ InChunk \subseteq Positions
  <2>1. Size - offset \in Nat \ {0}
    BY <1>1, <1>2, <1>3
  <2>2. Count \in 1 .. MaxChunk /\ offset + Count <= Size
    BY <1>1, <1>2, <2>1, MinOfTwo DEF Count
  <2>3. WideCount \in Nat /\ WideCount <= Count
    <3>1. Count \in Nat
      BY <1>1, <2>2
    <3>2. Count % X8 \in 0 .. (X8 - 1) /\ Count % X8 <= Count
      BY <1>1, <3>1, Division
    <3> QED
      BY <1>1, <3>1, <3>2 DEF WideCount
  <2>4. Cleared \in Nat /\ Count <= Cleared
    BY <1>1, <2>2, Rounded DEF Cleared
  <2> QED
    BY <1>1, <2>2, <2>3, <2>4 DEF InChunk, Positions
<1> QED
  BY <1>1, <1>2, <1>3

\* What an item can be.
LEMMA Kinds ==
  ASSUME NEW x \in Item
  PROVE  /\ x.kind \in {"good", "bad", "rejected", "undecodable"}
         /\ x.entry = "hit" => x.kind # "undecodable"
BY DEF Item

-----------------------------------------------------------------------------
\* Challenges.

\* An enumeration of a finite set meets every element.
LEMMA Enumeration ==
  ASSUME NEW S, IsFiniteSet(S)
  PROVE  /\ SetToSeq(S) \in [1 .. Cardinality(S) -> S] /\ Cardinality(S) \in Nat
         /\ \A e, g \in 1 .. Cardinality(S) : SetToSeq(S)[e] = SetToSeq(S)[g] => e = g
         /\ \A p \in S : \E e \in 1 .. Cardinality(S) : SetToSeq(S)[e] = p
<1> DEFINE n == Cardinality(S)
<1>1. n \in Nat /\ ExistsBijection(1 .. n, S)
  BY FS_CardinalityType
<1>2. \E f \in [1 .. n -> S] : IsInjective(f)
  BY <1>1 DEF ExistsBijection, Bijection, Injection, IsInjective
<1>3. SetToSeq(S) \in [1 .. n -> S] /\ IsInjective(SetToSeq(S))
  BY <1>2 DEF SetToSeq
<1>4. SetToSeq(S) \in Injection(1 .. n, S)
  BY <1>3 DEF Injection, IsInjective
<1>5. IsFiniteSet(1 .. n) /\ Cardinality(1 .. n) = n
  BY <1>1, FS_Interval
<1>6. SetToSeq(S) \in Surjection(1 .. n, S)
  BY <1>4, <1>5, FS_Injection
<1> QED
  BY <1>1, <1>3, <1>6 DEF IsInjective, Surjection

\* Compaction gives every live lane the challenge of its own item.
LEMMA ChallengesOwn ==
  ASSUME NEW on, IsFiniteSet(on), NEW p \in on, p \in Positions
  PROVE  reduceChallenges(on)[p] = offset + p
<1> DEFINE lanes == SetToSeq(on)
           d == {e \in DOMAIN lanes : ChallengeLane(lanes, e) = p}
<1>1. /\ lanes \in [1 .. Cardinality(on) -> on] /\ Cardinality(on) \in Nat
      /\ \A e, g \in 1 .. Cardinality(on) : lanes[e] = lanes[g] => e = g
      /\ \E e \in 1 .. Cardinality(on) : lanes[e] = p
  BY Enumeration
<1>2. PICK e \in 1 .. Cardinality(on) : lanes[e] = p
  BY <1>1
<1> HIDE DEF lanes
<1>3. d = {e}
  BY <1>1, <1>2 DEF ChallengeLane
<1>4. Max(d) = e
  BY <1>1, <1>2, <1>3 DEF Max
<1>5. reduceChallenges(on)[p] = IF d = {} THEN Old ELSE offset + lanes[Max(d)]
  BY DEF reduceChallenges, lanes
<1> QED
  BY <1>2, <1>3, <1>4, <1>5

\* A live lane with the A and the S of its own item computes that item's verdict.
LEMMA ValueOwn ==
  ASSUME NEW on, IsFiniteSet(on), NEW p \in on, p \in Positions, NEW A, NEW S,
         A[p] = offset + p, S[p] = offset + p, offset + p \in DOMAIN batch
  PROVE  Value(p, on, A, S) <=> Accepts(batch[offset + p])
<1>1. reduceChallenges(on)[p] = offset + p
  BY ChallengesOwn
<1> QED
  BY <1>1 DEF Value, Equation, Accepts

-----------------------------------------------------------------------------
\* Groups.

\* The live lanes of the group at hand, with the A and S of their own items.
GroupOwn(on, A, S) ==
  /\ on = {p \in Group(X8) : Deserves(offset + p)}
  /\ \A p \in on : A[p] = offset + p /\ S[p] = offset + p

\* The lanes of the group at hand are lanes of the chunk.
LEMMA GroupShape ==
  ASSUME LaneInv, pc = "evaluate", relative < Count
  PROVE  /\ Group(X8) = {p \in InChunk : relative <= p /\ p < relative + X8}
         /\ IsFiniteSet(InChunk)
         /\ \A p \in InChunk : p \in Nat /\ p \in Positions /\ offset + p \in DOMAIN batch
                              /\ batch[offset + p] \in Item
<1>1. /\ Size \in Nat /\ batch \in [0 .. (Size - 1) -> Item] /\ X8 \in Nat \ {0}
      /\ Count \in 1 .. MaxChunk /\ offset + Count <= Size /\ InChunk \subseteq Positions
      /\ offset \in Nat /\ relative \in Nat
  BY ChunkShape DEF LaneInv, CallState, TypeOK, Working
<1>2. Count - relative \in Nat /\ Count \in Nat
  BY <1>1
<1>3. Min({X8, Count - relative}) = IF X8 <= Count - relative THEN X8 ELSE Count - relative
  BY <1>1, <1>2, MinOfTwo
<1>4. Group(X8) = {p \in InChunk : relative <= p /\ p < relative + X8}
  BY <1>1, <1>2, <1>3 DEF Group, InChunk
<1>5. IsFiniteSet(InChunk)
  BY <1>2, FS_Interval DEF InChunk
<1>6. ASSUME NEW p \in InChunk
      PROVE  p \in Nat /\ offset + p \in DOMAIN batch /\ batch[offset + p] \in Item
  BY <1>1, <1>2 DEF InChunk
<1> QED
  BY <1>1, <1>4, <1>5, <1>6

\* The kernels compute the verdicts of the live lanes of the group.
LEMMA GroupValues ==
  ASSUME LaneInv, pc = "evaluate", relative < Count, NEW on, NEW A, NEW S, GroupOwn(on, A, S)
  PROVE  \A p \in on : Value(p, on, A, S) <=> Accepts(batch[offset + p])
<1>1. on \subseteq InChunk /\ IsFiniteSet(on)
  <2>1. on \subseteq InChunk
    BY GroupShape DEF GroupOwn
  <2> QED
    BY <2>1, GroupShape, FS_Subset
<1>2. ASSUME NEW p \in on
      PROVE  Value(p, on, A, S) <=> Accepts(batch[offset + p])
  <2>1. p \in Positions /\ offset + p \in DOMAIN batch
    BY <1>1, GroupShape
  <2> QED
    BY <1>1, <2>1, ValueOwn DEF GroupOwn
<1> QED
  BY <1>2

\* What storing a group does to the lanes before it, in it and after it.
Stored(on) ==
  \A p \in InChunk :
    /\ p < relative => (Held(p)' <=> Held(p)) /\ (Point(p)' <=> Point(p))
    /\ relative <= p /\ p < relative + X8 =>
         /\ Held(p)' <=> p \in on
         /\ p \in on => (Point(p)' <=> Accepts(batch[offset + p]))
    /\ relative + X8 <= p => p \notin active' /\ (encodeX8 => p \div X8 \notin directX8')

\* Groups are stored whole: no lane of another group is touched.
LEMMA LanesApart ==
  ASSUME LaneInv, pc = "evaluate", relative < Count, NEW p \in InChunk
  PROVE  /\ X8 \in Nat \ {0} /\ X4 \in Nat \ {0} /\ relative \in Nat /\ p \in Nat
         /\ relative <= p /\ p < relative + X8 => p \div X8 = relative \div X8
         /\ p < relative => p \div X8 # relative \div X8
         /\ relative + X8 <= p => p \div X8 # relative \div X8
         /\ p < relative => \A s \in InChunk : relative <= s => p \div X4 # s \div X4
<1>1. /\ X8 \in Nat \ {0} /\ X4 \in Nat \ {0} /\ X8 = 2 * X4 /\ relative \in Nat /\ relative % X8 = 0
      /\ InChunk \subseteq Nat
  BY BatchQAssumption, GroupShape DEF LaneInv, TypeOK, X8
<1>2. p \in Nat
  BY <1>1
<1>3. relative <= p /\ p < relative + X8 => p \div X8 = relative \div X8
  <2> SUFFICES ASSUME relative <= p, p < relative + X8
               PROVE  p \div X8 = relative \div X8
    OBVIOUS
  <2>1. p \in relative .. (relative + X8 - 1)
    BY <1>1, <1>2
  <2> QED
    BY <1>1, <2>1, SameGroup
<1>4. p < relative => p \div X8 # relative \div X8
  <2>1. relative <= relative
    BY <1>1
  <2> QED
    BY <1>1, <1>2, <2>1, Boundary
<1>5. relative + X8 <= p => p \div X8 # relative \div X8
  <2> SUFFICES ASSUME relative + X8 <= p
               PROVE  relative \div X8 # p \div X8
    OBVIOUS
  <2>1. relative + X8 \in Nat /\ relative < relative + X8
    BY <1>1
  <2>2. (relative + X8) % X8 = 0
    BY <1>1, NextMultiple
  <2> QED
    BY <1>1, <1>2, <2>1, <2>2, Boundary
<1>6. p < relative => \A s \in InChunk : relative <= s => p \div X4 # s \div X4
  <2>1. relative % X4 = 0
    <3> DEFINE b == relative \div X8
    <3>1. b \in Nat /\ relative = (X8 * b) + (relative % X8)
      BY <1>1, Division
    <3> HIDE DEF b
    <3>2. relative = X4 * (2 * b) /\ 2 * b \in Nat
      BY <1>1, <3>1
    <3> QED
      BY <1>1, <3>2, Multiple
  <2> QED
    BY <1>1, <1>2, <2>1, Boundary
<1> QED
  BY <1>1, <1>2, <1>3, <1>4, <1>5, <1>6

\* storeWideFinalizerPoint, to the x8 scratch or split in two.
LEMMA StoreWideStored ==
  ASSUME LaneInv, pc = "evaluate", relative < Count, NEW on, NEW A, NEW S, GroupOwn(on, A, S),
         StoreWide(on, A, S), UNCHANGED encodeX8
  PROVE  Stored(on) /\ points' \in [Positions -> BOOLEAN] /\ pointsX8' \in [Positions -> BOOLEAN]
<1> DEFINE lanes == relative .. (relative + X8 - 1)
           put(f) == [p \in Positions |-> IF p \in lanes THEN Value(p, on, A, S) ELSE f[p]]
<1>1. /\ points \in [Positions -> BOOLEAN] /\ pointsX8 \in [Positions -> BOOLEAN] /\ encodeX8 \in BOOLEAN
      /\ Scratch(relative)
  BY DEF LaneInv, TypeOK
<1>2. \A p \in Positions : Value(p, on, A, S) \in BOOLEAN
  BY DEF Value, Equation
<1>3. put(points) \in [Positions -> BOOLEAN] /\ put(pointsX8) \in [Positions -> BOOLEAN]
  BY <1>1, <1>2
<1>4. IF encodeX8
      THEN /\ pointsX8' = put(pointsX8) /\ activeX8' = (activeX8 \ lanes) \cup on
           /\ directX8' = directX8 \cup {relative \div X8} /\ points' = points /\ active' = active
      ELSE /\ points' = put(points) /\ active' = (active \ lanes) \cup on
           /\ pointsX8' = pointsX8 /\ activeX8' = activeX8 /\ directX8' = directX8
  BY DEF StoreWide
<1>5. ASSUME NEW p \in InChunk
      PROVE  /\ p < relative => (Held(p)' <=> Held(p)) /\ (Point(p)' <=> Point(p))
             /\ relative <= p /\ p < relative + X8 =>
                  /\ Held(p)' <=> p \in on
                  /\ p \in on => (Point(p)' <=> Accepts(batch[offset + p]))
             /\ relative + X8 <= p => p \notin active' /\ (encodeX8 => p \div X8 \notin directX8')
  <2>1. /\ p \in Nat /\ p \in Positions /\ relative \in Nat /\ X8 \in Nat \ {0}
        /\ p \in lanes <=> relative <= p /\ p < relative + X8
    BY GroupShape, LanesApart
  <2>2. p \in on => p \in lanes
    BY <2>1, GroupShape DEF GroupOwn
  <2>3. p \in on => (Value(p, on, A, S) <=> Accepts(batch[offset + p]))
    BY GroupValues
  <2>4. p >= relative => p \notin active /\ (encodeX8 => p \div X8 \notin directX8)
    BY <1>1, <2>1 DEF Scratch
  <2>5. /\ p \in lanes => p \div X8 = relative \div X8
        /\ p \notin lanes => p \div X8 # relative \div X8
    BY <2>1, LanesApart
  <2>6. put(points)[p] = (IF p \in lanes THEN Value(p, on, A, S) ELSE points[p])
    BY <2>1
  <2>7. put(pointsX8)[p] = (IF p \in lanes THEN Value(p, on, A, S) ELSE pointsX8[p])
    BY <2>1
  <2> HIDE DEF put, lanes
  <2>8. CASE encodeX8
    <3>1. /\ Held(p)' <=> IF p \div X8 \in directX8' THEN p \in activeX8' ELSE p \in active
          /\ Point(p)' <=> IF p \div X8 \in directX8' THEN pointsX8'[p] ELSE points[p]
          /\ Held(p) <=> IF p \div X8 \in directX8 THEN p \in activeX8 ELSE p \in active
          /\ Point(p) <=> IF p \div X8 \in directX8 THEN pointsX8[p] ELSE points[p]
      BY <1>4, <2>8 DEF Held, Point
    <3> QED
      BY <1>4, <2>1, <2>2, <2>3, <2>4, <2>5, <2>7, <2>8, <3>1
  <2>9. CASE ~encodeX8
    <3>1. /\ Held(p)' <=> p \in active'
          /\ Point(p)' <=> points'[p]
          /\ Held(p) <=> p \in active
          /\ Point(p) <=> points[p]
      BY <1>4, <2>9 DEF Held, Point
    <3> QED
      BY <1>4, <2>1, <2>2, <2>3, <2>4, <2>5, <2>6, <2>9, <3>1
  <2> QED
    BY <1>1, <2>8, <2>9
<1>6. points' \in [Positions -> BOOLEAN] /\ pointsX8' \in [Positions -> BOOLEAN]
  BY <1>1, <1>3, <1>4
<1> QED
  BY <1>5, <1>6 DEF Stored

\* The loop over the halves of a two-x4 group.
LEMMA StoreHalvesStored ==
  ASSUME LaneInv, pc = "evaluate", relative < Count, NEW on, NEW A, NEW S, GroupOwn(on, A, S),
         StoreHalves(on, A, S), UNCHANGED encodeX8
  PROVE  Stored(on) /\ points' \in [Positions -> BOOLEAN] /\ pointsX8' \in [Positions -> BOOLEAN]
<1> DEFINE used == {p \div X4 : p \in on}
           put == [p \in Positions |-> IF p \div X4 \in used THEN Value(p, on, A, S) ELSE points[p]]
<1>1. /\ points \in [Positions -> BOOLEAN] /\ pointsX8 \in [Positions -> BOOLEAN] /\ encodeX8 \in BOOLEAN
      /\ Scratch(relative)
  BY DEF LaneInv, TypeOK
<1>2. \A p \in Positions : Value(p, on, A, S) \in BOOLEAN
  BY DEF Value, Equation
<1>3. put \in [Positions -> BOOLEAN]
  BY <1>1, <1>2
<1>4. /\ points' = put /\ active' = {p \in active : p \div X4 \notin used} \cup on
      /\ pointsX8' = pointsX8 /\ activeX8' = activeX8 /\ directX8' = directX8
  BY DEF StoreHalves
<1>5. ASSUME NEW p \in InChunk
      PROVE  /\ p < relative => (Held(p)' <=> Held(p)) /\ (Point(p)' <=> Point(p))
             /\ relative <= p /\ p < relative + X8 =>
                  /\ Held(p)' <=> p \in on
                  /\ p \in on => (Point(p)' <=> Accepts(batch[offset + p]))
             /\ relative + X8 <= p => p \notin active' /\ (encodeX8 => p \div X8 \notin directX8')
  <2>1. /\ p \in Nat /\ p \in Positions /\ relative \in Nat /\ X8 \in Nat \ {0}
        /\ \A s \in on : s \in InChunk /\ relative <= s /\ s < relative + X8
    BY GroupShape, LanesApart DEF GroupOwn
  <2>2. p \in on => p \div X4 \in used
    OBVIOUS
  <2>3. p \in on => (Value(p, on, A, S) <=> Accepts(batch[offset + p]))
    BY GroupValues
  <2>4. p >= relative => p \notin active /\ (encodeX8 => p \div X8 \notin directX8)
    BY <1>1, <2>1 DEF Scratch
  <2>5. p < relative => p \div X4 \notin used
    <3>1. p < relative => \A s \in InChunk : relative <= s => p \div X4 # s \div X4
      BY LanesApart
    <3> QED
      BY <2>1, <3>1
  <2>6. put[p] = (IF p \div X4 \in used THEN Value(p, on, A, S) ELSE points[p])
    BY <2>1
  <2> HIDE DEF put, used
  <2>7. /\ Held(p)' <=> IF encodeX8 /\ p \div X8 \in directX8 THEN p \in activeX8 ELSE p \in active'
        /\ Point(p)' <=> IF encodeX8 /\ p \div X8 \in directX8 THEN pointsX8[p] ELSE put[p]
        /\ Held(p) <=> IF encodeX8 /\ p \div X8 \in directX8 THEN p \in activeX8 ELSE p \in active
        /\ Point(p) <=> IF encodeX8 /\ p \div X8 \in directX8 THEN pointsX8[p] ELSE points[p]
    BY <1>4 DEF Held, Point
  <2> QED
    BY <1>1, <1>4, <2>1, <2>2, <2>3, <2>4, <2>5, <2>6, <2>7
<1>6. points' \in [Positions -> BOOLEAN] /\ pointsX8' \in [Positions -> BOOLEAN]
  BY <1>1, <1>3, <1>4
<1> QED
  BY <1>5, <1>6 DEF Stored

\* A group without a live lane is skipped.
LEMMA SkippedStored ==
  ASSUME LaneInv, pc = "evaluate", relative < Count, NEW on, on = {},
         UNCHANGED <<points, active, pointsX8, activeX8, directX8, encodeX8>>
  PROVE  Stored(on) /\ points' \in [Positions -> BOOLEAN] /\ pointsX8' \in [Positions -> BOOLEAN]
<1>1. /\ points \in [Positions -> BOOLEAN] /\ pointsX8 \in [Positions -> BOOLEAN] /\ Scratch(relative)
      /\ relative \in Nat /\ X8 \in Nat
  BY BatchQAssumption DEF LaneInv, TypeOK, X8
<1>2. ASSUME NEW p \in InChunk
      PROVE  /\ p < relative => (Held(p)' <=> Held(p)) /\ (Point(p)' <=> Point(p))
             /\ relative <= p /\ p < relative + X8 => ~Held(p)'
             /\ relative + X8 <= p => p \notin active' /\ (encodeX8 => p \div X8 \notin directX8')
  <2>1. (Held(p)' <=> Held(p)) /\ (Point(p)' <=> Point(p))
    BY DEF Held, Point
  <2>2. p \in Nat
    BY GroupShape
  <2>3. p >= relative => p \notin active /\ (encodeX8 => p \div X8 \notin directX8)
    BY <1>1, <2>2 DEF Scratch
  <2> QED
    BY <1>1, <2>1, <2>2, <2>3 DEF Held
<1> QED
  BY <1>1, <1>2 DEF Stored

\* One more group is done.
LEMMA GroupStep ==
  ASSUME LaneInv, EvaluateStep(X8), NEW on, on = {p \in Group(X8) : Deserves(offset + p)}, Stored(on),
         points' \in [Positions -> BOOLEAN], pointsX8' \in [Positions -> BOOLEAN]
  PROVE  LaneInv'
<1>1. /\ pc = "evaluate" /\ relative < Count /\ relative' = relative + X8
      /\ UNCHANGED <<config, batch, withDecoded, compact, pc, ok, offset, encodeX8,
                     decodedA, decodedS, missA, missLanes, missCount, live>>
  BY DEF EvaluateStep, callVars, decodeVars
<1>2. /\ relative \in Nat /\ X8 \in Nat \ {0} /\ relative % X8 = 0 /\ relative + X8 \in Nat
      /\ TypeOK /\ CallState /\ Scratch(relative) /\ Reported
  BY <1>1, BatchQAssumption DEF LaneInv, TypeOK, X8
<1>3. Size' = Size /\ Count' = Count /\ InChunk' = InChunk /\ coldWide' = coldWide
  BY <1>1 DEF Size, Count, InChunk, coldWide
<1>4. TypeOK'
  BY <1>1, <1>2 DEF TypeOK
<1>5. CallState'
  BY <1>1, <1>2, <1>3 DEF CallState
<1>6. Reported'
  BY <1>1, <1>2, <1>3 DEF Reported, Own, Deserves
<1>7. (relative + X8) % X8 = 0
  BY <1>2, NextMultiple
<1>8. Scratch(relative)'
  <2> SUFFICES ASSUME NEW p \in InChunk
               PROVE  IF p < relative + X8
                      THEN /\ Held(p)' <=> Deserves(offset + p)
                           /\ Held(p)' => (Point(p)' <=> Accepts(batch[offset + p]))
                      ELSE p \notin active' /\ (encodeX8 => p \div X8 \notin directX8')
    BY <1>1, <1>3 DEF Scratch, Deserves
  <2>1. p \in Nat
    BY <1>1, GroupShape
  <2>2. CASE p < relative
    <3>1. /\ Held(p) <=> Deserves(offset + p)
          /\ Held(p) => (Point(p) <=> Accepts(batch[offset + p]))
      BY <1>2, <2>2 DEF Scratch
    <3>2. (Held(p)' <=> Held(p)) /\ (Point(p)' <=> Point(p)) /\ p < relative + X8
      BY <1>2, <2>1, <2>2 DEF Stored
    <3> QED
      BY <3>1, <3>2
  <2>3. CASE relative <= p /\ p < relative + X8
    <3>1. p \in on <=> Deserves(offset + p)
      BY <1>1, <2>3, GroupShape
    <3>2. (Held(p)' <=> p \in on) /\ (p \in on => (Point(p)' <=> Accepts(batch[offset + p])))
      BY <2>3 DEF Stored
    <3> QED
      BY <2>3, <3>1, <3>2
  <2>4. CASE relative + X8 <= p
    <3>1. p \notin active' /\ (encodeX8 => p \div X8 \notin directX8') /\ ~(p < relative + X8)
      BY <1>2, <2>1, <2>4 DEF Stored
    <3> QED
      BY <3>1
  <2> QED
    BY <1>2, <2>1, <2>2, <2>3, <2>4
<1> QED
  BY <1>1, <1>4, <1>5, <1>6, <1>7, <1>8 DEF LaneInv

\* The lanes that are decoded in place are those whose items deserve it: an
\* entry of the same bytes stands for a key that decodes.
LEMMA LiveInPlaceExact ==
  ASSUME LaneInv, pc = "evaluate", relative < Count
  PROVE  LiveInPlace(Group(X8)) = {p \in Group(X8) : Deserves(offset + p)}
<1>1. ASSUME NEW p \in Group(X8)
      PROVE  p \in LiveInPlace(Group(X8)) <=> Deserves(offset + p)
  <2>1. batch[offset + p] \in Item
    BY <1>1, GroupShape
  <2>2. /\ batch[offset + p].kind \in {"good", "bad", "rejected", "undecodable"}
        /\ batch[offset + p].entry = "hit" => batch[offset + p].kind # "undecodable"
    BY <2>1, Kinds
  <2> QED
    BY <2>2 DEF LiveInPlace, Prepared, prepareR51Signature, Decodes, Hit, Deserves
<1>2. LiveInPlace(Group(X8)) \subseteq Group(X8)
  BY DEF LiveInPlace, Prepared
<1> QED
  BY <1>1, <1>2

\* evaluateX8Group: the keys of a cold group are decoded in place.
LEMMA ColdX8Step ==
  ASSUME LaneInv, evaluateX8Group
  PROVE  LaneInv'
<1> DEFINE on == LiveInPlace(Group(X8))
<1>1. EvaluateStep(X8) /\ pc = "evaluate" /\ relative < Count /\ UNCHANGED encodeX8
  BY DEF evaluateX8Group, EvaluateStep
<1>2. on = {p \in Group(X8) : Deserves(offset + p)}
  BY <1>1, LiveInPlaceExact
<1>3. GroupOwn(on, ItemOf, ItemOf)
  <2>1. \A p \in on : p \in Positions
    BY <1>1, <1>2, GroupShape
  <2> QED
    BY <1>2, <2>1 DEF GroupOwn, ItemOf
<1>4. CASE on = {}
  <2>1. UNCHANGED <<points, active, pointsX8, activeX8, directX8, encodeX8>>
    BY <1>1, <1>4 DEF evaluateX8Group
  <2> HIDE DEF on
  <2> QED
    BY <1>1, <1>2, <1>4, <2>1, SkippedStored, GroupStep
<1>5. CASE on # {}
  <2>1. StoreWide(on, ItemOf, ItemOf)
    BY <1>5 DEF evaluateX8Group
  <2> HIDE DEF on
  <2> QED
    BY <1>1, <1>2, <1>3, <2>1, StoreWideStored, GroupStep
<1> QED
  BY <1>4, <1>5

\* evaluateTwoX4Group: the same in halves, or with decoded entries in place.
LEMMA ColdX4Step ==
  ASSUME LaneInv, evaluateTwoX4Group
  PROVE  LaneInv'
<1> DEFINE on == LiveInPlace(Group(X8))
           A == [p \in Positions |-> IF p \in on THEN InPlace(p) ELSE Old]
<1>1. EvaluateStep(X8) /\ pc = "evaluate" /\ relative < Count /\ UNCHANGED encodeX8
  BY DEF evaluateTwoX4Group, EvaluateStep
<1>2. on = {p \in Group(X8) : Deserves(offset + p)}
  BY <1>1, LiveInPlaceExact
<1>3. GroupOwn(on, A, ItemOf)
  <2>1. \A p \in on : p \in Positions
    BY <1>1, <1>2, GroupShape
  <2>2. \A p : InPlace(p) = offset + p
    BY DEF InPlace, EntryPoint, Hit
  <2> HIDE DEF on
  <2> QED
    BY <1>2, <2>1, <2>2 DEF GroupOwn, ItemOf
<1>4. StoreHalves(on, A, ItemOf)
  BY DEF evaluateTwoX4Group
<1> HIDE DEF on, A
<1> QED
  BY <1>1, <1>2, <1>3, <1>4, StoreHalvesStored, GroupStep

\* The prepared lanes of a group.
LEMMA PreparedOwn ==
  ASSUME LaneInv, pc = "evaluate", relative < Count, compact, ~coldWide
  PROVE  /\ live \cap Group(X8) = {p \in Group(X8) : Deserves(offset + p)}
         /\ live \cap (relative .. (relative + X8 - 1)) = live \cap Group(X8)
         /\ GroupOwn(live \cap Group(X8), decodedA, decodedS)
<1>1. live = {p \in InChunk : Deserves(offset + p)} /\ \A p \in live : Own(p)
  BY DEF LaneInv, Reported
<1>2. /\ Group(X8) = {p \in InChunk : relative <= p /\ p < relative + X8}
      /\ \A p \in InChunk : p \in Nat
      /\ relative \in Nat /\ X8 \in Nat
  BY GroupShape, BatchQAssumption DEF LaneInv, TypeOK, X8
<1>3. live \cap Group(X8) = {p \in Group(X8) : Deserves(offset + p)}
  BY <1>1, <1>2
<1>4. live \cap (relative .. (relative + X8 - 1)) = live \cap Group(X8)
  BY <1>1, <1>2
<1> QED
  BY <1>1, <1>3, <1>4 DEF GroupOwn, Own

\* evaluatePreparedX8Group: the wide part of a prepared chunk.
LEMMA PreparedX8Step ==
  ASSUME LaneInv, evaluatePreparedX8Group
  PROVE  LaneInv'
<1> DEFINE on == live \cap (relative .. (relative + X8 - 1))
<1>1. /\ EvaluateStep(X8) /\ pc = "evaluate" /\ relative < Count /\ UNCHANGED encodeX8
      /\ compact /\ ~coldWide
  BY DEF evaluatePreparedX8Group, EvaluateStep, coldWide
<1>2. on = {p \in Group(X8) : Deserves(offset + p)} /\ GroupOwn(on, decodedA, decodedS)
  BY <1>1, PreparedOwn
<1>3. CASE on = {}
  <2>1. UNCHANGED <<points, active, pointsX8, activeX8, directX8, encodeX8>>
    BY <1>1, <1>3 DEF evaluatePreparedX8Group
  <2> HIDE DEF on
  <2> QED
    BY <1>1, <1>2, <1>3, <2>1, SkippedStored, GroupStep
<1>4. CASE on # {}
  <2>1. StoreWide(on, decodedA, decodedS)
    BY <1>4 DEF evaluatePreparedX8Group
  <2> HIDE DEF on
  <2> QED
    BY <1>1, <1>2, <2>1, StoreWideStored, GroupStep
<1> QED
  BY <1>3, <1>4

\* evaluatePreparedTwoX4Group: a narrow pipeline, or the tail of a wide one.
LEMMA PreparedX4Step ==
  ASSUME LaneInv, evaluatePreparedTwoX4Group
  PROVE  LaneInv'
<1>1. /\ EvaluateStep(X8) /\ pc = "evaluate" /\ relative < Count /\ UNCHANGED encodeX8
      /\ compact /\ ~coldWide /\ StoreHalves(live \cap Group(X8), decodedA, decodedS)
  BY DEF evaluatePreparedTwoX4Group, EvaluateStep
<1>2. /\ live \cap Group(X8) = {p \in Group(X8) : Deserves(offset + p)}
      /\ GroupOwn(live \cap Group(X8), decodedA, decodedS)
  BY <1>1, PreparedOwn
<1> QED
  BY <1>1, <1>2, StoreHalvesStored, GroupStep

-----------------------------------------------------------------------------
\* Preparation.

\* A key packed by the end of the step, for a lane before r.
PackedNext(m, r, lanes) ==
  /\ missLanes'[m] \in 0 .. (r - 1) /\ missLanes'[m] \notin lanes
  /\ missA'[m] = offset + missLanes'[m] /\ decodedS'[missLanes'[m]] = offset + missLanes'[m]
  /\ prepareR51Signature(offset + missLanes'[m])

\* Once n keys are packed and the lanes at hand hold A, every lane before r is
\* accounted for.
PackedFacts(n, r, lanes, A) ==
  /\ n \in Nat /\ r \in Nat /\ r <= Count
  /\ \A m \in 0 .. (n - 1) : PackedNext(m, r, lanes)
  /\ \A m, k \in 0 .. (n - 1) : missLanes'[m] = missLanes'[k] => m = k
  /\ \A p \in lanes : p \in 0 .. (r - 1) /\ Deserves(offset + p)
                     /\ A[p] = offset + p /\ decodedS'[p] = offset + p
  /\ \A p \in 0 .. (r - 1) :
       Deserves(offset + p) => p \in lanes \/ \E m \in 0 .. (n - 1) : missLanes'[m] = p

\* Decoding scatters every packed key that decodes to its own lane, and to no
\* other, so that all lanes met so far are accounted for.
LEMMA ScatterOwn ==
  ASSUME LaneInv, pc = "prepare", NEW n, NEW r, PackedFacts(n, r, live, decodedA), DecodeMisses(n, {})
  PROVE  /\ missCount' = 0 /\ decodedA' \in [Positions -> Int]
         /\ live' = {p \in 0 .. (r - 1) : Deserves(offset + p)}
         /\ \A p \in live' : decodedA'[p] = offset + p /\ decodedS'[p] = offset + p
<1> DEFINE valid == {m \in 0 .. (n - 1) : missA'[m] \in DOMAIN batch /\ Decodes(missA'[m])}
           lanes == {missLanes'[m] : m \in valid}
<1>1. /\ decodedA' = [p \in Positions |-> IF p \in lanes
                                          THEN missA'[CHOOSE m \in valid : missLanes'[m] = p]
                                          ELSE decodedA[p]]
      /\ live' = live \cup lanes /\ missCount' = 0
  BY DEF DecodeMisses, Scatter
<1>2. /\ Size \in Nat /\ batch \in [0 .. (Size - 1) -> Item] /\ offset \in Nat
      /\ Count \in 1 .. MaxChunk /\ offset + Count <= Size /\ InChunk \subseteq Positions
      /\ decodedA \in [Positions -> Int] /\ InChunk = 0 .. (Count - 1) /\ Count \in Nat
  BY ChunkShape, BatchQAssumption DEF LaneInv, CallState, TypeOK, Working, InChunk
<1>3. ASSUME NEW p \in 0 .. (r - 1)
      PROVE  p \in Positions /\ offset + p \in DOMAIN batch /\ batch[offset + p] \in Item
             /\ offset + p \in Nat
  <2>1. p \in 0 .. (Count - 1)
    BY <1>2, <1>3 DEF PackedFacts
  <2>2. p \in Positions /\ offset + p \in 0 .. (Size - 1)
    BY <1>2, <2>1
  <2> QED
    BY <1>2, <2>2
<1>4. ASSUME NEW m \in 0 .. (n - 1)
      PROVE  m \in valid <=> Deserves(offset + missLanes'[m])
  <2>1. /\ missLanes'[m] \in 0 .. (r - 1) /\ missA'[m] = offset + missLanes'[m]
        /\ prepareR51Signature(offset + missLanes'[m])
    BY DEF PackedFacts, PackedNext
  <2>2. batch[offset + missLanes'[m]].kind \in {"good", "bad", "rejected", "undecodable"}
    BY <1>3, <2>1, Kinds
  <2>3. missA'[m] \in DOMAIN batch
    BY <1>3, <2>1
  <2> QED
    BY <2>1, <2>2, <2>3 DEF Deserves, Decodes, prepareR51Signature
<1>5. ASSUME NEW p \in lanes
      PROVE  /\ p \in 0 .. (r - 1) /\ Deserves(offset + p)
             /\ decodedA'[p] = offset + p /\ decodedS'[p] = offset + p
  <2>1. PICK m \in valid : missLanes'[m] = p
    OBVIOUS
  <2>2. (CHOOSE k \in valid : missLanes'[k] = p) = m
    BY <2>1 DEF PackedFacts
  <2>3. /\ p \in 0 .. (r - 1) /\ missA'[m] = offset + p /\ decodedS'[p] = offset + p
        /\ Deserves(offset + p)
    BY <1>4, <2>1 DEF PackedFacts, PackedNext
  <2>4. decodedA'[p] = missA'[CHOOSE k \in valid : missLanes'[k] = p]
    BY <1>1, <1>3, <2>3
  <2> QED
    BY <2>2, <2>3, <2>4
<1>6. ASSUME NEW p \in live, p \notin lanes
      PROVE  /\ p \in 0 .. (r - 1) /\ Deserves(offset + p)
             /\ decodedA'[p] = offset + p /\ decodedS'[p] = offset + p
  <2>1. /\ p \in 0 .. (r - 1) /\ Deserves(offset + p)
        /\ decodedA[p] = offset + p /\ decodedS'[p] = offset + p
    BY DEF PackedFacts
  <2> QED
    BY <1>1, <1>3, <1>6, <2>1
<1>7. ASSUME NEW p \in 0 .. (r - 1), Deserves(offset + p)
      PROVE  p \in live'
  <2>1. CASE p \in live
    BY <1>1, <2>1
  <2>2. CASE \E m \in 0 .. (n - 1) : missLanes'[m] = p
    BY <1>1, <1>4, <1>7, <2>2
  <2> QED
    BY <1>7, <2>1, <2>2 DEF PackedFacts
<1>8. decodedA' \in [Positions -> Int]
  <2>1. ASSUME NEW p \in Positions
        PROVE  decodedA'[p] \in Int
    <3>1. CASE p \in lanes
      <4>1. decodedA'[p] = offset + p /\ offset + p \in Nat
        BY <1>3, <1>5, <3>1
      <4> QED
        BY <4>1
    <3>2. CASE p \notin lanes
      BY <1>1, <1>2, <3>2
    <3> QED
      BY <3>1, <3>2
  <2> QED
    BY <1>1, <2>1
<1> HIDE DEF valid, lanes
<1> QED
  BY <1>1, <1>5, <1>6, <1>7, <1>8

\* A preparation step leaves the call and the finalizer scratch alone, so it is
\* enough that its lanes are accounted for.
LEMMA PrepareFrame ==
  ASSUME LaneInv, pc = "prepare", NEW n, NEW r, PackedFacts(n, r, live', decodedA'),
         UNCHANGED <<callVars, pc, ok, offset, finalVars>>, missCount' = n, relative' = r,
         n < X8, ~config.wide \/ r > WideCount => n < X4,
         decodedA' \in [Positions -> Int], decodedS' \in [Positions -> Int],
         missA' \in [Lanes -> Int], missLanes' \in [Lanes -> Int]
  PROVE  LaneInv'
<1>1. UNCHANGED <<config, batch, withDecoded, compact, pc, ok, offset,
                  points, active, pointsX8, activeX8, directX8, encodeX8>>
  BY DEF callVars, finalVars
<1>2. TypeOK /\ CallState /\ Scratch(0) /\ compact /\ ~coldWide
  BY DEF LaneInv, Preparation
<1>3. /\ Size' = Size /\ Count' = Count /\ InChunk' = InChunk /\ coldWide' = coldWide
      /\ WideCount' = WideCount
  BY <1>1 DEF Size, Count, InChunk, coldWide, WideCount
<1>4. n \in Nat /\ r \in Nat /\ r <= Count
  BY DEF PackedFacts
<1>5. TypeOK'
  BY <1>1, <1>2, <1>4 DEF TypeOK
<1>6. CallState'
  BY <1>1, <1>2, <1>3 DEF CallState
<1>7. Scratch(0)'
  BY <1>1, <1>2, <1>3 DEF Scratch, Held, Point, Deserves
<1>8. Preparation'
  <2>1. \A m \in 0 .. (n - 1) : Packed(m)'
    BY <1>1 DEF PackedFacts, PackedNext, Packed, prepareR51Signature
  <2>2. \A p \in live' : p \in 0 .. (r - 1) /\ Deserves(offset + p)' /\ Own(p)'
    BY <1>1 DEF PackedFacts, Deserves, Own
  <2>3. \A p \in 0 .. (r - 1) :
          Deserves(offset + p)' => p \in live' \/ \E m \in 0 .. (n - 1) : missLanes'[m] = p
    BY <1>1 DEF PackedFacts, Deserves
  <2>4. \A m, k \in 0 .. (n - 1) : missLanes'[m] = missLanes'[k] => m = k
    BY DEF PackedFacts
  <2>5. Misses' = 0 .. (n - 1)
    BY DEF Misses
  <2> QED
    BY <1>1, <1>2, <1>3, <1>4, <2>1, <2>2, <2>3, <2>4, <2>5 DEF Preparation, Deserves
<1> QED
  BY <1>1, <1>5, <1>6, <1>7, <1>8 DEF LaneInv

\* The next lane keeps the bound of the packed keys: the tail of a wide chunk,
\* and every chunk of a narrow pipeline, decodes four-lane groups.
LEMMA MissBound ==
  ASSUME LaneInv, pc = "prepare", relative < Count,
         ~(config.wide /\ relative = WideCount /\ missCount > 0)
  PROVE  /\ missCount \in Nat /\ missCount < DecodeWidth(relative)
         /\ DecodeWidth(relative) \in {X4, X8}
         /\ X4 \in Nat \ {0} /\ X8 = 2 * X4
         /\ ~config.wide \/ relative + 1 > WideCount => DecodeWidth(relative) = X4
<1>1. /\ missCount \in Nat /\ relative \in Nat /\ missCount < X8
      /\ ~config.wide \/ relative > WideCount => missCount < X4
  BY DEF LaneInv, TypeOK, Preparation
<1>2. X4 \in Nat \ {0} /\ X8 = 2 * X4
  BY BatchQAssumption DEF X8
<1>3. WideCount \in Nat
  BY ChunkShape DEF LaneInv, CallState, Working
<1> QED
  BY <1>1, <1>2, <1>3 DEF DecodeWidth

\* A rejected item leaves its lane out.
LEMMA SkipStep ==
  ASSUME LaneInv, PrepareItem, ~prepareR51Signature(offset + relative)
  PROVE  LaneInv'
<1> DEFINE n == missCount
           r == relative + 1
<1>1. /\ pc = "prepare" /\ relative < Count /\ relative' = r
      /\ ~(config.wide /\ relative = WideCount /\ missCount > 0)
      /\ UNCHANGED <<callVars, pc, ok, offset, finalVars>>
      /\ UNCHANGED <<decodedA, decodedS, missA, missLanes, missCount, live>>
  BY DEF PrepareItem, decodeVars
<1>2. /\ TypeOK /\ Preparation /\ n < X8 /\ (~config.wide \/ r > WideCount => n < X4)
  BY <1>1, MissBound DEF LaneInv, Preparation
<1>3. relative \in Nat /\ n \in Nat /\ Count \in Nat
  BY <1>1, BatchQAssumption, ChunkShape DEF LaneInv, TypeOK, CallState, Working
<1>4. ~Deserves(offset + relative)
  BY DEF prepareR51Signature, Deserves
<1>5. PackedFacts(n, r, live', decodedA')
  <2>1. n \in Nat /\ r \in Nat /\ r <= Count
    BY <1>1, <1>3
  <2>2. \A m \in 0 .. (n - 1) : PackedNext(m, r, live')
    BY <1>1, <1>2, <1>3 DEF Preparation, Packed, Misses, PackedNext
  <2>3. \A m, k \in 0 .. (n - 1) : missLanes'[m] = missLanes'[k] => m = k
    BY <1>1, <1>2 DEF Preparation, Misses
  <2>4. \A p \in live' : p \in 0 .. (r - 1) /\ Deserves(offset + p)
                         /\ decodedA'[p] = offset + p /\ decodedS'[p] = offset + p
    BY <1>1, <1>2, <1>3 DEF Preparation, Own
  <2>5. \A p \in 0 .. (r - 1) :
          Deserves(offset + p) => p \in live' \/ \E m \in 0 .. (n - 1) : missLanes'[m] = p
    <3>1. \A p \in 0 .. (r - 1) : p \in 0 .. (relative - 1) \/ p = relative
      BY <1>3
    <3> QED
      BY <1>1, <1>2, <1>4, <3>1 DEF Preparation, Misses
  <2> HIDE DEF n, r
  <2> QED
    BY <2>1, <2>2, <2>3, <2>4, <2>5 DEF PackedFacts
<1>6. /\ decodedA' \in [Positions -> Int] /\ decodedS' \in [Positions -> Int]
      /\ missA' \in [Lanes -> Int] /\ missLanes' \in [Lanes -> Int] /\ missCount' = n
  BY <1>1, <1>2 DEF TypeOK
<1> HIDE DEF n, r
<1> QED
  BY <1>1, <1>2, <1>5, <1>6, PrepareFrame

\* The lane at hand.
LEMMA NextLane ==
  ASSUME LaneInv, pc = "prepare", relative < Count
  PROVE  /\ relative \in Nat /\ missCount \in Nat /\ Count \in Nat /\ offset \in Nat
         /\ relative \in Positions /\ offset + relative \in Nat
         /\ batch[offset + relative] \in Item /\ offset + relative \in DOMAIN batch
         /\ \A p \in 0 .. relative : p \in 0 .. (relative - 1) \/ p = relative
         /\ \A p \in 0 .. (relative - 1) : p \in Positions /\ p # relative
<1>1. /\ relative \in Nat /\ missCount \in Nat /\ offset \in Nat /\ MaxChunk \in Nat
      /\ Size \in Nat /\ batch \in [0 .. (Size - 1) -> Item]
      /\ Count \in 1 .. MaxChunk /\ offset + Count <= Size
  BY BatchQAssumption, ChunkShape DEF LaneInv, TypeOK, CallState, Working
<1>2. offset + relative \in 0 .. (Size - 1)
  BY <1>1
<1> QED
  BY <1>1, <1>2 DEF Positions

\* A key found decoded goes straight to its lane.
LEMMA HitStep ==
  ASSUME LaneInv, PrepareItem, prepareR51Signature(offset + relative), Hit(offset + relative),
         withDecoded
  PROVE  LaneInv'
<1> DEFINE i == offset + relative
           n == missCount
           r == relative + 1
<1>1. /\ pc = "prepare" /\ relative < Count /\ relative' = r
      /\ ~(config.wide /\ relative = WideCount /\ missCount > 0)
      /\ UNCHANGED <<callVars, pc, ok, offset, finalVars>>
      /\ UNCHANGED <<missA, missLanes, missCount>>
      /\ decodedS' = [decodedS EXCEPT ![relative] = i]
      /\ decodedA' = [decodedA EXCEPT ![relative] = EntryPoint(i)]
      /\ live' = live \cup {relative}
  BY DEF PrepareItem
<1>2. /\ TypeOK /\ Preparation /\ n < X8 /\ (~config.wide \/ r > WideCount => n < X4)
  BY <1>1, MissBound DEF LaneInv, Preparation
<1>3. /\ relative \in Nat /\ n \in Nat /\ Count \in Nat /\ i \in Nat
      /\ relative \in Positions /\ batch[i] \in Item
      /\ \A p \in 0 .. (r - 1) : p \in 0 .. (relative - 1) \/ p = relative
      /\ \A p \in 0 .. (relative - 1) : p \in Positions /\ p # relative /\ p \in 0 .. (r - 1)
  BY <1>1, NextLane
<1>4. Deserves(i) /\ EntryPoint(i) = i
  <2>1. /\ batch[i].kind \in {"good", "bad", "rejected", "undecodable"}
        /\ batch[i].entry = "hit" => batch[i].kind # "undecodable"
    BY <1>3, Kinds
  <2> QED
    BY <2>1 DEF prepareR51Signature, Hit, Deserves, EntryPoint
<1>5. /\ decodedA \in [Positions -> Int] /\ decodedS \in [Positions -> Int]
      /\ decodedA'[relative] = i /\ decodedS'[relative] = i
      /\ \A p \in 0 .. (relative - 1) : decodedA'[p] = decodedA[p] /\ decodedS'[p] = decodedS[p]
  BY <1>1, <1>2, <1>3, <1>4 DEF TypeOK
<1>6. /\ decodedA' \in [Positions -> Int] /\ decodedS' \in [Positions -> Int]
      /\ missA' \in [Lanes -> Int] /\ missLanes' \in [Lanes -> Int] /\ missCount' = n
  BY <1>1, <1>2, <1>3, <1>4 DEF TypeOK
<1>7. \A m \in 0 .. (n - 1) : missLanes[m] \in 0 .. (relative - 1) /\ Packed(m)
  BY <1>2 DEF Preparation, Misses, Packed
<1>8. PackedFacts(n, r, live', decodedA')
  <2>1. n \in Nat /\ r \in Nat /\ r <= Count
    BY <1>1, <1>3
  <2>2. \A m \in 0 .. (n - 1) : PackedNext(m, r, live')
    BY <1>1, <1>3, <1>5, <1>7 DEF Packed, PackedNext
  <2>3. \A m, k \in 0 .. (n - 1) : missLanes'[m] = missLanes'[k] => m = k
    BY <1>1, <1>2 DEF Preparation, Misses
  <2>4. \A p \in live' : p \in 0 .. (r - 1) /\ Deserves(offset + p)
                         /\ decodedA'[p] = offset + p /\ decodedS'[p] = offset + p
    <3>1. relative \in 0 .. (r - 1)
      BY <1>3
    <3>2. \A p \in live : p \in 0 .. (relative - 1) /\ Deserves(offset + p) /\ Own(p)
      BY <1>2 DEF Preparation
    <3> HIDE DEF r
    <3> QED
      BY <1>1, <1>3, <1>4, <1>5, <3>1, <3>2 DEF Own
  <2>5. \A p \in 0 .. (r - 1) :
          Deserves(offset + p) => p \in live' \/ \E m \in 0 .. (n - 1) : missLanes'[m] = p
    BY <1>1, <1>2, <1>3 DEF Preparation, Misses
  <2> HIDE DEF n, r, i
  <2> QED
    BY <2>1, <2>2, <2>3, <2>4, <2>5 DEF PackedFacts
<1> HIDE DEF n, r, i
<1> QED
  BY <1>1, <1>2, <1>6, <1>8, PrepareFrame

\* Other keys are packed, and decoded as soon as they fill a decode group.
LEMMA PackStep ==
  ASSUME LaneInv, PrepareItem, prepareR51Signature(offset + relative),
         ~(withDecoded /\ Hit(offset + relative))
  PROVE  LaneInv'
<1> DEFINE i == offset + relative
           c == missCount
           n == missCount + 1
           r == relative + 1
<1>1. /\ pc = "prepare" /\ relative < Count /\ relative' = r
      /\ ~(config.wide /\ relative = WideCount /\ missCount > 0)
      /\ UNCHANGED <<callVars, pc, ok, offset, finalVars>>
      /\ decodedS' = [decodedS EXCEPT ![relative] = i]
      /\ missA' = [missA EXCEPT ![c] = i]
      /\ missLanes' = [missLanes EXCEPT ![c] = relative]
      /\ IF n = DecodeWidth(relative) THEN DecodeMisses(n, {})
         ELSE missCount' = n /\ UNCHANGED <<decodedA, live>>
  BY DEF PrepareItem
<1>2. /\ TypeOK /\ Preparation /\ c \in Nat /\ n \in Nat /\ c < DecodeWidth(relative)
      /\ DecodeWidth(relative) \in {X4, X8} /\ X4 \in Nat \ {0} /\ X8 = 2 * X4
      /\ ~config.wide \/ r > WideCount => DecodeWidth(relative) = X4
  BY <1>1, MissBound DEF LaneInv
<1>3. /\ relative \in Nat /\ Count \in Nat /\ i \in Nat
      /\ relative \in Positions /\ batch[i] \in Item
      /\ \A p \in 0 .. (r - 1) : p \in 0 .. (relative - 1) \/ p = relative
      /\ \A p \in 0 .. (relative - 1) : p \in Positions /\ p # relative /\ p \in 0 .. (r - 1)
      /\ relative \in 0 .. (r - 1)
  BY <1>1, NextLane
<1>4. c \in Lanes /\ \A m \in 0 .. (n - 1) : m \in 0 .. (c - 1) \/ m = c
  BY <1>2 DEF Lanes
<1>5. /\ decodedS' \in [Positions -> Int]
      /\ missA' \in [Lanes -> Int] /\ missLanes' \in [Lanes -> Int]
      /\ decodedS'[relative] = i /\ missA'[c] = i /\ missLanes'[c] = relative
      /\ \A p \in 0 .. (relative - 1) : decodedS'[p] = decodedS[p]
  BY <1>1, <1>2, <1>3, <1>4 DEF TypeOK
<1>6. \A m \in 0 .. (c - 1) : missA'[m] = missA[m] /\ missLanes'[m] = missLanes[m]
  <2>1. \A m \in 0 .. (c - 1) : m \in Lanes /\ m # c
    BY <1>2 DEF Lanes
  <2> HIDE DEF i, c, r
  <2> QED
    BY <1>1, <1>2, <2>1 DEF TypeOK
<1>7. /\ \A m \in 0 .. (c - 1) : missLanes[m] \in 0 .. (relative - 1) /\ Packed(m)
      /\ \A m, k \in 0 .. (c - 1) : missLanes[m] = missLanes[k] => m = k
      /\ \A p \in live : p \in 0 .. (relative - 1) /\ Deserves(offset + p) /\ Own(p)
      /\ \A p \in 0 .. (relative - 1) :
           Deserves(offset + p) => p \in live \/ \E m \in 0 .. (c - 1) : missLanes[m] = p
  BY <1>2 DEF Preparation, Misses, Packed
<1>8. PackedFacts(n, r, live, decodedA)
  <2>1. n \in Nat /\ r \in Nat /\ r <= Count
    BY <1>1, <1>2, <1>3
  <2>2. \A m \in 0 .. (n - 1) : PackedNext(m, r, live)
    <3>1. PackedNext(c, r, live)
      BY <1>3, <1>5, <1>7 DEF PackedNext
    <3>2. ASSUME NEW m \in 0 .. (c - 1)
          PROVE  PackedNext(m, r, live)
      <4> HIDE DEF i, c, r
      <4> QED
        BY <1>3, <1>5, <1>6, <1>7 DEF Packed, PackedNext
    <3> QED
      BY <1>4, <3>1, <3>2
  <2>3. \A m, k \in 0 .. (n - 1) : missLanes'[m] = missLanes'[k] => m = k
    <3> HIDE DEF i, c, r, n
    <3> QED
      BY <1>3, <1>4, <1>5, <1>6, <1>7
  <2>4. \A p \in live : p \in 0 .. (r - 1) /\ Deserves(offset + p)
                        /\ decodedA[p] = offset + p /\ decodedS'[p] = offset + p
    <3> HIDE DEF i, c, r, n
    <3> QED
      BY <1>3, <1>5, <1>7 DEF Own
  <2>5. \A p \in 0 .. (r - 1) :
          Deserves(offset + p) => p \in live \/ \E m \in 0 .. (n - 1) : missLanes'[m] = p
    <3>1. c \in 0 .. (n - 1) /\ \A m \in 0 .. (c - 1) : m \in 0 .. (n - 1)
      BY <1>2
    <3> HIDE DEF i, c, r, n
    <3> QED
      BY <1>3, <1>5, <1>6, <1>7, <3>1
  <2> HIDE DEF i, c, r, n
  <2> QED
    BY <2>1, <2>2, <2>3, <2>4, <2>5 DEF PackedFacts
<1>9. CASE n = DecodeWidth(relative)
  <2>1. DecodeMisses(n, {})
    BY <1>1, <1>9
  <2>2. /\ missCount' = 0 /\ decodedA' \in [Positions -> Int]
        /\ live' = {p \in 0 .. (r - 1) : Deserves(offset + p)}
        /\ \A p \in live' : decodedA'[p] = offset + p /\ decodedS'[p] = offset + p
    <3> HIDE DEF n, r, i, c
    <3> QED
      BY <1>1, <1>8, <2>1, ScatterOwn
  <2>3. PackedFacts(0, r, live', decodedA')
    BY <1>1, <1>3, <2>2 DEF PackedFacts
  <2>4. 0 < X8 /\ 0 < X4
    BY <1>2
  <2> HIDE DEF n, r, i, c
  <2> QED
    BY <1>1, <1>5, <2>2, <2>3, <2>4, PrepareFrame
<1>10. CASE n # DecodeWidth(relative)
  <2>1. missCount' = n /\ UNCHANGED <<decodedA, live>>
    BY <1>1, <1>10
  <2>2. n < X8 /\ (~config.wide \/ r > WideCount => n < X4)
    BY <1>2, <1>10
  <2>3. decodedA' \in [Positions -> Int]
    BY <1>2, <2>1 DEF TypeOK
  <2>4. PackedFacts(n, r, live', decodedA')
    BY <1>8, <2>1
  <2> HIDE DEF n, r, i, c
  <2> QED
    BY <1>1, <1>5, <2>1, <2>2, <2>3, <2>4, PrepareFrame
<1> QED
  BY <1>9, <1>10

\* An item of the chunk is left out, found decoded, or packed.
LEMMA PrepareItemStep ==
  ASSUME LaneInv, PrepareItem
  PROVE  LaneInv'
BY SkipStep, HitStep, PackStep DEF PrepareItem

\* The keys that did not fill a group are decoded after the wide part and at
\* the end, where the chunk is ready for evaluation.
LEMMA PrepareRestStep ==
  ASSUME LaneInv, PrepareRest
  PROVE  LaneInv'
<1> DEFINE n == missCount
           r == relative
<1>1. /\ pc = "prepare" /\ UNCHANGED <<missA, missLanes, decodedS>>
      /\ IF n > 0 THEN DecodeMisses(n, {}) ELSE UNCHANGED <<decodedA, live, missCount>>
      /\ IF r = Count THEN pc' = "evaluate" /\ relative' = 0 ELSE UNCHANGED <<pc, relative>>
      /\ UNCHANGED <<callVars, ok, offset, finalVars>>
  BY DEF PrepareRest
<1>2. TypeOK /\ CallState /\ Scratch(0) /\ Preparation /\ n \in Nat /\ r \in Nat /\ r <= Count
  BY <1>1 DEF LaneInv, TypeOK, Preparation
<1>3. PackedFacts(n, r, live, decodedA)
  <2>1. \A m \in 0 .. (n - 1) : PackedNext(m, r, live)
    BY <1>1, <1>2 DEF Preparation, Misses, Packed, PackedNext
  <2>2. \A m, k \in 0 .. (n - 1) : missLanes'[m] = missLanes'[k] => m = k
    BY <1>1, <1>2 DEF Preparation, Misses
  <2>3. \A p \in live : p \in 0 .. (r - 1) /\ Deserves(offset + p)
                        /\ decodedA[p] = offset + p /\ decodedS'[p] = offset + p
    BY <1>1, <1>2 DEF Preparation, Own
  <2>4. \A p \in 0 .. (r - 1) :
          Deserves(offset + p) => p \in live \/ \E m \in 0 .. (n - 1) : missLanes'[m] = p
    BY <1>1, <1>2 DEF Preparation, Misses
  <2> HIDE DEF n, r
  <2> QED
    BY <1>2, <2>1, <2>2, <2>3, <2>4 DEF PackedFacts
<1>4. /\ missCount' = 0 /\ decodedA' \in [Positions -> Int]
      /\ live' = {p \in 0 .. (r - 1) : Deserves(offset + p)}
      /\ \A p \in live' : decodedA'[p] = offset + p /\ decodedS'[p] = offset + p
  <2>1. CASE n > 0
    <3>1. DecodeMisses(n, {})
      BY <1>1, <2>1
    <3> HIDE DEF n, r
    <3> QED
      BY <1>1, <1>3, <3>1, ScatterOwn
  <2>2. CASE ~(n > 0)
    <3>1. UNCHANGED <<decodedA, live, missCount>> /\ n = 0
      BY <1>1, <1>2, <2>2
    <3>2. \A p \in 0 .. (r - 1) : Deserves(offset + p) => p \in live
      BY <1>3, <3>1 DEF PackedFacts
    <3>3. \A p \in live : p \in 0 .. (r - 1) /\ Deserves(offset + p)
                          /\ decodedA[p] = offset + p /\ decodedS'[p] = offset + p
      BY <1>3 DEF PackedFacts
    <3>4. live = {p \in 0 .. (r - 1) : Deserves(offset + p)}
      BY <3>2, <3>3
    <3>5. decodedA \in [Positions -> Int]
      BY <1>2 DEF TypeOK
    <3> HIDE DEF r
    <3> QED
      BY <3>1, <3>3, <3>4, <3>5
  <2> QED
    BY <2>1, <2>2
<1>5. /\ decodedS' \in [Positions -> Int] /\ missA' \in [Lanes -> Int]
      /\ missLanes' \in [Lanes -> Int]
  BY <1>1, <1>2 DEF TypeOK
<1>6. CASE r # Count
  <2>1. /\ UNCHANGED <<callVars, pc, ok, offset, finalVars>> /\ relative' = r
    BY <1>1, <1>6
  <2>2. PackedFacts(0, r, live', decodedA')
    BY <1>2, <1>4 DEF PackedFacts
  <2>3. 0 < X8 /\ 0 < X4
    BY BatchQAssumption DEF X8
  <2> HIDE DEF n, r
  <2> QED
    BY <1>1, <1>4, <1>5, <2>1, <2>2, <2>3, PrepareFrame
<1>7. CASE r = Count
  <2>1. /\ UNCHANGED <<config, batch, withDecoded, compact, ok, offset,
                       points, active, pointsX8, activeX8, directX8, encodeX8>>
        /\ pc' = "evaluate" /\ relative' = 0
    BY <1>1, <1>7 DEF callVars, finalVars
  <2>2. Size' = Size /\ Count' = Count /\ InChunk' = InChunk /\ coldWide' = coldWide
    BY <2>1 DEF Size, Count, InChunk, coldWide
  <2>3. TypeOK'
    BY <1>2, <1>4, <1>5, <2>1 DEF TypeOK, Labels
  <2>4. CallState'
    BY <1>1, <1>2, <2>1, <2>2 DEF CallState, Working
  <2>5. Scratch(0)'
    BY <1>2, <2>1, <2>2 DEF Scratch, Held, Point, Deserves
  <2>6. Reported'
    <3>1. compact /\ ~coldWide
      BY <1>2 DEF Preparation
    <3>2. live' = {p \in InChunk : Deserves(offset + p)}
      BY <1>4, <1>7 DEF InChunk
    <3>3. \A p \in InChunk : Deserves(offset + p)' <=> Deserves(offset + p)
      BY <2>1 DEF Deserves
    <3>4. \A p \in live' : Own(p)'
      BY <1>4, <2>1 DEF Own
    <3> QED
      BY <2>1, <2>2, <3>1, <3>2, <3>3, <3>4 DEF Reported
  <2>7. 0 % X8 = 0
    <3>1. X8 \in Nat \ {0}
      BY BatchQAssumption DEF X8
    <3>2. (X8 * 0) % X8 = 0 /\ X8 * 0 = 0
      BY <3>1, Multiple
    <3> QED
      BY <3>2
  <2> QED
    BY <2>1, <2>3, <2>4, <2>5, <2>6, <2>7 DEF LaneInv
<1> QED
  BY <1>6, <1>7

\* A chunk starts with its own lanes cleared, whatever an earlier chunk, call
\* or failure left in the scratch.
LEMMA BeginChunkStep ==
  ASSUME LaneInv, BeginChunk
  PROVE  LaneInv'
<1>1. /\ pc = "chunk" /\ offset < Size
      /\ UNCHANGED <<config, batch, withDecoded, compact, ok, offset, decodedS, missA, missLanes>>
      /\ relative' = 0 /\ live' = {} /\ missCount' = 0
      /\ active' = {p \in active : p >= Cleared} /\ directX8' = DirectReset
  BY DEF BeginChunk, callVars
<1>2. TypeOK /\ CallState /\ X8 \in Nat \ {0} /\ X4 \in Nat \ {0} /\ config \in Config
  BY <1>1, BatchQAssumption DEF LaneInv, TypeOK, X8
<1>3. Size' = Size /\ Count' = Count /\ InChunk' = InChunk /\ coldWide' = coldWide
  BY <1>1 DEF Size, Count, InChunk, coldWide
<1>4. Cleared \in Nat /\ Count <= Cleared /\ Count \in 1 .. MaxChunk /\ Count \in Nat
  BY <1>1, <1>2, BatchQAssumption, ChunkShape
<1>5. encodeX8' \in BOOLEAN /\ (encodeX8' => config.encodeX8)
  BY <1>2 DEF BeginChunk, Config
<1>6. points' \in [Positions -> BOOLEAN] /\ pointsX8' \in [Positions -> BOOLEAN]
  <2>1. points' \in [Positions -> BOOLEAN]
    BY <1>2 DEF BeginChunk, TypeOK
  <2>2. pointsX8' \in [Positions -> BOOLEAN]
    BY <1>2 DEF BeginChunk, TypeOK
  <2> QED
    BY <2>1, <2>2
<1>7. decodedA' \in [Positions -> Int]
  BY <1>2 DEF BeginChunk, TypeOK, Old
<1>8. pc' = IF compact /\ ~coldWide THEN "prepare" ELSE "evaluate"
  BY DEF BeginChunk
<1>9. TypeOK'
  BY <1>1, <1>2, <1>5, <1>6, <1>7, <1>8 DEF TypeOK, Labels
<1>10. CallState'
  BY <1>1, <1>2, <1>3, <1>8 DEF CallState, Working
<1>11. Scratch(0)'
  <2>1. \A p \in InChunk : p \in Nat /\ ~(p < 0) /\ ~(p >= Cleared)
    BY <1>4 DEF InChunk
  <2>2. encodeX8' => directX8' = {}
    BY <1>1, <1>5 DEF DirectReset
  <2> QED
    BY <1>1, <1>3, <2>1, <2>2 DEF Scratch
<1>12. ASSUME compact, ~coldWide
       PROVE  Preparation'
  <2>1. Misses' = {} /\ (0 .. (relative - 1))' = {}
    BY <1>1 DEF Misses
  <2>2. 0 < X8 /\ 0 < X4 /\ 0 <= Count
    BY <1>2, <1>4
  <2> QED
    BY <1>1, <1>3, <1>12, <2>1, <2>2 DEF Preparation
<1>13. ~(compact /\ ~coldWide) => Reported'
  BY <1>1, <1>3 DEF Reported
<1>14. 0 % X8 = 0
  <2>1. (X8 * 0) % X8 = 0 /\ X8 * 0 = 0
    BY <1>2, Multiple
  <2> QED
    BY <2>1
<1>15. relative' % X8 = 0 /\ Scratch(relative)'
  BY <1>1, <1>11, <1>14 DEF Scratch
<1> QED
  BY <1>1, <1>8, <1>9, <1>10, <1>11, <1>12, <1>13, <1>15 DEF LaneInv

-----------------------------------------------------------------------------
\* The ends of chunks and calls.

\* The finalizer reads, for the lanes of the chunk, what evaluation left there:
\* joining the groups in pairs changes neither masks nor points.
LEMMA FinalScratch ==
  ASSUME TypeOK, NEW p \in InChunk, p \in Positions, p < Cleared
  PROVE  /\ p \in FinalMask <=> Held(p)
         /\ FinalPoint(p) <=> Point(p)
         /\ FinalPoint(p) \in BOOLEAN
<1>1. points[p] \in BOOLEAN /\ pointsX8[p] \in BOOLEAN
  BY DEF TypeOK
<1>2. p \in FinalMask <=> Held(p)
  BY DEF FinalMask, JoinedActive, Held
<1>3. (FinalPoint(p) <=> Point(p)) /\ FinalPoint(p) \in BOOLEAN
  BY <1>1 DEF FinalPoint, JoinedPoint, Point
<1> QED
  BY <1>2, <1>3

\* The finalizer decides the items of its chunk, each as it deserves, and no
\* other: the literal one leaves the lanes without a mask at the FALSE the call
\* started with, the y-first one writes it.
LEMMA FinalizeDecides ==
  ASSUME LaneInv, Finalize
  PROVE  ok' = [i \in DOMAIN batch |-> i < offset + Count /\ Accepts(batch[i])]
<1> DEFINE Written(i) ==
             LET p == i - offset IN
               IF p \in 0 .. (Count - 1) /\ p \in FinalMask THEN FinalPoint(p)
               ELSE IF p \in 0 .. (Count - 1) /\ config.finalizer = "yFirst" THEN FALSE
               ELSE ok[i]
<1>1. /\ pc = "evaluate" /\ relative >= Count
      /\ ok' = [i \in DOMAIN ok |-> Written(i)]
  BY DEF Finalize
<1>2. /\ TypeOK /\ Scratch(relative) /\ relative \in Nat
      /\ ok = [i \in DOMAIN batch |-> i < offset /\ Accepts(batch[i])]
  BY <1>1 DEF LaneInv, TypeOK, CallState, Working
<1>3. /\ Size \in Nat /\ batch \in [0 .. (Size - 1) -> Item] /\ offset \in Nat
      /\ Count \in Nat /\ InChunk = 0 .. (Count - 1) /\ InChunk \subseteq Positions
      /\ Cleared \in Nat /\ Count <= Cleared
  BY <1>1, BatchQAssumption, ChunkShape DEF LaneInv, TypeOK, CallState, Working, InChunk
<1>4. ASSUME NEW i \in DOMAIN batch
      PROVE  Written(i) \in BOOLEAN /\ (Written(i) <=> i < offset + Count /\ Accepts(batch[i]))
  <2>1. i \in Nat /\ ok[i] = (i < offset /\ Accepts(batch[i]))
    BY <1>2, <1>3
  <2>2. CASE i < offset \/ i >= offset + Count
    <3>1. i - offset \notin 0 .. (Count - 1)
      BY <1>3, <2>1, <2>2
    <3>2. Written(i) = ok[i]
      BY <3>1
    <3>3. i < offset <=> i < offset + Count
      BY <1>3, <2>1, <2>2
    <3> HIDE DEF Written
    <3> QED
      BY <2>1, <3>2, <3>3
  <2>3. CASE offset <= i /\ i < offset + Count
    <3> DEFINE p == i - offset
    <3>1. /\ p \in InChunk /\ p \in Positions /\ p < Cleared /\ p < relative /\ offset + p = i
          /\ ~(i < offset)
      BY <1>1, <1>2, <1>3, <2>1, <2>3
    <3> HIDE DEF p
    <3>2. /\ Held(p) <=> Deserves(i)
          /\ Held(p) => (Point(p) <=> Accepts(batch[i]))
      BY <1>2, <3>1 DEF Scratch
    <3>3. /\ p \in FinalMask <=> Held(p)
          /\ FinalPoint(p) <=> Point(p)
          /\ FinalPoint(p) \in BOOLEAN
      BY <1>2, <3>1, FinalScratch
    <3>4. Written(i) = IF p \in FinalMask THEN FinalPoint(p)
                       ELSE IF config.finalizer = "yFirst" THEN FALSE ELSE ok[i]
      BY <1>3, <3>1 DEF p
    <3>5. Accepts(batch[i]) => Deserves(i)
      BY DEF Accepts, Deserves
    <3>6. ok[i] = FALSE
      BY <2>1, <3>1
    <3> HIDE DEF Written
    <3> QED
      BY <2>3, <3>2, <3>3, <3>4, <3>5, <3>6
  <2>4. i < offset \/ i >= offset + Count \/ (offset <= i /\ i < offset + Count)
    BY <1>3, <2>1
  <2> HIDE DEF Written
  <2> QED
    BY <2>2, <2>3, <2>4
<1> HIDE DEF Written
<1>5. DOMAIN ok = DOMAIN batch
  BY <1>2
<1>6. \A i \in DOMAIN batch : Written(i) = (i < offset + Count /\ Accepts(batch[i]))
  BY <1>4
<1> QED
  BY <1>1, <1>5, <1>6

\* Finalize: the chunk is over.
LEMMA FinalizeStep ==
  ASSUME LaneInv, Finalize
  PROVE  LaneInv'
<1>1. /\ pc = "evaluate" /\ pc' = "chunk" /\ relative' = 0 /\ offset' = offset + Count
      /\ UNCHANGED <<config, batch, withDecoded, compact, points, encodeX8,
                     decodedA, decodedS, missA, missLanes, missCount>>
  BY DEF Finalize, callVars, decodeVars
<1>2. ok' = [i \in DOMAIN batch |-> i < offset + Count /\ Accepts(batch[i])]
  BY FinalizeDecides
<1>3. TypeOK /\ CallState /\ offset < Size
  BY <1>1 DEF LaneInv, CallState, Working
<1>4. Count \in Nat /\ offset + Count <= Size /\ offset \in Nat
  BY <1>1, <1>3, BatchQAssumption, ChunkShape DEF TypeOK
<1>5. pointsX8' \in [Positions -> BOOLEAN]
  <2>1. \A p \in Positions : JoinedPoint(p) \in BOOLEAN /\ pointsX8[p] \in BOOLEAN
    BY <1>3 DEF TypeOK, JoinedPoint
  <2>2. CASE encodeX8
    BY <2>1, <2>2 DEF Finalize
  <2>3. CASE ~encodeX8
    BY <1>3, <2>3 DEF Finalize, TypeOK
  <2> QED
    BY <2>2, <2>3
<1>6. TypeOK'
  BY <1>1, <1>3, <1>4, <1>5 DEF TypeOK, Labels
<1>7. Size' = Size
  BY <1>1 DEF Size
<1>8. CallState'
  BY <1>1, <1>2, <1>3, <1>4, <1>7 DEF CallState, Working
<1> QED
  BY <1>1, <1>6, <1>8 DEF LaneInv

\* verifyBatchWithDecodedAMode: a call starts with every verdict FALSE.
LEMMA CallStep ==
  ASSUME LaneInv, verifyBatchWithDecodedAMode
  PROVE  LaneInv'
<1>1. /\ pc' = "chunk" /\ batch' \in Batches \cup Warmups
      /\ withDecoded' \in BOOLEAN /\ compact' \in BOOLEAN
      /\ ok' = [i \in DOMAIN batch' |-> FALSE] /\ offset' = 0 /\ relative' = 0
      /\ decodedA' = [p \in Positions |-> Old] /\ decodedS' = [p \in Positions |-> Old]
      /\ missA' = [m \in Lanes |-> Old]
      /\ UNCHANGED <<config, finalVars, missLanes, missCount, live>>
  BY DEF verifyBatchWithDecodedAMode
<1>2. TypeOK'
  BY <1>1 DEF LaneInv, TypeOK, Labels, finalVars, Old
<1>3. Size' \in Nat /\ batch' \in [0 .. (Size' - 1) -> Item]
  <2>1. /\ IsFiniteSet(DOMAIN batch')
        /\ batch' \in [0 .. (Cardinality(DOMAIN batch') - 1) -> Item]
    BY <1>1, BatchQAssumption
  <2> QED
    BY <2>1, FS_CardinalityType DEF Size
<1>4. ok' = [i \in DOMAIN batch |-> i < offset /\ Accepts(batch[i])]'
  <2>1. \A i \in DOMAIN batch' : (i < offset' /\ Accepts(batch'[i])) = FALSE
    BY <1>1, <1>3
  <2> QED
    BY <1>1, <2>1
<1>5. offset' <= Size'
  BY <1>1, <1>3
<1>6. CallState'
  BY <1>1, <1>4, <1>5 DEF CallState, Working
<1> QED
  BY <1>1, <1>2, <1>6 DEF LaneInv

\* The chunk loop ends when every item is decided.
LEMMA ReturnStep ==
  ASSUME LaneInv, Return
  PROVE  LaneInv' /\ ok = Verdicts(batch)
<1>1. /\ pc = "chunk" /\ offset = Size /\ pc' = "returned"
      /\ UNCHANGED <<callVars, ok, offset, relative, finalVars, decodeVars>>
  BY DEF Return
<1>2. TypeOK /\ CallState
  BY DEF LaneInv
<1>3. Size \in Nat /\ batch \in [0 .. (Size - 1) -> Item]
  BY <1>1, <1>2, ChunkShape
<1>4. ok = Verdicts(batch)
  <2>1. ok = [i \in DOMAIN batch |-> i < offset /\ Accepts(batch[i])]
    BY <1>1, <1>2 DEF CallState, Working
  <2>2. \A i \in DOMAIN batch : (i < offset /\ Accepts(batch[i])) = Accepts(batch[i])
    <3>1. \A i \in DOMAIN batch : i < offset
      BY <1>1, <1>3
    <3> QED
      BY <3>1 DEF Accepts
  <2> QED
    BY <2>1, <2>2 DEF Verdicts
<1>5. TypeOK'
  BY <1>1, <1>2 DEF TypeOK, Labels, callVars, finalVars, decodeVars
<1>6. CallState'
  BY <1>1, <1>2, <1>4 DEF CallState, Working, Verdicts, callVars
<1> QED
  BY <1>1, <1>4, <1>5, <1>6 DEF LaneInv

\* A kernel error leaves no verdict true, wherever it strikes.
LEMMA KernelErrorStep ==
  ASSUME LaneInv, KernelError
  PROVE  LaneInv' /\ ok' = [i \in DOMAIN batch |-> FALSE]
<1>1. /\ pc \in Working /\ pc' = "failed"
      /\ ok' = [i \in DOMAIN ok |-> IF i \in ClearedVerdicts THEN FALSE ELSE ok[i]]
      /\ UNCHANGED <<callVars, offset, relative, finalVars, decodeVars>>
  BY DEF KernelError, Working
<1>2. TypeOK /\ CallState
  BY DEF LaneInv
<1>3. ok' = [i \in DOMAIN batch |-> FALSE]
  <2>1. DOMAIN ok = DOMAIN batch
    BY <1>1, <1>2 DEF CallState
  <2> QED
    BY <1>1, <2>1 DEF ClearedVerdicts
<1>4. TypeOK'
  BY <1>1, <1>2 DEF TypeOK, Labels, callVars, finalVars, decodeVars
<1>5. CallState'
  BY <1>1, <1>2, <1>3 DEF CallState, Working, callVars
<1> QED
  BY <1>1, <1>3, <1>4, <1>5 DEF LaneInv, Working

\* The caller takes the verdicts; the scratch stays as it is.
LEMMA ConsumeStep ==
  ASSUME LaneInv, Consume
  PROVE  LaneInv'
<1>1. /\ pc' = "idle" /\ batch' = NoBatch /\ ok' = NoBatch /\ offset' = 0 /\ relative' = 0
      /\ withDecoded' = FALSE /\ compact' = TRUE
      /\ UNCHANGED <<config, finalVars, decodeVars>>
  BY DEF Consume
<1>2. TypeOK'
  BY <1>1 DEF LaneInv, TypeOK, Labels, finalVars, decodeVars
<1>3. CallState'
  BY <1>1 DEF CallState, Working
<1> QED
  BY <1>1, <1>2, <1>3 DEF LaneInv

-----------------------------------------------------------------------------
\* The theorems.

\* The initial states satisfy the invariant.
LEMMA InitLanes == Init => LaneInv
<1> SUFFICES ASSUME Init
             PROVE  LaneInv
  OBVIOUS
<1>1. TypeOK
  <2>1. config \in Config
    BY BatchQAssumption DEF Init
  <2>2. decodedA \in [Positions -> Int] /\ decodedS \in [Positions -> Int]
    BY DEF Init, Old
  <2>3. missA \in [Lanes -> Int] /\ missLanes \in [Lanes -> Int]
    BY DEF Init, Old
  <2> QED
    BY <2>1, <2>2, <2>3 DEF Init, TypeOK, Labels
<1>2. CallState
  BY DEF Init, CallState, Working
<1> QED
  BY <1>1, <1>2 DEF Init, LaneInv

\* Every step keeps it.
LEMMA NextLanes == LaneInv /\ [Next]_vars => LaneInv'
<1> SUFFICES ASSUME LaneInv, [Next]_vars
             PROVE  LaneInv'
  OBVIOUS
<1>1. CASE verifyBatchWithDecodedAMode
  BY <1>1, CallStep
<1>2. CASE BeginChunk
  BY <1>2, BeginChunkStep
<1>3. CASE PrepareItem
  BY <1>3, PrepareItemStep
<1>4. CASE PrepareRest
  BY <1>4, PrepareRestStep
<1>5. CASE evaluateX8Group
  BY <1>5, ColdX8Step
<1>6. CASE evaluateTwoX4Group
  BY <1>6, ColdX4Step
<1>7. CASE evaluatePreparedX8Group
  BY <1>7, PreparedX8Step
<1>8. CASE evaluatePreparedTwoX4Group
  BY <1>8, PreparedX4Step
<1>9. CASE Finalize
  BY <1>9, FinalizeStep
<1>10. CASE Return
  BY <1>10, ReturnStep
<1>11. CASE KernelError
  BY <1>11, KernelErrorStep
<1>12. CASE Consume
  BY <1>12, ConsumeStep
<1>13. CASE UNCHANGED vars
  <2>1. /\ UNCHANGED <<config, pc, batch, withDecoded, compact, ok, offset, relative>>
        /\ UNCHANGED <<points, active, pointsX8, activeX8, directX8, encodeX8>>
        /\ UNCHANGED <<decodedA, decodedS, missA, missLanes, missCount, live>>
    BY <1>13 DEF vars, callVars, finalVars, decodeVars
  <2>2. TypeOK' /\ CallState'
    BY <2>1 DEF LaneInv, TypeOK, CallState, Size
  <2>3. InChunk' = InChunk /\ coldWide' = coldWide /\ Count' = Count /\ WideCount' = WideCount
    BY <2>1 DEF InChunk, coldWide, Count, Size, WideCount
  <2>4. (Scratch(0) => Scratch(0)') /\ (Scratch(relative) => Scratch(relative)')
    BY <2>1, <2>3 DEF Scratch, Held, Point, Deserves
  <2>5. Preparation => Preparation'
    BY <2>1, <2>3 DEF Preparation, Misses, Packed, Own, Deserves, prepareR51Signature
  <2>6. Reported => Reported'
    BY <2>1, <2>3 DEF Reported, Own, Deserves
  <2> QED
    BY <2>1, <2>2, <2>4, <2>5, <2>6 DEF LaneInv
<1> QED
  BY <1>1, <1>2, <1>3, <1>4, <1>5, <1>6, <1>7, <1>8, <1>9, <1>10, <1>11, <1>12, <1>13 DEF Next

\* In every reachable state of the worker the lanes prepared, packed, evaluated
\* and decided so far are those of the items they belong to, and the rest of
\* the chunk's scratch is clear.
THEOREM LaneInvariant == Spec => []LaneInv
BY InitLanes, NextLanes, PTL DEF Spec

\* A chunk reaches its finalizer with exactly the lanes of the items that
\* passed the byte rules and whose key decodes, each with the A and the S of
\* its own item, for any lane width, chunk size, dispatch and history.
THEOREM LanesCorrect == Spec => []LanesExact
<1>1. LaneInv => LanesExact
  <2> SUFFICES ASSUME LaneInv
               PROVE  MasksExact /\ DecodedLanesOwn
    BY DEF LanesExact
  <2>1. MasksExact
    <3> SUFFICES ASSUME pc = "evaluate", relative >= Count
                 PROVE  FinalMask \cap InChunk = {p \in InChunk : Deserves(offset + p)}
      BY DEF MasksExact, InChunk, Deserves
    <3>1. TypeOK /\ Scratch(relative) /\ relative \in Nat
      BY DEF LaneInv, TypeOK
    <3>2. /\ InChunk = 0 .. (Count - 1) /\ InChunk \subseteq Positions /\ Count \in Nat
          /\ Cleared \in Nat /\ Count <= Cleared
      BY BatchQAssumption, ChunkShape DEF LaneInv, TypeOK, CallState, Working, InChunk
    <3>3. ASSUME NEW p \in InChunk
          PROVE  p \in FinalMask <=> Deserves(offset + p)
      <4>1. p \in Positions /\ p < Cleared /\ p < relative
        BY <3>1, <3>2
      <4>2. p \in FinalMask <=> Held(p)
        BY <3>1, <4>1, FinalScratch
      <4>3. Held(p) <=> Deserves(offset + p)
        BY <3>1, <4>1 DEF Scratch
      <4> QED
        BY <4>2, <4>3
    <3> QED
      BY <3>3
  <2>2. DecodedLanesOwn
    BY DEF DecodedLanesOwn, LaneInv, Preparation, Reported, Own
  <2> QED
    BY <2>1, <2>2
<1> QED
  BY <1>1, LaneInvariant, PTL

\* A step of the pipeline is a step of the contract, or leaves what the caller
\* sees as it is.
LEMMA ContractStep ==
  ASSUME LaneInv, [Next]_vars
  PROVE  [Contract!Next]_(Contract!contractVars)
<1> DEFINE answer == IF pc \in {"returned", "failed"} THEN ok ELSE NoBatch
<1>1. CASE verifyBatchWithDecodedAMode
  <2>1. /\ pc = "idle" /\ pc' = "chunk" /\ batch' \in Batches \cup Warmups
    BY <1>1 DEF verifyBatchWithDecodedAMode
  <2> QED
    BY <2>1 DEF Contract!Next, Contract!Call, Contract!NoVerdicts, phase, NoBatch
<1>2. CASE BeginChunk \/ PrepareItem \/ PrepareRest \/ Finalize
           \/ evaluateX8Group \/ evaluateTwoX4Group
           \/ evaluatePreparedX8Group \/ evaluatePreparedTwoX4Group
  <2>1. /\ pc \in {"chunk", "prepare", "evaluate"} /\ pc' \in {"chunk", "prepare", "evaluate"}
        /\ UNCHANGED batch
    BY <1>2 DEF BeginChunk, PrepareItem, PrepareRest, Finalize, evaluateX8Group,
                evaluateTwoX4Group, evaluatePreparedX8Group, evaluatePreparedTwoX4Group,
                EvaluateStep, callVars
  <2>2. UNCHANGED <<phase, answer>>
    BY <2>1 DEF phase
  <2> QED
    BY <2>1, <2>2 DEF Contract!contractVars
<1>3. CASE Return
  <2>1. pc = "chunk" /\ pc' = "returned" /\ UNCHANGED <<batch, ok>>
    BY <1>3 DEF Return, callVars
  <2>2. ok = Verdicts(batch)
    BY <1>3, ReturnStep
  <2> QED
    BY <2>1, <2>2 DEF Contract!Next, Contract!Return, phase
<1>4. CASE KernelError
  <2>1. pc \in {"prepare", "evaluate"} /\ pc' = "failed" /\ UNCHANGED batch
    BY <1>4 DEF KernelError, callVars
  <2>2. ok' = [i \in DOMAIN batch |-> FALSE]
    BY <1>4, KernelErrorStep
  <2> QED
    BY <2>1, <2>2 DEF Contract!Next, Contract!Fail, NoneTrue, phase
<1>5. CASE Consume
  <2>1. pc \in {"returned", "failed"} /\ pc' = "idle" /\ batch' = NoBatch
    BY <1>5 DEF Consume
  <2> QED
    BY <2>1 DEF Contract!Next, Contract!Consume, Contract!NoVerdicts, phase, NoBatch
<1>6. CASE UNCHANGED vars
  <2>1. UNCHANGED <<pc, batch, ok>>
    BY <1>6 DEF vars, callVars
  <2>2. UNCHANGED <<phase, answer>>
    BY <2>1 DEF phase
  <2> QED
    BY <2>1, <2>2 DEF Contract!contractVars
<1> QED
  BY <1>1, <1>2, <1>3, <1>4, <1>5, <1>6 DEF Next

\* The pipeline answers every call for each item as that item alone deserves,
\* or fails the call with no verdict true, and nothing of earlier calls shows.
THEOREM PipelineImplementsContract == Spec => ImplementsContract
<1>1. Init => Contract!Init
  BY DEF Init, Contract!Init, Contract!NoVerdicts, phase, NoBatch
<1>2. LaneInv /\ [Next]_vars => [Contract!Next]_(Contract!contractVars)
  BY ContractStep
<1> QED
  BY <1>1, <1>2, LaneInvariant, PTL DEF Spec, ImplementsContract, Contract!Spec
=============================================================================
