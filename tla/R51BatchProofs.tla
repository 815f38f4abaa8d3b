--------------------------- MODULE R51BatchProofs ---------------------------
(***************************************************************************)
(* Theorems about the cached batch of the r51 backend, for any batches,    *)
(* any lane width, chunk size and threshold, any faults and any steps of   *)
(* other goroutines on the cache.                                          *)
(***************************************************************************)
EXTENDS R51Batch, FiniteSetTheorems, WellFoundedInduction, TLAPS

-----------------------------------------------------------------------------
\* Arithmetic of lanes and chunks.

\* A non-empty set of naturals has a least element.
LEMMA LeastNatural ==
  ASSUME NEW S, S \subseteq Nat, S # {}
  PROVE  \E x \in S : \A y \in S : x <= y
<1> DEFINE R == {ss \in Nat \X Nat : ss[1] < ss[2]}
<1>1. IsWellFoundedOn(R, Nat)
  BY NatLessThanWellFounded DEF OpToRel
<1>2. \E x \in S : \A y \in S : ~(<<y, x>> \in R)
  <2> HIDE DEF R
  <2> QED
    BY <1>1, WFMin
<1>3. ASSUME NEW x \in S, NEW y \in S, <<y, x>> \notin R
      PROVE  x <= y
  <2>1. x \in Nat /\ y \in Nat /\ <<y, x>> \in Nat \X Nat
    OBVIOUS
  <2>2. ~(y < x)
    BY <1>3, <2>1
  <2> QED
    BY <2>1, <2>2
<1> HIDE DEF R
<1> QED
  BY <1>2, <1>3

\* Min of such a set is that element.
LEMMA MinNat ==
  ASSUME NEW S, S \subseteq Nat, S # {}
  PROVE  /\ Min(S) \in S /\ Min(S) \in Nat
         /\ \A y \in S : Min(S) <= y
<1>1. \E x \in S : \A y \in S : x <= y
  BY LeastNatural
<1> QED
  BY <1>1 DEF Min

\* Division by a lane width.
LEMMA Division ==
  ASSUME NEW n \in Nat, NEW d \in Nat \ {0}
  PROVE  /\ n % d \in 0 .. (d - 1) /\ n % d <= n
         /\ n \div d \in Nat /\ n = (d * (n \div d)) + (n % d)
OBVIOUS

\* Multiples of a width leave no remainder.
LEMMA Multiple ==
  ASSUME NEW q \in Nat, NEW d \in Nat \ {0}
  PROVE  (d * q) % d = 0
OBVIOUS

\* A number without remainder is a multiple.
LEMMA Divided ==
  ASSUME NEW n \in Nat, NEW d \in Nat \ {0}, n % d = 0
  PROVE  n \div d \in Nat /\ n = d * (n \div d)
BY Division

\* A multiple of d is a multiple of 2 * d or d away from one.
LEMMA EvenOrOdd ==
  ASSUME NEW n \in Nat, NEW d \in Nat \ {0}, n % d = 0
  PROVE  n % (2 * d) = 0 \/ (n - d \in Nat /\ (n - d) % (2 * d) = 0)
<1> DEFINE q == n \div d
           p == q \div 2
<1>1. q \in Nat /\ n = d * q
  BY Divided
<1> HIDE DEF q
<1>2. p \in Nat /\ (q = 2 * p \/ q = 2 * p + 1)
  BY <1>1, Division
<1> HIDE DEF p
<1>3. 2 * d \in Nat \ {0} /\ (2 * d) * p = d * (2 * p) /\ (2 * d) * p \in Nat
  BY <1>2
<1>4. CASE q = 2 * p
  <2>1. n = (2 * d) * p
    BY <1>1, <1>3, <1>4
  <2> QED
    BY ZenonT(60), <1>2, <1>3, <2>1, Multiple
<1>5. CASE q = 2 * p + 1
  <2>1. n = d * (2 * p) + d
    BY <1>1, <1>2, <1>5
  <2>2. n - d = (2 * d) * p
    BY <1>3, <2>1
  <2> QED
    BY <1>2, <1>3, <2>2, Multiple
<1> QED
  BY <1>2, <1>4, <1>5

\* The sum of two multiples is a multiple.
LEMMA SumOfMultiples ==
  ASSUME NEW m \in Nat, NEW n \in Nat, NEW d \in Nat \ {0}, m % d = 0, n % d = 0
  PROVE  (m + n) % d = 0
<1> DEFINE p == m \div d
           q == n \div d
<1>1. p \in Nat /\ m = d * p
  BY Divided
<1>2. q \in Nat /\ n = d * q
  BY Divided
<1> HIDE DEF p, q
<1>3. m + n = d * (p + q) /\ p + q \in Nat
  BY <1>1, <1>2
<1> QED
  BY <1>3, Multiple

-----------------------------------------------------------------------------
\* The invariant.

Labels == {"idle", "lookup", "enter", "dispatch", "fault", "admit", "readmit", "return"}
Tiers == {"none", "decoded", "warm"}
Items == DOMAIN batch

\* Verdicts and histories are index-aligned with the batch.
TypeOK ==
  /\ cpu \in Generations /\ pc \in Labels /\ profile \in Profiles
  /\ tables \in [Keys -> Tiers] /\ sightings \in [Keys -> Nat]
  /\ Size \in Nat /\ batch \in [0 .. (Size - 1) -> Item]
  /\ ok \in [Items -> BOOLEAN] /\ pre \in [Items -> Tiers]
  /\ credits \in [Items -> Nat]
  /\ all \in BOOLEAN /\ prepared \in BOOLEAN /\ poolDirty \in BOOLEAN
  /\ base \in Nat /\ index \in Nat /\ offset \in Nat
  /\ worker \in {"none", "clean", "dirty"}

InChunk == {"lookup", "enter", "dispatch", "admit"}

\* The cursors stay inside the batch and the chunk.
Position ==
  /\ pc \in InChunk => base <= Size
  /\ pc \in {"lookup", "admit"} => index <= Count
  /\ pc = "dispatch" => offset <= Count
  /\ pc = "readmit" => index <= Size

\* While the chunk is dispatched the call holds a batch worker exactly if a
\* segment may need one, and no fault has touched it.
WorkerAtHand ==
  pc = "dispatch" => worker = IF needsBatchWorker THEN "clean" ELSE "none"

\* The items below this bound have their verdict.
Decided ==
  IF pc \in {"lookup", "enter"} THEN base
  ELSE IF pc = "dispatch" THEN base + offset
  ELSE IF pc = "admit" THEN base + Count
  ELSE Size

\* The items below this bound are in the returned conjunction.
Summed ==
  IF pc \in {"lookup", "enter", "dispatch"} THEN base
  ELSE IF pc = "admit" THEN base + Count
  ELSE Size

\* Every verdict and the conjunction are right as far as the call has come; a
\* fault starts over.
Progress ==
  pc \notin {"idle", "fault"} =>
    /\ \A i \in Items : i < Decided => (ok[i] <=> Valid(i))
    /\ all <=> \A i \in Items : i < Summed => Valid(i)

\* The items below this bound have asked for admission.
Asked == IF pc = "admit" THEN base + index ELSE base

\* A valid miss behind the cursor has one request, every other item none; after
\* a fault at least no invalid item has any.
Requests ==
  /\ \A i \in Items : credits[i] > 0 => Valid(i)
  /\ pc \in InChunk =>
       \A i \in Items :
         credits[i] = IF i < Asked /\ Valid(i) /\ pre[i] = "none" THEN 1 ELSE 0

\* Where x8 warm groups are preferred, dispatch resumes on x8 boundaries.
OnBoundary ==
  pc = "dispatch" /\ offset < Full /\ PreferWarmX8IFMA /\ warmAllowed => offset % X8 = 0

BatchInv ==
  /\ TypeOK /\ Position /\ PoolClean /\ WorkerAtHand
  /\ Progress /\ Requests /\ OnBoundary

-----------------------------------------------------------------------------
\* The shape of a chunk.

\* A chunk lies inside the batch and is empty only at its end.
LEMMA ChunkShape ==
  ASSUME Size \in Nat, base \in Nat, base <= Size
  PROVE  /\ Count \in Nat /\ Count <= MaxChunk /\ base + Count <= Size
         /\ Full \in Nat /\ Full <= Count
         /\ Tail \in Nat /\ Full + Tail = Count
<1>1. MaxChunk \in Nat /\ X4 \in Nat \ {0}
  BY R51BatchAssumption
<1>2. /\ Count \in {Size - base, MaxChunk}
      /\ Count <= Size - base /\ Count <= MaxChunk
  BY <1>1, MinNat DEF Count
<1>3. Count \in Nat
  BY <1>1, <1>2
<1>4. Full \in Nat /\ Full <= Count
  <2>1. Count % X4 \in 0 .. (X4 - 1) /\ Count % X4 <= Count
    BY <1>1, <1>3, Division
  <2> QED
    BY <1>1, <1>3, <2>1 DEF Full, Floor4
<1> QED
  BY <1>2, <1>3, <1>4 DEF Tail

\* A chunk at least as wide as an x8 group can be dispatched as one.
LEMMA ChunkHoldsX8 == X8 \in Nat \ {0} /\ X4 < X8 /\ X8 <= MaxChunk
<1>1. X8 \in Nat \ {0} /\ MaxChunk \in Nat \ {0} /\ MaxChunk % X8 = 0 /\ X4 < X8
  BY R51BatchAssumption
<1>2. \A m, d \in Nat \ {0} : m < d => m % d = m
  OBVIOUS
<1> QED
  BY <1>1, <1>2

\* A dispatch width is zero, or the groups it covers are available and fit.
LEMMA WidthCovers ==
  ASSUME NEW o \in Nat, NEW full \in Nat, r51WarmDispatchWidth(o, full) # 0
  PROVE  /\ r51WarmDispatchWidth(o, full) \in {X4, X8}
         /\ r51WarmDispatchWidth(o, full) = X8 => PreferWarmX8IFMA
         /\ o + r51WarmDispatchWidth(o, full) <= full
         /\ r51WarmGroupAvailable(o)
         /\ r51WarmDispatchWidth(o, full) = X8 => r51WarmGroupAvailable(o + X4)
         /\ PreferWarmX8IFMA => /\ o % X8 = 0
                                /\ r51WarmDispatchWidth(o, full) = X8 \/ o + X4 = full
BY R51BatchAssumption, ChunkHoldsX8 DEF r51WarmDispatchWidth, Aligned

\* A warm segment starts with a group, stays inside the full groups, and all
\* its x4 groups are available; where x8 is preferred it ends at the end of the
\* full groups or on an x8 boundary.
LEMMA WarmSegment ==
  ASSUME Full \in Nat, NEW start \in Nat, start < Full,
         r51WarmDispatchWidth(start, Full) # 0
  PROVE  /\ WarmEnd(start) \in Nat /\ start < WarmEnd(start) /\ WarmEnd(start) <= Full
         /\ \A o \in start .. (WarmEnd(start) - 1) :
              (o - start) % X4 = 0 => r51WarmGroupAvailable(o)
         /\ PreferWarmX8IFMA => WarmEnd(start) = Full \/ WarmEnd(start) % X8 = 0
<1> DEFINE Stops == {e \in start .. Full :
                       /\ (e - start) % WarmWidth = 0
                       /\ LET next == r51WarmDispatchWidth(e, Full)
                          IN  next = 0 \/ e + next - start > MaxChunk}
           end == WarmEnd(start)
<1>1. X4 \in Nat \ {0} /\ X8 \in Nat \ {0} /\ X8 = 2 * X4 /\ MaxChunk \in Nat /\ X8 <= MaxChunk
  BY R51BatchAssumption, ChunkHoldsX8
<1>2. end \in {Full} \cup Stops /\ end \in Nat /\ \A e \in {Full} \cup Stops : end <= e
  <2>1. {Full} \cup Stops \subseteq Nat /\ {Full} \cup Stops # {}
    OBVIOUS
  <2>2. end = Min({Full} \cup Stops)
    BY DEF WarmEnd
  <2> HIDE DEF Stops, end
  <2> QED
    BY <2>1, <2>2, MinNat
<1>3. end <= Full /\ start <= end
  BY <1>2
<1>4. start \notin Stops
  <2>1. r51WarmDispatchWidth(start, Full) \in {X4, X8}
    BY WidthCovers
  <2> QED
    BY <1>1, <2>1
<1>5. start < end
  BY <1>2, <1>3, <1>4
<1> HIDE DEF Stops, end
<1>6. ASSUME NEW e \in start .. (end - 1), (e - start) % WarmWidth = 0
      PROVE  r51WarmDispatchWidth(e, Full) # 0
  BY <1>2, <1>3, <1>6 DEF Stops
<1>7. ASSUME NEW o \in start .. (end - 1), (o - start) % X4 = 0
      PROVE  r51WarmGroupAvailable(o)
  <2>1. o \in Nat /\ o - start \in Nat /\ o < Full
    BY <1>2, <1>3
  <2>2. CASE ~PreferWarmX8IFMA
    BY <1>6, <1>7, <2>1, <2>2, WidthCovers DEF WarmWidth
  <2>3. CASE PreferWarmX8IFMA /\ (o - start) % X8 = 0
    BY <1>6, <2>1, <2>3, WidthCovers DEF WarmWidth
  <2>4. CASE PreferWarmX8IFMA /\ (o - start) % X8 # 0
    <3>1. (o - start) - X4 \in Nat /\ ((o - start) - X4) % X8 = 0
      BY <1>1, <1>7, <2>1, <2>4, EvenOrOdd
    <3> DEFINE e == o - X4
    <3>2. e \in start .. (end - 1) /\ (e - start) % X8 = 0 /\ e \in Nat /\ o = e + X4
      <4>1. (o - start) - X4 = e - start
        BY <1>1, <2>1
      <4> QED
        BY <1>1, <1>2, <2>1, <3>1, <4>1
    <3> HIDE DEF e
    <3>3. r51WarmDispatchWidth(e, Full) # 0
      BY <1>6, <2>4, <3>2 DEF WarmWidth
    <3>4. r51WarmDispatchWidth(e, Full) = X8 \/ e + X4 = Full
      BY <2>4, <3>2, <3>3, WidthCovers
    <3> QED
      BY <2>1, <3>2, <3>3, <3>4, WidthCovers
  <2> QED
    BY <2>2, <2>3, <2>4
<1>8. ASSUME PreferWarmX8IFMA, end # Full
      PROVE  end % X8 = 0
  <2>1. end \in Stops
    BY <1>2, <1>8
  <2>2. (end - start) % X8 = 0 /\ end - start \in Nat
    BY <1>2, <1>3, <1>8, <2>1 DEF Stops, WarmWidth
  <2>3. start % X8 = 0
    BY <1>8, WidthCovers
  <2>4. (start + (end - start)) % X8 = 0
    BY <1>1, <2>2, <2>3, SumOfMultiples
  <2> QED
    BY <1>2, <2>4
<1> QED
  BY <1>2, <1>3, <1>5, <1>7, <1>8 DEF end

\* A cold segment is not empty, stays inside the full groups, and ends at their
\* end or where a warm group can be dispatched.
LEMMA ColdSegment ==
  ASSUME Full \in Nat, Full <= MaxChunk, NEW start \in Nat, start < Full, NEW allowed \in BOOLEAN
  PROVE  /\ ColdEnd(start, allowed) \in Nat
         /\ start < ColdEnd(start, allowed) /\ ColdEnd(start, allowed) <= Full
         /\ PreferWarmX8IFMA /\ allowed =>
              ColdEnd(start, allowed) = Full \/ ColdEnd(start, allowed) % X8 = 0
<1> DEFINE limit == Min({Full, start + MaxChunk})
           Starts == {c \in (start + X4) .. (limit - 1) :
                        /\ (c - start) % X4 = 0
                        /\ allowed /\ r51WarmDispatchWidth(c, Full) # 0}
           end == ColdEnd(start, allowed)
<1>1. X4 \in Nat \ {0} /\ MaxChunk \in Nat
  BY R51BatchAssumption
<1>2. limit = Full
  <2>1. {Full, start + MaxChunk} \subseteq Nat
    BY <1>1
  <2>2. limit \in {Full, start + MaxChunk} /\ limit <= Full
    BY <2>1, MinNat
  <2> QED
    BY <1>1, <2>2
<1> HIDE DEF limit
<1>3. end \in {limit} \cup Starts
  <2>1. {limit} \cup Starts \subseteq Nat /\ {limit} \cup Starts # {}
    BY <1>1, <1>2
  <2>2. end = Min({limit} \cup Starts)
    BY DEF ColdEnd, limit
  <2> HIDE DEF Starts, end
  <2> QED
    BY <2>1, <2>2, MinNat
<1>4. ASSUME end \in Starts
      PROVE  end \in Nat /\ start < end /\ end <= Full /\ (PreferWarmX8IFMA => end % X8 = 0)
  <2>1. end \in (start + X4) .. (Full - 1) /\ r51WarmDispatchWidth(end, Full) # 0
    BY <1>2, <1>4
  <2> HIDE DEF end
  <2>2. end \in Nat /\ start < end /\ end <= Full
    BY <1>1, <2>1
  <2> QED
    BY <2>1, <2>2, WidthCovers
<1> HIDE DEF Starts, end
<1> QED
  BY <1>2, <1>3, <1>4 DEF end

-----------------------------------------------------------------------------
\* Steps.

\* A call in progress keeps its inputs, and with them what they decide.
LEMMA SameInputs ==
  ASSUME UNCHANGED <<batch, profile>>
  PROVE  /\ Size' = Size /\ Items' = Items
         /\ \A i : Valid(i)' = Valid(i)
BY DEF Size, Items, Valid

\* The same chunk has the same shape.
LEMMA SameChunk ==
  ASSUME UNCHANGED <<batch, profile, base>>
  PROVE  /\ Count' = Count /\ Full' = Full /\ Tail' = Tail /\ Live' = Live
         /\ strictPackedPair' = strictPackedPair /\ needsBatchWorker' = needsBatchWorker
BY DEF Size, Count, Full, Tail, Live, strictPackedPair, needsBatchWorker

\* The invariant holds before the first call.
LEMMA BatchInit == Init => BatchInv
<1> SUFFICES ASSUME Init
             PROVE  BatchInv
  OBVIOUS
<1>1. Size = 0 /\ Items = {} /\ DOMAIN batch = {} /\ 0 .. (Size - 1) = {}
  BY FS_EmptySet DEF Init, NoBatch, Size, Items
<1>2. TypeOK
  BY <1>1 DEF Init, TypeOK, NoBatch, Labels, Profiles, Tiers, Generations
<1> QED
  BY <1>1, <1>2 DEF Init, BatchInv, Position, PoolClean, WorkerAtHand, Progress, Requests, OnBoundary,
     InChunk

\* A chunk has a length, also in the next state.
LEMMA CountNatural == Size \in Nat /\ base \in Nat /\ base <= Size => Count \in Nat
BY ChunkShape

\* A call starts with no verdict, no request and its first chunk.
LEMMA CallStep ==
  ASSUME BatchInv, verifyBatchRawCached
  PROVE  BatchInv'
<1>1. /\ IsFiniteSet(DOMAIN batch')
      /\ batch' \in [0 .. (Size' - 1) -> Item]
  BY R51BatchAssumption DEF verifyBatchRawCached, Size
<1>2. Size' \in Nat /\ Items' = 0 .. (Size' - 1)
  BY <1>1, FS_CardinalityType DEF Size, Items
<1>3. /\ pc = "idle" /\ pc' \in {"enter", "lookup"}
      /\ ok' \in [Items' -> BOOLEAN]
      /\ pre' = [i \in Items' |-> "none"] /\ credits' = [i \in Items' |-> 0]
      /\ all' = TRUE /\ base' = 0 /\ index' = 0 /\ offset' = 0 /\ prepared' = FALSE
      /\ UNCHANGED <<cpu, tables, sightings, poolDirty, worker>> /\ profile' \in Profiles
  BY DEF verifyBatchRawCached, Items, cacheVars
<1>4. TypeOK'
  <2>1. pre' \in [Items' -> Tiers] /\ credits' \in [Items' -> Nat]
    BY <1>3 DEF Tiers
  <2> QED
    BY <1>1, <1>2, <1>3, <2>1 DEF BatchInv, TypeOK, Labels
<1>5. Count' \in Nat
  <2>1. (Size \in Nat /\ base \in Nat /\ base <= Size => Count \in Nat)'
    BY CountNatural, PTL
  <2> QED
    BY <1>2, <1>3, <2>1
<1> QED
  <2>1. Position' /\ PoolClean' /\ WorkerAtHand' /\ OnBoundary'
    BY <1>2, <1>3, <1>5 DEF BatchInv, Position, PoolClean, WorkerAtHand, OnBoundary, InChunk
  <2>2. Decided' = 0 /\ Summed' = 0 /\ Asked' = 0 /\ \A i \in Items' : i \in Nat /\ ~(i < 0)
    <3>1. Decided' = 0 /\ Summed' = 0 /\ Asked' = 0
      BY <1>3 DEF Decided, Summed, Asked
    <3>2. \A i \in Items' : i \in Nat /\ ~(i < 0)
      BY <1>2
    <3> QED
      BY <3>1, <3>2
  <2>3. Progress'
    BY <1>3, <2>2 DEF Progress
  <2>4. Requests'
    <3>1. ASSUME NEW i \in Items'
          PROVE  credits'[i] = 0 /\ ~(i < Asked')
      BY <1>3, <2>2
    <3> QED
      BY <3>1 DEF Requests
  <2> QED
    BY <1>4, <2>1, <2>3, <2>4 DEF BatchInv

\* Between calls nothing is decided.
LEMMA ReturnStep ==
  ASSUME BatchInv, Return
  PROVE  BatchInv'
<1>1. /\ pc' = "idle" /\ batch' = NoBatch /\ ok' = NoBatch /\ pre' = NoBatch /\ credits' = NoBatch
      /\ all' = TRUE /\ base' = 0 /\ index' = 0 /\ offset' = 0 /\ prepared' = FALSE
      /\ profile' = "DalekStrict"
      /\ UNCHANGED <<cpu, tables, sightings, poolDirty, worker>>
  BY DEF Return, cacheVars
<1>2. Size' = 0 /\ Items' = {} /\ 0 .. (Size' - 1) = {}
  BY <1>1, FS_EmptySet DEF NoBatch, Size, Items
<1>3. TypeOK'
  BY <1>1, <1>2 DEF BatchInv, TypeOK, NoBatch, Labels, Profiles
<1> QED
  BY <1>1, <1>2, <1>3 DEF BatchInv, Position, PoolClean, WorkerAtHand, Progress, Requests, OnBoundary,
     InChunk

\* A lookup touches an item that has no verdict and no request yet.
LEMMA LookupStep ==
  ASSUME BatchInv, Lookup
  PROVE  BatchInv'
<1>1. /\ pc = "lookup" /\ index < Count /\ index' = index + 1
      /\ UNCHANGED <<cpu, tables, sightings, poolDirty, pc, batch, profile, ok, all, base, prepared,
                     offset, worker, credits>>
      /\ pre' = pre \/ pre' = [pre EXCEPT ![base + index] = tables[batch[base + index].key]]
  BY DEF Lookup, cacheVars, callVars
<1>2. Size' = Size /\ Items' = Items /\ Count' = Count /\ \A i : Valid(i)' = Valid(i)
  BY <1>1, SameInputs, SameChunk
<1>3. /\ TypeOK /\ Items = 0 .. (Size - 1) /\ base <= Size
      /\ Count \in Nat /\ base + Count <= Size
  BY <1>1, ChunkShape DEF BatchInv, TypeOK, Position, InChunk, Items
<1>4. base + index \in Items
  BY <1>1, <1>3 DEF TypeOK
<1>5. TypeOK'
  <2>1. tables[batch[base + index].key] \in Tiers
    BY <1>3, <1>4 DEF TypeOK, Item
  <2>2. pre' \in [Items -> Tiers]
    BY <1>1, <1>3, <2>1 DEF TypeOK
  <2> QED
    BY <1>1, <1>2, <1>3, <2>2 DEF TypeOK
<1>6. Position' /\ PoolClean' /\ WorkerAtHand' /\ OnBoundary'
  BY <1>1, <1>2, <1>3 DEF BatchInv, TypeOK, Position, PoolClean, WorkerAtHand, OnBoundary, InChunk
<1>7. Progress'
  BY <1>1, <1>2 DEF BatchInv, Progress, Decided, Summed
<1>8. Requests'
  <2>1. \A i \in Items : i < base => pre'[i] = pre[i]
    BY <1>1, <1>3 DEF TypeOK
  <2>2. Asked = base /\ Asked' = base
    BY <1>1 DEF Asked
  <2> QED
    BY <1>1, <1>2, <2>1, <2>2 DEF BatchInv, Requests, InChunk
<1> QED
  BY <1>5, <1>6, <1>7, <1>8 DEF BatchInv

\* Passing on tables changes no verdict.
LEMMA PrepareStep ==
  ASSUME BatchInv, Prepare
  PROVE  BatchInv'
<1>1. /\ pc = "lookup" /\ pc' = "enter" /\ prepared' \in BOOLEAN
      /\ UNCHANGED <<cpu, tables, sightings, poolDirty, batch, profile, ok, all, base, index, pre,
                     offset, worker, credits>>
  BY DEF Prepare, cacheVars, callVars
<1>2. Size' = Size /\ Items' = Items /\ Count' = Count /\ \A i : Valid(i)' = Valid(i)
  BY <1>1, SameInputs, SameChunk
<1>3. TypeOK' /\ Position' /\ PoolClean' /\ WorkerAtHand' /\ OnBoundary'
  BY <1>1, <1>2 DEF BatchInv, TypeOK, Position, PoolClean, WorkerAtHand, OnBoundary, InChunk, Labels
<1>4. Progress'
  BY <1>1, <1>2 DEF BatchInv, Progress, Decided, Summed
<1>5. Requests'
  BY <1>1, <1>2 DEF BatchInv, Requests, Asked, InChunk
<1> QED
  BY <1>3, <1>4, <1>5 DEF BatchInv

\* Entering the dispatch clears the chunk's verdicts and no other.
LEMMA EnterStep ==
  ASSUME BatchInv, Enter
  PROVE  BatchInv'
<1>1. /\ pc = "enter" /\ offset' = 0
      /\ ok' = [i \in DOMAIN ok |-> IF i \in Live THEN FALSE ELSE ok[i]]
      /\ \/ pc' = "dispatch" /\ worker' = IF needsBatchWorker THEN "clean" ELSE "none"
         \/ pc' = "fault" /\ worker' = "none"
      /\ UNCHANGED <<cpu, tables, sightings, poolDirty, batch, profile, all, base, index, pre,
                     prepared, credits>>
  BY DEF Enter, cacheVars, callVars
<1>2. /\ Size' = Size /\ Items' = Items /\ Count' = Count /\ needsBatchWorker' = needsBatchWorker
      /\ \A i : Valid(i)' = Valid(i)
  BY <1>1, SameInputs, SameChunk
<1>3. TypeOK /\ Items = 0 .. (Size - 1) /\ base <= Size /\ Count \in Nat
  BY <1>1, ChunkShape DEF BatchInv, TypeOK, Position, InChunk, Items
<1>4. ok' \in [Items -> BOOLEAN] /\ \A i \in Items : i < base => ok'[i] = ok[i]
  <2>1. DOMAIN ok = Items /\ \A i \in Items : ok[i] \in BOOLEAN
    BY <1>3 DEF TypeOK
  <2>2. \A i \in Items : i < base => i \notin Live
    BY <1>3 DEF TypeOK, Live
  <2> QED
    BY <1>1, <2>1, <2>2
<1>5. TypeOK'
  <2>1. worker' \in {"none", "clean", "dirty"} /\ pc' \in Labels /\ offset' \in Nat
    BY <1>1 DEF Labels
  <2> QED
    BY <1>1, <1>2, <1>3, <1>4, <2>1 DEF TypeOK
<1>6. Position' /\ PoolClean' /\ WorkerAtHand'
  <2>1. Position'
    BY <1>1, <1>2, <1>3 DEF Position, InChunk
  <2>2. PoolClean'
    BY <1>1 DEF BatchInv, PoolClean
  <2>3. WorkerAtHand'
    BY <1>1, <1>2 DEF WorkerAtHand
  <2> QED
    BY <2>1, <2>2, <2>3
<1>7. OnBoundary'
  <2>1. 0 % X8 = 0
    BY ChunkHoldsX8
  <2> QED
    BY <1>1, <2>1 DEF OnBoundary
<1>8. Progress'
  <2>1. CASE pc' = "fault"
    BY <2>1 DEF Progress
  <2>2. CASE pc' = "dispatch"
    <3>1. Decided = base /\ Decided' = base /\ Summed = base /\ Summed' = base
      BY <1>1, <1>3, <2>2 DEF Decided, Summed, TypeOK
    <3> QED
      BY <1>1, <1>2, <1>4, <2>2, <3>1 DEF BatchInv, Progress
  <2> QED
    BY <1>1, <2>1, <2>2
<1>9. Requests'
  BY <1>1, <1>2 DEF BatchInv, Requests, Asked, InChunk
<1> QED
  BY <1>5, <1>6, <1>7, <1>8, <1>9 DEF BatchInv

\* A dispatched segment decides its items and no other, or faults.
LEMMA SegmentStep ==
  ASSUME BatchInv, pc = "dispatch", NEW end \in Nat, offset < end, end <= Count,
         UNCHANGED <<cpu, tables, sightings, poolDirty, batch, profile, all, base, index, pre,
                     prepared, credits>>,
         \/ /\ Verdicts(Segment(offset, end)) /\ offset' = end /\ pc' = pc /\ worker' = worker
            /\ end < Full /\ PreferWarmX8IFMA /\ warmAllowed => end % X8 = 0
         \/ Faulted(Segment(offset, end)) /\ worker' \in {worker, "dirty"}
  PROVE  BatchInv'
<1> DEFINE seg == Segment(offset, end)
<1>1. /\ Size' = Size /\ Items' = Items /\ Count' = Count /\ Full' = Full
      /\ needsBatchWorker' = needsBatchWorker /\ \A i : Valid(i)' = Valid(i)
  BY SameInputs, SameChunk
<1>2. TypeOK /\ Items = 0 .. (Size - 1) /\ base <= Size /\ Count \in Nat
  BY ChunkShape DEF BatchInv, TypeOK, Position, InChunk, Items
<1>3. DOMAIN ok = Items /\ \A i \in Items : i \in Nat /\ ok[i] \in BOOLEAN /\ Valid(i) \in BOOLEAN
  BY <1>2 DEF TypeOK, Valid
<1>4. \A i \in Items : i < base + end => i < base + offset \/ i \in seg
  BY <1>2, <1>3 DEF TypeOK, Segment
<1> HIDE DEF seg
<1>5. CASE /\ Verdicts(seg) /\ offset' = end /\ pc' = pc /\ worker' = worker
           /\ end < Full /\ PreferWarmX8IFMA /\ warmAllowed => end % X8 = 0
  <2>1. ok' = [i \in Items |-> IF i \in seg THEN Valid(i) ELSE ok[i]]
    BY <1>3, <1>5 DEF Verdicts
  <2>2. ok' \in [Items -> BOOLEAN]
    BY <1>3, <2>1
  <2>3. TypeOK'
    BY <1>1, <1>2, <1>5, <2>2 DEF TypeOK
  <2>4. Position' /\ PoolClean' /\ WorkerAtHand'
    BY <1>1, <1>2, <1>5 DEF BatchInv, Position, PoolClean, WorkerAtHand, InChunk
  <2>5. Progress'
    <3>1. Decided = base + offset /\ Decided' = base + end /\ Summed = base /\ Summed' = base
      BY <1>5 DEF Decided, Summed
    <3>2. \A i \in Items : i < base + offset => (ok[i] <=> Valid(i))
      BY <3>1 DEF BatchInv, Progress
    <3>3. \A i \in Items : i < base + end => (ok'[i] <=> Valid(i))
      BY <1>3, <1>4, <2>1, <3>2
    <3>4. all' <=> \A i \in Items : i < base => Valid(i)
      BY <3>1 DEF BatchInv, Progress
    <3> QED
      BY <1>1, <3>1, <3>3, <3>4 DEF Progress
  <2>6. Requests'
    BY <1>1, <1>5 DEF BatchInv, Requests, Asked, InChunk
  <2>7. OnBoundary'
    BY <1>1, <1>5 DEF OnBoundary, PreferWarmX8IFMA, warmAllowed
  <2> QED
    BY <2>3, <2>4, <2>5, <2>6, <2>7 DEF BatchInv
<1>6. CASE Faulted(seg) /\ worker' \in {worker, "dirty"}
  <2>1. /\ ok' = [i \in Items |-> IF i \in seg THEN FALSE ELSE ok[i]]
        /\ pc' = "fault" /\ offset' = offset
    BY <1>3, <1>6 DEF Faulted
  <2>2. ok' \in [Items -> BOOLEAN]
    BY <1>3, <2>1
  <2>3. TypeOK'
    BY <1>1, <1>2, <1>6, <2>1, <2>2 DEF TypeOK, Labels
  <2>4. Position' /\ PoolClean' /\ WorkerAtHand' /\ OnBoundary' /\ Progress'
    BY <2>1 DEF BatchInv, Position, PoolClean, WorkerAtHand, OnBoundary, Progress, InChunk
  <2>5. Requests'
    BY <1>1, <2>1 DEF BatchInv, Requests, InChunk
  <2> QED
    BY <2>3, <2>4, <2>5 DEF BatchInv
<1> QED
  BY <1>5, <1>6 DEF seg

\* A run of warm groups is a segment.
LEMMA WarmStep ==
  ASSUME BatchInv, DispatchWarm
  PROVE  BatchInv'
<1> DEFINE end == WarmEnd(offset)
<1>1. /\ pc = "dispatch" /\ offset < Full /\ r51WarmDispatchWidth(offset, Full) # 0
      /\ UNCHANGED <<cpu, tables, sightings, poolDirty, batch, profile, all, base, index, pre,
                     prepared, worker, credits>>
      /\ \/ Verdicts(Segment(offset, end)) /\ offset' = end /\ UNCHANGED pc
         \/ Faulted(Segment(offset, end))
  BY DEF DispatchWarm, cacheVars, callVars
<1>2. Full \in Nat /\ Full <= Count /\ Count \in Nat /\ offset \in Nat
  BY <1>1, ChunkShape DEF BatchInv, TypeOK, Position, InChunk
<1>3. /\ end \in Nat /\ offset < end /\ end <= Full
      /\ PreferWarmX8IFMA => end = Full \/ end % X8 = 0
  BY <1>1, <1>2, WarmSegment
<1> HIDE DEF end
<1>4. end <= Count /\ (end < Full /\ PreferWarmX8IFMA /\ warmAllowed => end % X8 = 0)
  BY <1>2, <1>3
<1> QED
  BY <1>1, <1>3, <1>4, SegmentStep

\* A cold run is a segment.
LEMMA ColdStep ==
  ASSUME BatchInv, DispatchCold
  PROVE  BatchInv'
<1> DEFINE end == ColdEnd(offset, warmAllowed)
<1>1. /\ pc = "dispatch" /\ offset < Full
      /\ UNCHANGED <<cpu, tables, sightings, poolDirty, batch, profile, all, base, index, pre,
                     prepared, credits>>
      /\ \/ Verdicts(Segment(offset, end)) /\ offset' = end /\ UNCHANGED <<pc, worker>>
         \/ Faulted(Segment(offset, end)) /\ worker' = "dirty"
  BY DEF DispatchCold, cacheVars, callVars
<1>2. Full \in Nat /\ Full <= Count /\ Count \in Nat /\ Count <= MaxChunk /\ offset \in Nat
  BY <1>1, ChunkShape DEF BatchInv, TypeOK, Position, InChunk
<1>3. warmAllowed \in BOOLEAN /\ Full <= MaxChunk
  BY <1>2, R51BatchAssumption DEF warmAllowed, BatchInv, TypeOK
<1>4. /\ end \in Nat /\ offset < end /\ end <= Full
      /\ PreferWarmX8IFMA /\ warmAllowed => end = Full \/ end % X8 = 0
  BY <1>1, <1>2, <1>3, ColdSegment
<1> HIDE DEF end
<1>5. end <= Count /\ (end < Full /\ PreferWarmX8IFMA /\ warmAllowed => end % X8 = 0)
  BY <1>2, <1>4
<1> QED
  BY <1>1, <1>4, <1>5, SegmentStep

\* A part of the tail is a segment.
LEMMA TailStep ==
  ASSUME BatchInv, DispatchTail
  PROVE  BatchInv'
<1> DEFINE single == Tail = 1 \/ (strictPackedPair /\ ~PreferPackedPairX8IFMA)
           end == IF single THEN offset + 1 ELSE Count
<1>1. /\ pc = "dispatch" /\ offset >= Full /\ Count - offset > 0
      /\ UNCHANGED <<cpu, tables, sightings, poolDirty, batch, profile, all, base, index, pre,
                     prepared, credits>>
      /\ \/ Verdicts(Segment(offset, end)) /\ offset' = end /\ UNCHANGED <<pc, worker>>
         \/ Faulted(Segment(offset, end)) /\ worker' \in {worker, "dirty"}
  BY DEF DispatchTail, cacheVars, callVars
<1>2. Full \in Nat /\ Count \in Nat /\ offset \in Nat
  BY <1>1, ChunkShape DEF BatchInv, TypeOK, Position, InChunk
<1> HIDE DEF single
<1>3. end \in Nat /\ offset < end /\ end <= Count /\ ~(end < Full)
  BY <1>1, <1>2
<1> HIDE DEF end
<1> QED
  BY <1>1, <1>3, SegmentStep

\* Only a clean worker goes back to the pool, with every verdict of the chunk
\* in the conjunction.
LEMMA PutWorkerStep ==
  ASSUME BatchInv, PutWorker
  PROVE  BatchInv'
<1>1. /\ pc = "dispatch" /\ offset = Count /\ pc' = "admit"
      /\ index' = 0 /\ worker' = "none" /\ poolDirty' = (poolDirty \/ worker = "dirty")
      /\ all' = (all /\ \A i \in Live : ok[i])
      /\ UNCHANGED <<cpu, tables, sightings, batch, profile, ok, base, pre, prepared, offset, credits>>
  BY DEF PutWorker, cacheVars, callVars
<1>2. Size' = Size /\ Items' = Items /\ Count' = Count /\ \A i : Valid(i)' = Valid(i)
  BY <1>1, SameInputs, SameChunk
<1>3. /\ TypeOK /\ Items = 0 .. (Size - 1) /\ base <= Size
      /\ Count \in Nat /\ base + Count <= Size
  BY <1>1, ChunkShape DEF BatchInv, TypeOK, Position, InChunk, Items
<1>4. poolDirty' = FALSE
  <2>1. worker # "dirty" /\ poolDirty = FALSE
    BY <1>1, <1>3 DEF BatchInv, WorkerAtHand, PoolClean, TypeOK
  <2> QED
    BY <1>1, <2>1
<1>5. TypeOK'
  <2>1. all' \in BOOLEAN
    BY <1>1
  <2> QED
    BY <1>1, <1>2, <1>3, <1>4, <2>1 DEF TypeOK, Labels
<1>6. Position' /\ PoolClean' /\ WorkerAtHand' /\ OnBoundary'
  BY <1>1, <1>2, <1>3, <1>4 DEF Position, PoolClean, WorkerAtHand, OnBoundary, InChunk
<1>7. Progress'
  <2>1. Decided = base + Count /\ Summed = base /\ Decided' = base + Count /\ Summed' = base + Count
    BY <1>1, <1>2 DEF Decided, Summed
  <2>2. /\ \A i \in Items : i < base + Count => (ok[i] <=> Valid(i))
        /\ all <=> \A i \in Items : i < base => Valid(i)
    BY <1>1, <2>1 DEF BatchInv, Progress
  <2>3. Live = {i \in Items : base <= i /\ i < base + Count}
    BY <1>3 DEF Live, TypeOK
  <2>4. all' <=> all /\ \A i \in Items : base <= i /\ i < base + Count => ok[i]
    BY <1>1, <2>3
  <2>5. \A i \in Items : i < base + Count <=> i < base \/ (base <= i /\ i < base + Count)
    BY <1>3 DEF TypeOK
  <2>6. all' <=> \A i \in Items : i < base + Count => Valid(i)
    BY <2>2, <2>4, <2>5
  <2> QED
    BY <1>1, <1>2, <2>1, <2>2, <2>6 DEF Progress
<1>8. Requests'
  <2>1. Asked = base /\ Asked' = base
    BY <1>1, <1>3 DEF Asked, TypeOK
  <2> QED
    BY <1>1, <1>2, <2>1 DEF BatchInv, Requests, InChunk
<1> QED
  BY <1>5, <1>6, <1>7, <1>8 DEF BatchInv

\* The fallback decides every item and the whole conjunction anew, and drops
\* the worker.
LEMMA FallbackStep ==
  ASSUME BatchInv, Fallback
  PROVE  BatchInv'
<1>1. /\ pc = "fault" /\ pc' = "readmit" /\ index' = 0 /\ worker' = "none" /\ poolDirty' = poolDirty
      /\ ok' = [i \in DOMAIN ok |-> IF i \in DOMAIN ok THEN Valid(i) ELSE ok[i]]
      /\ all' = \A i \in DOMAIN ok : Valid(i)
      /\ UNCHANGED <<cpu, tables, sightings, batch, profile, base, pre, prepared, offset, credits>>
  BY DEF Fallback, FallbackItems, PoolAfterFault, cacheVars, callVars
<1>2. Size' = Size /\ Items' = Items /\ \A i : Valid(i)' = Valid(i)
  BY <1>1, SameInputs
<1>3. TypeOK /\ DOMAIN ok = Items /\ Items = 0 .. (Size - 1)
  BY DEF BatchInv, TypeOK, Items
<1>4. ok' \in [Items -> BOOLEAN] /\ (\A i \in Items : ok'[i] <=> Valid(i)) /\ all' \in BOOLEAN
  <2>1. \A i : Valid(i) \in BOOLEAN
    BY DEF Valid
  <2> QED
    BY <1>1, <1>3, <2>1
<1>5. all' <=> \A i \in Items : Valid(i)
  BY <1>1, <1>3
<1>6. TypeOK'
  BY <1>1, <1>2, <1>3, <1>4 DEF TypeOK, Labels
<1>7. Position' /\ PoolClean' /\ WorkerAtHand' /\ OnBoundary'
  BY <1>1, <1>2, <1>3 DEF BatchInv, TypeOK, Position, PoolClean, WorkerAtHand, OnBoundary, InChunk
<1>8. Progress'
  <2>1. Summed' = Size /\ \A i \in Items : i < Size
    BY <1>1, <1>2, <1>3 DEF Summed, TypeOK
  <2> QED
    BY <1>1, <1>2, <1>4, <1>5, <2>1 DEF Progress
<1>9. Requests'
  BY <1>1, <1>2 DEF BatchInv, Requests, InChunk
<1> QED
  BY <1>6, <1>7, <1>8, <1>9 DEF BatchInv

\* The tiers a step may give a key.
LEMMA CacheTypes ==
  ASSUME TypeOK, NEW k \in Keys
  PROVE  /\ admit(k) => tables' \in [Keys -> Tiers] /\ sightings' \in [Keys -> Nat]
         /\ promote(k) => tables' \in [Keys -> Tiers] /\ sightings' \in [Keys -> Nat]
<1>1. ASSUME admit(k), tables[k] # "none"
      PROVE  tables' \in [Keys -> Tiers] /\ sightings' \in [Keys -> Nat]
  BY <1>1 DEF TypeOK, admit
<1>2. ASSUME admit(k), tables[k] = "none"
      PROVE  tables' \in [Keys -> Tiers] /\ sightings' \in [Keys -> Nat]
  <2>1. /\ sightings' = [sightings EXCEPT ![k] = @ + 1]
        /\ \E t \in Tiers : tables' = [tables EXCEPT ![k] = t]
    BY <1>2 DEF admit, Tiers
  <2> QED
    BY <2>1 DEF TypeOK
<1>3. ASSUME promote(k)
      PROVE  tables' \in [Keys -> Tiers] /\ sightings' \in [Keys -> Nat]
  <2>1. \E t \in Tiers : tables' = tables \/ tables' = [tables EXCEPT ![k] = t]
    BY <1>3 DEF TypeOK, promote, Tiers
  <2> QED
    BY <1>3, <2>1 DEF TypeOK, promote
<1> QED
  BY <1>1, <1>2, <1>3

\* One turn of the admission loop: the request of one item.
LEMMA AdmitStep ==
  ASSUME BatchInv, Admit
  PROVE  BatchInv'
<1> DEFINE i == base + index
           k == batch[i].key
<1>1. /\ pc = "admit" /\ index < Count /\ index' = index + 1
      /\ UNCHANGED <<cpu, poolDirty, pc, batch, profile, ok, all, base, pre, prepared, offset, worker>>
  BY DEF Admit, callVars
<1>2. Size' = Size /\ Items' = Items /\ Count' = Count /\ \A j : Valid(j)' = Valid(j)
  BY <1>1, SameInputs, SameChunk
<1>3. /\ TypeOK /\ Items = 0 .. (Size - 1) /\ base <= Size
      /\ Count \in Nat /\ base + Count <= Size
  BY <1>1, ChunkShape DEF BatchInv, TypeOK, Position, InChunk, Items
<1>4. i \in Items /\ k \in Keys
  BY <1>1, <1>3 DEF TypeOK, Item
<1>5. /\ tables' \in [Keys -> Tiers] /\ sightings' \in [Keys -> Nat]
      /\ credits' = IF ok[i] /\ Miss(i) THEN [credits EXCEPT ![i] = @ + 1] ELSE credits
  <2>1. CASE ~ok[i]
    BY <1>3, <2>1 DEF Admit, cacheVars, TypeOK
  <2>2. CASE ok[i] /\ Miss(i)
    BY <1>3, <1>4, <2>2, CacheTypes DEF Admit
  <2>3. CASE ok[i] /\ ~Miss(i)
    BY <1>3, <1>4, <2>3, CacheTypes DEF Admit, TypeOK
  <2> QED
    BY <2>1, <2>2, <2>3
<1>6. ok[i] <=> Valid(i)
  <2>1. Decided = base + Count /\ i < base + Count
    BY <1>1, <1>3 DEF Decided, TypeOK
  <2> QED
    BY <1>1, <1>4, <2>1 DEF BatchInv, Progress
<1>7. /\ Asked = i /\ Asked' = i + 1 /\ i \in Nat
      /\ \A j \in Items : j \in Nat /\ (j < i + 1 <=> j < i \/ j = i)
  BY <1>1, <1>3 DEF Asked, TypeOK
<1> HIDE DEF i, k
<1>8. credits \in [Items -> Nat] /\ credits[i] = 0
  BY <1>1, <1>3, <1>4, <1>7 DEF BatchInv, TypeOK, Requests, InChunk
<1>9. credits' \in [Items -> Nat]
  BY <1>4, <1>5, <1>8
<1>10. TypeOK'
  BY <1>1, <1>2, <1>3, <1>5, <1>9 DEF TypeOK
<1>11. Position' /\ PoolClean' /\ WorkerAtHand' /\ OnBoundary'
  BY <1>1, <1>2, <1>3 DEF BatchInv, TypeOK, Position, PoolClean, WorkerAtHand, OnBoundary, InChunk
<1>12. Progress'
  BY <1>1, <1>2 DEF BatchInv, Progress, Decided, Summed
<1>13. Requests'
  <2>1. ASSUME NEW j \in Items
        PROVE  credits'[j] = IF j < i + 1 /\ Valid(j) /\ pre[j] = "none" THEN 1 ELSE 0
    <3>1. credits[j] = IF j < i /\ Valid(j) /\ pre[j] = "none" THEN 1 ELSE 0
      BY <1>1, <1>7 DEF BatchInv, Requests, InChunk
    <3>2. CASE j # i
      BY <1>5, <1>7, <1>8, <3>1, <3>2
    <3>3. CASE j = i
      BY <1>5, <1>6, <1>7, <1>8, <3>3 DEF Miss
    <3> QED
      BY <3>2, <3>3
  <2> QED
    BY <1>1, <1>2, <1>7, <2>1 DEF Requests, InChunk
<1> QED
  BY <1>10, <1>11, <1>12, <1>13 DEF BatchInv

\* The next chunk finds the previous ones decided, or the batch is.
LEMMA NextChunkStep ==
  ASSUME BatchInv, NextChunk
  PROVE  BatchInv'
<1>1. /\ pc = "admit" /\ index = Count
      /\ UNCHANGED <<cpu, tables, sightings, poolDirty, batch, profile, ok, all, pre, offset, worker,
                     credits>>
      /\ \/ /\ base + Count < Size
            /\ base' = base + Count /\ index' = 0 /\ prepared' = FALSE /\ pc' = "lookup"
         \/ base + Count = Size /\ pc' = "return" /\ UNCHANGED <<base, index, prepared>>
  BY DEF NextChunk, cacheVars, callVars
<1>2. Size' = Size /\ Items' = Items /\ \A i : Valid(i)' = Valid(i)
  BY <1>1, SameInputs
<1>3. /\ TypeOK /\ Items = 0 .. (Size - 1) /\ base <= Size
      /\ Count \in Nat /\ base + Count <= Size
  BY <1>1, ChunkShape DEF BatchInv, TypeOK, Position, InChunk, Items
<1>4. Decided = base + Count /\ Summed = base + Count /\ Asked = base + Count
  BY <1>1 DEF Decided, Summed, Asked
<1>5. TypeOK'
  <2>1. base' \in Nat /\ index' \in Nat /\ prepared' \in BOOLEAN /\ pc' \in Labels
    <3>1. CASE base' = base + Count /\ index' = 0 /\ prepared' = FALSE /\ pc' = "lookup"
      <4>1. base + Count \in Nat
        BY <1>3 DEF TypeOK
      <4>2. pc' \in Labels
        BY <3>1 DEF Labels
      <4> QED
        BY <3>1, <4>1, <4>2
    <3>2. CASE pc' = "return" /\ UNCHANGED <<base, index, prepared>>
      BY <1>3, <3>2 DEF TypeOK, Labels
    <3> QED
      BY <1>1, <3>1, <3>2
  <2>2. UNCHANGED <<cpu, tables, sightings, poolDirty, batch, profile, ok, all, pre, offset, worker,
                    credits>>
    BY <1>1
  <2> QED
    BY <1>2, <1>3, <2>1, <2>2 DEF TypeOK
<1>6. PoolClean' /\ WorkerAtHand' /\ OnBoundary'
  BY <1>1 DEF BatchInv, PoolClean, WorkerAtHand, OnBoundary
<1>7. CASE pc' = "lookup"
  <2>1. base' = base + Count /\ index' = 0 /\ base' <= Size'
    <3>1. ~(pc' = "return")
      BY <1>7
    <3> QED
      BY <1>1, <1>2, <1>3, <3>1
  <2>2. Count' \in Nat
    <3>1. (Size \in Nat /\ base \in Nat /\ base <= Size => Count \in Nat)'
      BY CountNatural, PTL
    <3> QED
      BY <1>5, <2>1, <3>1 DEF TypeOK
  <2>3. Position'
    BY <1>7, <2>1, <2>2 DEF Position, InChunk
  <2>4. Decided' = base + Count /\ Summed' = base + Count /\ Asked' = base + Count
    BY <1>7, <2>1 DEF Decided, Summed, Asked
  <2>5. Progress' /\ Requests'
    BY <1>1, <1>2, <1>4, <1>7, <2>4 DEF BatchInv, Progress, Requests, InChunk
  <2> QED
    BY <1>5, <1>6, <2>3, <2>5 DEF BatchInv
<1>8. CASE pc' = "return"
  <2>1. Decided' = base + Count /\ Summed' = base + Count
    BY <1>1, <1>2, <1>8 DEF Decided, Summed
  <2>2. Position' /\ Progress' /\ Requests'
    BY <1>1, <1>2, <1>4, <1>8, <2>1 DEF BatchInv, Position, Progress, Requests, InChunk
  <2> QED
    BY <1>5, <1>6, <2>2 DEF BatchInv
<1> QED
  BY <1>1, <1>7, <1>8

\* One turn of the admission loop after a fault.
LEMMA ReadmitStep ==
  ASSUME BatchInv, Readmit
  PROVE  BatchInv'
<1>1. /\ pc = "readmit"
      /\ UNCHANGED <<cpu, poolDirty, batch, profile, ok, all, base, pre, prepared, offset, worker>>
      /\ \/ index < Size /\ index' = index + 1 /\ pc' = pc
         \/ index = Size /\ index' = index /\ pc' = "return" /\ UNCHANGED <<cacheVars, credits>>
  BY DEF Readmit, callVars
<1>2. Size' = Size /\ Items' = Items /\ \A j : Valid(j)' = Valid(j)
  BY <1>1, SameInputs
<1>3. TypeOK /\ Items = 0 .. (Size - 1)
  BY DEF BatchInv, TypeOK, Items
<1>4. Decided = Size /\ Summed = Size /\ Decided' = Size /\ Summed' = Size
  BY <1>1, <1>2 DEF Decided, Summed
<1>5. /\ tables' \in [Keys -> Tiers] /\ sightings' \in [Keys -> Nat] /\ credits' \in [Items -> Nat]
      /\ \A j \in Items : credits'[j] > 0 => Valid(j)
  <2>1. CASE UNCHANGED <<cacheVars, credits>>
    BY <1>3, <2>1 DEF BatchInv, TypeOK, Requests, cacheVars
  <2>2. CASE /\ index < Size /\ ok[index] /\ admit(batch[index].key)
             /\ credits' = [credits EXCEPT ![index] = @ + 1]
    <3>1. index \in Items /\ batch[index].key \in Keys
      BY <1>3, <2>2 DEF TypeOK, Item
    <3>2. Valid(index)
      BY <1>1, <1>4, <2>2, <3>1 DEF BatchInv, Progress
    <3>3. tables' \in [Keys -> Tiers] /\ sightings' \in [Keys -> Nat]
      BY <1>3, <2>2, <3>1, CacheTypes
    <3>4. credits \in [Items -> Nat] /\ \A j \in Items : credits[j] > 0 => Valid(j)
      BY <1>3 DEF BatchInv, TypeOK, Requests
    <3>5. credits' \in [Items -> Nat]
      BY <2>2, <3>1, <3>4
    <3>6. \A j \in Items : credits'[j] > 0 => Valid(j)
      BY <2>2, <3>1, <3>2, <3>4
    <3> QED
      BY <3>3, <3>5, <3>6
  <2> QED
    BY <1>1, <2>1, <2>2 DEF Readmit
<1>6. TypeOK' /\ Position'
  BY <1>1, <1>2, <1>3, <1>5 DEF TypeOK, Position, InChunk, Labels
<1>7. PoolClean' /\ WorkerAtHand' /\ OnBoundary'
  BY <1>1 DEF BatchInv, PoolClean, WorkerAtHand, OnBoundary
<1>8. Progress'
  BY <1>1, <1>2, <1>4 DEF BatchInv, Progress
<1>9. Requests'
  BY <1>1, <1>2, <1>5 DEF Requests, InChunk
<1> QED
  BY <1>6, <1>7, <1>8, <1>9 DEF BatchInv

\* What other goroutines do to the cache leaves the call's invariant alone.
LEMMA OtherStep ==
  ASSUME BatchInv, NEW k \in Keys, OtherSuccess(k) \/ OtherPromotion(k)
  PROVE  BatchInv'
<1>1. UNCHANGED <<cpu, poolDirty, pc, batch, profile, ok, all, base, index, pre, prepared, offset,
                  worker, credits>>
  BY DEF OtherSuccess, OtherPromotion, callVars
<1>2. /\ Size' = Size /\ Items' = Items /\ Count' = Count /\ Full' = Full
      /\ needsBatchWorker' = needsBatchWorker /\ \A i : Valid(i)' = Valid(i)
  BY <1>1, SameInputs, SameChunk
<1>3. tables' \in [Keys -> Tiers] /\ sightings' \in [Keys -> Nat]
  <2>1. CASE OtherSuccess(k)
    BY <2>1, CacheTypes DEF BatchInv, OtherSuccess
  <2>2. CASE OtherPromotion(k)
    BY <2>2 DEF BatchInv, TypeOK, Tiers, OtherPromotion
  <2> QED
    BY <2>1, <2>2
<1>4. TypeOK' /\ Position' /\ PoolClean' /\ WorkerAtHand'
  BY <1>1, <1>2, <1>3 DEF BatchInv, TypeOK, Position, PoolClean, WorkerAtHand
<1>5. Progress'
  BY <1>1, <1>2 DEF BatchInv, Progress, Decided, Summed
<1>6. Requests'
  BY <1>1, <1>2 DEF BatchInv, Requests, Asked
<1>7. OnBoundary'
  BY <1>1, <1>2 DEF BatchInv, OnBoundary, PreferWarmX8IFMA, warmAllowed
<1> QED
  BY <1>4, <1>5, <1>6, <1>7 DEF BatchInv

\* A step that changes nothing keeps the invariant.
LEMMA StutterStep ==
  ASSUME BatchInv, UNCHANGED vars
  PROVE  BatchInv'
<1>1. UNCHANGED <<cpu, tables, sightings, poolDirty, pc, batch, profile, ok, all, base, index, pre,
                  prepared, offset, worker, credits>>
  BY DEF vars, cacheVars, callVars
<1>2. /\ Size' = Size /\ Items' = Items /\ Count' = Count /\ Full' = Full
      /\ needsBatchWorker' = needsBatchWorker /\ \A i : Valid(i)' = Valid(i)
  BY <1>1, SameInputs, SameChunk
<1>3. TypeOK' /\ Position' /\ PoolClean' /\ WorkerAtHand'
  BY <1>1, <1>2 DEF BatchInv, TypeOK, Position, PoolClean, WorkerAtHand
<1>4. Progress'
  BY <1>1, <1>2 DEF BatchInv, Progress, Decided, Summed
<1>5. Requests'
  BY <1>1, <1>2 DEF BatchInv, Requests, Asked
<1>6. OnBoundary'
  BY <1>1, <1>2 DEF BatchInv, OnBoundary, PreferWarmX8IFMA, warmAllowed
<1> QED
  BY <1>3, <1>4, <1>5, <1>6 DEF BatchInv

\* Every step keeps the invariant.
LEMMA BatchStep ==
  ASSUME BatchInv, [Next]_vars
  PROVE  BatchInv'
<1>1. CASE verifyBatchRawCached
  BY <1>1, CallStep
<1>2. CASE Lookup \/ Prepare \/ Enter
  BY <1>2, LookupStep, PrepareStep, EnterStep
<1>3. CASE DispatchWarm \/ DispatchCold \/ DispatchTail
  BY <1>3, WarmStep, ColdStep, TailStep
<1>4. CASE PutWorker \/ Fallback
  BY <1>4, PutWorkerStep, FallbackStep
<1>5. CASE Admit \/ NextChunk \/ Readmit \/ Return
  BY <1>5, AdmitStep, NextChunkStep, ReadmitStep, ReturnStep
<1>6. ASSUME NEW k \in Keys, OtherSuccess(k) \/ OtherPromotion(k)
      PROVE  BatchInv'
  BY <1>6, OtherStep
<1>7. CASE UNCHANGED vars
  BY <1>7, StutterStep
<1> QED
  BY <1>1, <1>2, <1>3, <1>4, <1>5, <1>6, <1>7 DEF Next, Call

\* The cursors, the worker and the verdicts and requests so far agree at every
\* step of a batch.
THEOREM BatchInvariant == Spec => []BatchInv
<1>1. Init => BatchInv
  BY BatchInit
<1>2. BatchInv /\ [Next]_vars => BatchInv'
  BY BatchStep
<1> QED
  BY <1>1, <1>2, PTL DEF Spec

-----------------------------------------------------------------------------
\* What the invariant gives.

\* For any batch, chunk size and lane width, wherever warm and cold segments
\* lie and whatever faults, verifyBatchRawCached returns exactly the verdict of
\* each item and their conjunction.
THEOREM VerdictsCorrect == Spec => []VerdictsExact
<1>1. BatchInv => VerdictsExact
  <2> SUFFICES ASSUME BatchInv, pc = "return"
               PROVE  /\ \A i \in DOMAIN batch : ok[i] = Valid(i)
                      /\ all = \A i \in DOMAIN batch : Valid(i)
    BY DEF VerdictsExact
  <2>1. Decided = Size /\ Summed = Size
    BY DEF Decided, Summed
  <2>2. DOMAIN batch = Items /\ \A i \in Items : i < Size
    BY DEF BatchInv, TypeOK, Items
  <2>3. /\ \A i \in Items : ok[i] <=> Valid(i)
        /\ all <=> \A i \in Items : Valid(i)
    BY <2>1, <2>2 DEF BatchInv, Progress
  <2>4. all \in BOOLEAN /\ \A i \in Items : ok[i] \in BOOLEAN /\ Valid(i) \in BOOLEAN
    BY DEF BatchInv, TypeOK, Valid
  <2>5. (\A i \in Items : Valid(i)) \in BOOLEAN
    OBVIOUS
  <2> QED
    BY <2>2, <2>3, <2>4, <2>5
<1> QED
  BY <1>1, BatchInvariant, PTL

\* The width and table checks of verifyWarmGroups never fail: a warm segment is
\* not empty, fits the chunk, and every group in it has its tables; CPUs that
\* prefer x8 groups always resume on an x8 boundary.
THEOREM WarmSegmentsCorrect == Spec => []WarmSegmentsSound
<1>1. BatchInv => WarmSegmentsSound
  <2> SUFFICES ASSUME BatchInv, pc = "dispatch", offset < Full
               PROVE  /\ warmAllowed /\ r51WarmDispatchWidth(offset, Full) # 0 =>
                           LET end == WarmEnd(offset) IN
                             /\ end > offset /\ end <= Full /\ end - offset <= MaxChunk
                             /\ \A o \in offset .. (end - 1) :
                                  (o - offset) % X4 = 0 => r51WarmGroupAvailable(o)
                      /\ PreferWarmX8IFMA /\ warmAllowed => offset % X8 = 0
    BY DEF WarmSegmentsSound
  <2>1. /\ offset \in Nat /\ Full \in Nat /\ Full <= MaxChunk /\ MaxChunk \in Nat
    BY ChunkShape, R51BatchAssumption DEF BatchInv, TypeOK, Position, InChunk
  <2>2. ASSUME r51WarmDispatchWidth(offset, Full) # 0
        PROVE  /\ WarmEnd(offset) \in Nat /\ offset < WarmEnd(offset) /\ WarmEnd(offset) <= Full
               /\ \A o \in offset .. (WarmEnd(offset) - 1) :
                    (o - offset) % X4 = 0 => r51WarmGroupAvailable(o)
    BY <2>1, <2>2, WarmSegment
  <2>3. ASSUME r51WarmDispatchWidth(offset, Full) # 0
        PROVE  WarmEnd(offset) > offset /\ WarmEnd(offset) - offset <= MaxChunk
    BY <2>1, <2>2, <2>3
  <2>4. PreferWarmX8IFMA /\ warmAllowed => offset % X8 = 0
    BY DEF BatchInv, OnBoundary
  <2> QED
    BY <2>2, <2>3, <2>4
<1> QED
  BY <1>1, BatchInvariant, PTL

\* No worker that faulted is ever put back into a pool.
THEOREM PoolNeverDirty == Spec => []PoolClean
<1>1. BatchInv => PoolClean
  BY DEF BatchInv
<1> QED
  BY <1>1, BatchInvariant, PTL

\* A segment that needs the batch pipeline finds a worker: the pointer that
\* verifyBatchRawPrecomputedErr leaves nil for narrow batches is never followed.
THEOREM PipelineHasWorker ==
  Spec => [](pc = "dispatch" /\ (offset < Full \/ (Tail > 1 /\ ~strictPackedPair))
               => worker = "clean")
<1>1. BatchInv => (pc = "dispatch" /\ (offset < Full \/ (Tail > 1 /\ ~strictPackedPair))
                     => worker = "clean")
  <2> SUFFICES ASSUME BatchInv, pc = "dispatch", offset < Full \/ (Tail > 1 /\ ~strictPackedPair)
               PROVE  worker = "clean"
    OBVIOUS
  <2>1. offset \in Nat /\ Full \in Nat
    BY ChunkShape DEF BatchInv, TypeOK, Position, InChunk
  <2>2. needsBatchWorker
    BY <2>1 DEF needsBatchWorker
  <2> QED
    BY <2>2 DEF BatchInv, WorkerAtHand
<1> QED
  BY <1>1, BatchInvariant, PTL

\* An invalid item never asks for admission, on any path; until a fault every
\* valid miss has asked exactly once and no hit has.
THEOREM CreditsCorrect == Spec => []CreditsExact
<1>1. BatchInv => CreditsExact
  <2> SUFFICES ASSUME BatchInv
               PROVE  CreditsExact
    OBVIOUS
  <2>1. \A i \in DOMAIN batch : credits[i] > 0 => Valid(i)
    BY DEF BatchInv, Requests, Items
  <2>2. ASSUME pc = "admit", NEW i \in 0 .. (base + index - 1)
        PROVE  credits[i] = IF Valid(i) /\ pre[i] = "none" THEN 1 ELSE 0
    <3>1. /\ base + Count <= Size /\ index <= Count /\ Count \in Nat /\ base \in Nat /\ index \in Nat
          /\ Size \in Nat /\ Items = 0 .. (Size - 1)
      BY <2>2, ChunkShape DEF BatchInv, TypeOK, Position, InChunk, Items
    <3>2. i \in Items /\ i < base + index
      BY <3>1
    <3>3. Asked = base + index
      BY <2>2 DEF Asked
    <3> QED
      BY <2>2, <3>2, <3>3 DEF BatchInv, Requests, InChunk
  <2> QED
    BY <2>1, <2>2 DEF CreditsExact
<1> QED
  BY <1>1, BatchInvariant, PTL
=============================================================================
