------------------------------- MODULE BatchQ -------------------------------
(***************************************************************************)
(* The r51 batch pipeline (ed25519/backend_r51batchq.go).  A worker owns   *)
(* fixed scratch that survives from chunk to chunk and from call to call.  *)
(* A chunk is cleared, its keys are decoded (misses packed into full       *)
(* decode groups, then scattered), its groups are evaluated by x8 or x4    *)
(* kernels, and one finalizer encodes all points and writes the verdicts   *)
(* of the active lanes.                                                    *)
(*                                                                         *)
(* The lanes of all groups are flattened: position X4 * group + lane.  A   *)
(* point is what the finalizer would find: TRUE if it encodes to the R of  *)
(* the signatures, which all items share, so that a stale or misplaced     *)
(* good point is accepted wherever it is left.                             *)
(***************************************************************************)
EXTENDS Integers, FiniteSets, FiniteSetsExt, Sequences, SequencesExt

CONSTANTS
  X4,          \* r51x5.X4Lanes; X8Lanes is twice that
  MaxChunk,    \* r51BatchQMaxChunk
  EncodeMin,   \* r51BatchEncodeX8MinCount
  Configs,     \* the pipelines the constructors build
  Batches,     \* the batches of the call under study: functions 0..n-1 -> Item
  Warmups,     \* the batches of the calls before it
  MaxCalls     \* bound on the calls of one worker

X8 == 2 * X4

\* An item is rejected by the byte rules, has a key that does not decode, or
\* reaches the equation, which holds or not.  Its decoded-A entry is missing,
\* of exactly its key bytes, or of other bytes; an entry is of bytes that decode.
Item == {x \in [kind : {"good", "bad", "rejected", "undecodable"}, entry : {"none", "hit", "other"}] :
           x.kind = "undecodable" => x.entry # "hit"}

Config == [wide : BOOLEAN, encodeX8 : BOOLEAN, partialTail : BOOLEAN,
           finalizer : {"literal", "yFirst"}]

ASSUME BatchQAssumption ==
  /\ X4 \in Nat \ {0} /\ MaxChunk \in Nat \ {0} /\ MaxChunk % X8 = 0
  /\ EncodeMin \in Nat /\ MaxCalls \in Nat
  /\ Configs \subseteq Config
  /\ \A b \in Batches \cup Warmups :
       IsFiniteSet(DOMAIN b) /\ b \in [0 .. (Cardinality(DOMAIN b) - 1) -> Item]

VARIABLES
  config,                     \* constant: the pipeline's fields
  calls, pc,
  batch, withDecoded, compact, ok,   \* the call
  offset, relative,           \* chunk and position in the chunk
  points, active,             \* x4 finalizer scratch
  pointsX8, activeX8, directX8, encodeX8,   \* x8 finalizer scratch
  decodedA, decodedS,         \* decodedAPoints(X8), decodedAScalars: the item each came from
  missA, missLanes, missCount,  \* decodedAMissBytes, decodedAMissLanes
  live                        \* result of the prepare phase

callVars == <<config, calls, batch, withDecoded, compact>>
finalVars == <<points, active, pointsX8, activeX8, directX8, encodeX8>>
decodeVars == <<decodedA, decodedS, missA, missLanes, missCount, live>>
vars == <<callVars, pc, ok, offset, relative, finalVars, decodeVars>>

Positions == 0 .. (MaxChunk - 1)
Lanes == 0 .. (X8 - 1)
Old == -1                      \* scratch of an earlier batch, or cleared
Alien == -2                    \* the point of another key
NoBatch == [i \in {} |-> FALSE]

Size == Cardinality(DOMAIN batch)

Count == Min({Size - offset, MaxChunk})
Ceil(n, w) == ((n + w - 1) \div w) * w
WideCount == Count - (Count % X8)

\* The chunk takes the path of evaluateColdWideChunk, which decodes in place.
coldWide == config.wide /\ compact /\ ~withDecoded

prepareR51Signature(i) == batch[i].kind # "rejected"
Decodes(i) == batch[i].kind # "undecodable"

\* entry.raw == *pubs[index].
Hit(i) == batch[i].entry = "hit"
EntryPoint(i) == IF batch[i].entry = "hit" THEN i ELSE Alien

\* [s]B - [k]A for the A, s and k of three items: does it encode to R?
Equation(a, s, k) == a = s /\ s = k /\ a \in DOMAIN batch /\ batch[a].kind = "good"

-----------------------------------------------------------------------------

Init ==
  /\ config \in Configs
  /\ calls = 0 /\ pc = "idle" /\ batch = NoBatch
  /\ withDecoded = FALSE /\ compact = TRUE /\ ok = NoBatch
  /\ offset = 0 /\ relative = 0
  /\ points = [p \in Positions |-> FALSE] /\ active = {}
  /\ pointsX8 = [p \in Positions |-> FALSE] /\ activeX8 = {} /\ directX8 = {}
  /\ encodeX8 = FALSE
  /\ decodedA = [p \in Positions |-> Old] /\ decodedS = [p \in Positions |-> Old]
  /\ missA = [m \in Lanes |-> Old] /\ missLanes = [m \in Lanes |-> 0] /\ missCount = 0
  /\ live = {}

\* VerifyBatch, verifyBatchWithDecodedA and its uncompacted form: the verdicts
\* are cleared before the first chunk.
verifyBatchWithDecodedAMode ==
  /\ pc = "idle" /\ calls < MaxCalls
  /\ calls' = calls + 1
  /\ batch' \in IF calls' < MaxCalls THEN Warmups ELSE Batches
  /\ withDecoded' \in BOOLEAN
  /\ compact' \in BOOLEAN
  /\ ok' = [i \in DOMAIN batch' |-> FALSE]
  /\ offset' = 0 /\ relative' = 0
  /\ decodedA' = [p \in Positions |-> Old] /\ decodedS' = [p \in Positions |-> Old]
  /\ missA' = [m \in Lanes |-> Old]
  /\ pc' = "chunk"
  /\ UNCHANGED <<config, finalVars, missLanes, missCount, live>>

\* Mutant: the x8 finalizer flags of the last chunk are kept.
DirectKept == directX8

DirectReset == IF config.encodeX8 THEN {} ELSE directX8

\* The groups a chunk clears.
Cleared == Ceil(Count, X4)

\* verifyChunk clears the scratch of its own groups and nothing else.
BeginChunk ==
  /\ pc = "chunk" /\ offset < Size
  /\ points' = [p \in Positions |-> IF p < Cleared THEN FALSE ELSE points[p]]
  /\ active' = {p \in active : p >= Cleared}
  /\ encodeX8' = (config.encodeX8 /\ Count >= EncodeMin)
  /\ directX8' = DirectReset
  /\ LET wide == Ceil(Cleared, X8) IN
       /\ pointsX8' = [p \in Positions |-> IF encodeX8' /\ p < wide THEN FALSE ELSE pointsX8[p]]
       /\ activeX8' = IF encodeX8' THEN {p \in activeX8 : p >= wide} ELSE activeX8
  /\ relative' = 0 /\ live' = {} /\ missCount' = 0
  /\ IF compact /\ ~coldWide
     THEN /\ pc' = "prepare"
          /\ decodedA' = [p \in Positions |-> IF p < Cleared THEN Old ELSE decodedA[p]]
     ELSE pc' = "evaluate" /\ UNCHANGED decodedA
  /\ UNCHANGED <<callVars, ok, offset, decodedS, missA, missLanes>>

-----------------------------------------------------------------------------
\* The compacted decode phase.

\* Full x8 decode groups only for the wide part of a wide pipeline.
DecodeWidth(r) == IF config.wide /\ r < WideCount THEN X8 ELSE X4

\* The lane a packed decode belongs to.
Scatter(m) == missLanes'[m]

\* decodePreparedAMisses(X8): decode the packed keys, scatter the valid ones.
DecodeMisses(n, hits) ==
  LET valid == {m \in 0 .. (n - 1) : missA'[m] \in DOMAIN batch /\ Decodes(missA'[m])}
      lanes == {Scatter(m) : m \in valid}
  IN  /\ decodedA' = [p \in Positions |->
                       IF p \in lanes
                       THEN missA'[CHOOSE m \in valid : Scatter(m) = p]
                       ELSE decodedA[p]]
      /\ live' = live \cup hits \cup lanes
      /\ missCount' = 0

\* One iteration of the loops of prepareDecodedAChunk and
\* prepareDecodedAWideChunk.
PrepareItem ==
  LET i == offset + relative IN
  /\ pc = "prepare" /\ relative < Count
  /\ ~(config.wide /\ relative = WideCount /\ missCount > 0)
  /\ relative' = relative + 1
  /\ \/ /\ ~prepareR51Signature(i)
        /\ UNCHANGED decodeVars
     \/ /\ prepareR51Signature(i) /\ withDecoded /\ Hit(i)
        /\ decodedS' = [decodedS EXCEPT ![relative] = i]
        /\ decodedA' = [decodedA EXCEPT ![relative] = EntryPoint(i)]
        /\ live' = live \cup {relative}
        /\ UNCHANGED <<missA, missLanes, missCount>>
     \/ /\ prepareR51Signature(i) /\ ~(withDecoded /\ Hit(i))
        /\ decodedS' = [decodedS EXCEPT ![relative] = i]
        /\ missA' = [missA EXCEPT ![missCount] = i]
        /\ missLanes' = [missLanes EXCEPT ![missCount] = relative]
        /\ IF missCount + 1 = DecodeWidth(relative) THEN DecodeMisses(missCount + 1, {})
           ELSE missCount' = missCount + 1 /\ UNCHANGED <<decodedA, live>>
  /\ UNCHANGED <<callVars, pc, ok, offset, finalVars>>

\* The decode of a group that is not full, after the wide part and at the end.
PrepareRest ==
  /\ pc = "prepare"
  /\ relative = Count \/ (config.wide /\ relative = WideCount /\ missCount > 0)
  /\ UNCHANGED <<missA, missLanes>>
  /\ IF missCount > 0 THEN DecodeMisses(missCount, {})
     ELSE UNCHANGED <<decodedA, live, missCount>>
  /\ IF relative = Count THEN pc' = "evaluate" /\ relative' = 0
     ELSE UNCHANGED <<pc, relative>>
  /\ UNCHANGED <<callVars, ok, offset, finalVars, decodedS>>

-----------------------------------------------------------------------------
\* Group evaluation.  A group is the lanes base .. base + n - 1 of the chunk.

\* The lane of the d-th compacted digest.
ChallengeLane(lanes, d) == lanes[d]

\* reduceR51NativeChallengesX8: the live lanes are hashed in compact form, their
\* order kept in lanes; the result names the item whose challenge each lane
\* received.
reduceChallenges(laneSet) ==
  LET lanes == SetToSeq(laneSet)
  IN  [p \in Positions |->
         LET d == {e \in DOMAIN lanes : ChallengeLane(lanes, e) = p}
         IN  IF d = {} THEN Old ELSE offset + lanes[Max(d)]]

Group(n) == relative .. (relative + Min({n, Count - relative}) - 1)
Prepared(lanes) == {p \in lanes : prepareR51Signature(offset + p)}

\* The A of a lane that was decoded in place, or taken from its entry.
InPlace(p) == IF withDecoded /\ ~compact /\ Hit(offset + p)
              THEN EntryPoint(offset + p) ELSE offset + p
LiveInPlace(lanes) ==
  {p \in Prepared(lanes) : (withDecoded /\ ~compact /\ Hit(offset + p)) \/ Decodes(offset + p)}

\* The kernels compute every lane of a group; a lane that is not live may hold
\* any point, and the worst is one that encodes to R.
Value(p, laneSet, A, S) ==
  p \notin laneSet \/ Equation(A[p], S[p], reduceChallenges(laneSet)[p])

\* storeWideFinalizerPoint: one x8 result, to the x8 scratch or split in two.
StoreWide(laneSet, A, S) ==
  LET all == relative .. (relative + X8 - 1)
      put(f) == [p \in Positions |-> IF p \in all THEN Value(p, laneSet, A, S) ELSE f[p]]
  IN  IF encodeX8
      THEN /\ pointsX8' = put(pointsX8)
           /\ activeX8' = (activeX8 \ all) \cup laneSet
           /\ directX8' = directX8 \cup {relative \div X8}
           /\ UNCHANGED <<points, active>>
      ELSE /\ points' = put(points)
           /\ active' = (active \ all) \cup laneSet
           /\ UNCHANGED <<pointsX8, activeX8, directX8>>

\* The loop over the halves of a two-x4 group: halves without a live lane are
\* skipped and stay cleared.
StoreHalves(laneSet, A, S) ==
  LET half(p) == p \div X4
      used == {half(p) : p \in laneSet}
  IN  /\ points' = [p \in Positions |->
                      IF half(p) \in used THEN Value(p, laneSet, A, S) ELSE points[p]]
      /\ active' = {p \in active : half(p) \notin used} \cup laneSet
      /\ UNCHANGED <<pointsX8, activeX8, directX8>>

EvaluateStep(n) ==
  /\ pc = "evaluate" /\ relative < Count
  /\ relative' = relative + n
  /\ UNCHANGED <<callVars, pc, ok, offset, encodeX8, decodeVars>>

ItemOf == [p \in Positions |-> offset + p]
x8Group == relative < WideCount
           \/ (config.partialTail /\ coldWide /\ Count - relative >= X4)

\* evaluateColdWideChunk, evaluateX8Group: decode in place, x8 kernels.
evaluateX8Group ==
  /\ coldWide /\ x8Group
  /\ EvaluateStep(X8)
  /\ LET on == LiveInPlace(Group(X8)) IN
       IF on = {} THEN UNCHANGED <<points, active, pointsX8, activeX8, directX8>>
       ELSE StoreWide(on, ItemOf, ItemOf)

\* evaluateTwoX4Group and its uncompacted form with decoded entries.
evaluateTwoX4Group ==
  /\ (coldWide /\ ~x8Group) \/ ~compact
  /\ EvaluateStep(X8)
  /\ LET on == LiveInPlace(Group(X8)) IN
       StoreHalves(on, [p \in Positions |-> IF p \in on THEN InPlace(p) ELSE Old], ItemOf)

\* evaluatePreparedX8Group: the wide part of a prepared chunk.
evaluatePreparedX8Group ==
  /\ config.wide /\ withDecoded /\ compact /\ x8Group
  /\ EvaluateStep(X8)
  /\ LET on == live \cap (relative .. (relative + X8 - 1)) IN
       IF on = {} THEN UNCHANGED <<points, active, pointsX8, activeX8, directX8>>
       ELSE StoreWide(on, decodedA, decodedS)

\* evaluatePreparedTwoX4Group: a narrow pipeline, or the tail of a wide one.
evaluatePreparedTwoX4Group ==
  /\ compact /\ ~coldWide /\ ~(config.wide /\ x8Group)
  /\ EvaluateStep(X8)
  /\ StoreHalves(live \cap Group(X8), decodedA, decodedS)

-----------------------------------------------------------------------------
\* The finalizers.

\* The x8 masks after the x4 groups were joined in pairs; groups that x8
\* kernels stored directly are left alone.
JoinedActive ==
  {p \in active : p < Cleared /\ p \div X8 \notin directX8}
    \cup {p \in activeX8 : p \div X8 \in directX8}

JoinedPoint(p) ==
  IF p \div X8 \in directX8 THEN pointsX8[p] ELSE p < Cleared /\ points[p]

FinalMask == IF encodeX8 THEN JoinedActive ELSE active
FinalPoint(p) == IF encodeX8 THEN JoinedPoint(p) ELSE points[p]

\* Encode every active point and compare with the signature's R.  The literal
\* finalizer writes the active lanes; the y-first one writes every lane.
Finalize ==
  /\ pc = "evaluate" /\ relative >= Count
  /\ ok' = [i \in DOMAIN ok |->
              LET p == i - offset IN
                IF p \in 0 .. (Count - 1) /\ p \in FinalMask THEN FinalPoint(p)
                ELSE IF p \in 0 .. (Count - 1) /\ config.finalizer = "yFirst" THEN FALSE
                ELSE ok[i]]
  /\ IF encodeX8
     THEN /\ pointsX8' = [p \in Positions |-> IF p < Ceil(Cleared, X8) THEN JoinedPoint(p) ELSE pointsX8[p]]
          /\ activeX8' = {p \in activeX8 : p >= Ceil(Cleared, X8)} \cup JoinedActive
     ELSE UNCHANGED <<pointsX8, activeX8>>
  /\ offset' = offset + Count
  /\ pc' = "chunk"
  /\ relative' = 0
  /\ UNCHANGED <<callVars, points, active, directX8, encodeX8, decodeVars>>

\* The chunk loop is done.
Return ==
  /\ pc = "chunk" /\ offset = Size
  /\ pc' = "returned"
  /\ UNCHANGED <<callVars, ok, offset, relative, finalVars, decodeVars>>

\* Mutant: the verdicts of chunks that were finished stay.
ClearedChunk == {i \in DOMAIN ok : i >= offset}

ClearedVerdicts == DOMAIN ok

\* A kernel error in any phase clears every verdict of the call; the caller
\* drops the worker.
KernelError ==
  /\ pc \in {"prepare", "evaluate"}
  /\ pc' = "failed"
  /\ ok' = [i \in DOMAIN ok |-> IF i \in ClearedVerdicts THEN FALSE ELSE ok[i]]
  /\ UNCHANGED <<callVars, offset, relative, finalVars, decodeVars>>

\* The caller takes the verdicts; a worker that failed is never used again.
Consume ==
  /\ pc \in {"returned", "failed"}
  /\ pc' = "idle"
  /\ calls' = IF pc = "failed" THEN MaxCalls ELSE calls
  /\ batch' = NoBatch /\ ok' = NoBatch /\ offset' = 0 /\ relative' = 0
  /\ withDecoded' = FALSE /\ compact' = TRUE
  /\ UNCHANGED <<config, finalVars, decodeVars>>

Next ==
  \/ verifyBatchWithDecodedAMode \/ BeginChunk \/ PrepareItem \/ PrepareRest
  \/ evaluateX8Group \/ evaluateTwoX4Group
  \/ evaluatePreparedX8Group \/ evaluatePreparedTwoX4Group
  \/ Finalize \/ Return \/ KernelError \/ Consume

Spec == Init /\ [][Next]_vars

-----------------------------------------------------------------------------
\* When a chunk reaches its finalizer, the lanes of its items whose mask is set
\* are exactly those of the items that passed the byte rules and whose key
\* decodes (or was found decoded): no lane is lost by compaction, and no mask
\* of an earlier chunk or call survives (backend_r51batchq.go:288-314, 383-396).
MasksExact ==
  pc = "evaluate" /\ relative >= Count =>
    FinalMask \cap (0 .. (Count - 1)) =
      {p \in 0 .. (Count - 1) : batch[offset + p].kind \in {"good", "bad"}}

\* A lane that the decode phase reports live holds the A and the S of its own
\* item, through packing, scattering and the two decode widths
\* (backend_r51batchq.go:884-920).
DecodedLanesOwn ==
  pc \in {"prepare", "evaluate"} =>
    \A p \in live : /\ decodedA[p] = offset + p
                    /\ decodedS[p] = offset + p

\* A chunk reaches its finalizer with exactly the lanes of the items that
\* passed the byte rules and whose key decodes, each holding the A and the S of
\* its own item: compaction and scattering lose and exchange no lane, and no
\* mask of an earlier chunk or call survives (backend_r51batchq.go).
LanesExact == MasksExact /\ DecodedLanesOwn

-----------------------------------------------------------------------------
\* The pipeline as a batch verifier: the internal steps of a call are hidden,
\* and so are the verdicts until it ends.
Accepts(item) == item.kind = "good"
Verdicts(b) == [i \in DOMAIN b |-> Accepts(b[i])]
NoneTrue(b) == [i \in DOMAIN b |-> FALSE]
phase == IF pc \in {"chunk", "prepare", "evaluate"} THEN "called" ELSE pc
Contract == INSTANCE BatchContract WITH
  Batches <- Batches \cup Warmups, Correct <- Verdicts, Failed <- NoneTrue,
  request <- batch, verdicts <- IF pc \in {"returned", "failed"} THEN ok ELSE NoBatch

\* A call answers for every item as that item alone deserves, or fails and then
\* no verdict is true: no neighbour, no earlier group, chunk or call, and no
\* scratch that a failure left behind shows.
ImplementsContract == Contract!Spec
=============================================================================
