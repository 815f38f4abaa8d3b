----------------------------- MODULE MCVerifiers ----------------------------
(***************************************************************************)
(* Four batch verifiers, each shown to implement BatchContract: the lane   *)
(* pipeline of module BatchQ and the verifier over per-key tables of       *)
(* module WarmComb, the complete r51 cores (R51Pipeline) and the pair in   *)
(* one register (PackedPair); and the builder of the per-key tables of     *)
(* module CombBuild.  A behaviour uses one of them; the variables of the   *)
(* others stay idle, and the last three verifiers share those of one       *)
(* meaning.                                                                *)
(***************************************************************************)
EXTENDS BatchQ, WarmComb, CombBuild

VARIABLES
  verifier, position,
  kind, encodedQReference, profile,               \* R51Pipeline
  digest, pair, ready, decoded, tables, wide, q   \* PackedPair

coreVars == <<kind, encodedQReference, profile>>
combVars == <<keys, form, pubs, worker, group>>
pairVars == <<digest, pair, ready, decoded, tables, wide, q>>

-----------------------------------------------------------------------------
\* BatchQ: lanes of 2 and 4, chunks of 8; a worker with used scratch, then one
\* call of every kind.  The registered workers of three CPU generations, and
\* the reference pipelines of the differential tests.
Pipeline(wideLanes, x8, tail, finalizer) ==
  [wide |-> wideLanes, encodeX8 |-> x8, partialTail |-> tail, finalizer |-> finalizer]
Pipelines ==
  {Pipeline(FALSE, FALSE, FALSE, "literal"), Pipeline(TRUE, FALSE, FALSE, "literal"),
   Pipeline(TRUE, TRUE, FALSE, "literal"), Pipeline(TRUE, TRUE, TRUE, "literal"),
   Pipeline(TRUE, FALSE, TRUE, "yFirst")}

\* n good items; the items of hits are cached; those of special are x.
LaneBatch(n, hits, special, x) ==
  [i \in 0 .. (n - 1) |->
     IF i \in special THEN x ELSE [kind |-> "good", entry |-> IF i \in hits THEN "hit" ELSE "none"]]
Special ==
  {[kind |-> "bad", entry |-> "none"], [kind |-> "bad", entry |-> "hit"],
   [kind |-> "good", entry |-> "other"], [kind |-> "rejected", entry |-> "hit"],
   [kind |-> "undecodable", entry |-> "other"]}
Hits == {{}, {0, 1, 2, 5, 8}}
LaneBatches ==
  {LaneBatch(n, h, {}, 0) : n \in {0, 5, 8}, h \in Hits}
  \cup {LaneBatch(n, h, {i, i + 2}, x) : n \in {3, 6, 7, 10}, h \in Hits, i \in 0 .. 8, x \in Special}
FirstBatches == {LaneBatch(8, {0, 1, 2, 5}, {}, 0), LaneBatch(7, {}, {3}, [kind |-> "bad", entry |-> "none"])}

\* R51Pipeline: up to four x4 groups with up to two kinds besides good.
Kinds == {"good", "bad", "badR", "alias", "weak", "scalar", "badA"}
CoreBatches ==
  {[i \in 0 .. (n - 1) |-> IF i = a THEN x ELSE IF i = c THEN y ELSE "good"] :
     n \in {0, 1, 4, 5, 7}, a \in 0 .. 6, c \in {0, 2, 5}, x \in Kinds, y \in {"bad", "badA", "alias"}}
Core == INSTANCE R51Pipeline WITH
  X4 <- 2, Batches <- CoreBatches, pc <- step, ok <- answer, batch <- items, offset <- position

\* WarmComb: two lanes, two groups; two points, one of them under two
\* encodings, a key of small order and one that does not decode.
WarmPoint == [r \in {"a", "b", "bAlias", "torsion", "junk"} |->
  CASE r = "a" -> "A" [] r \in {"b", "bAlias"} -> "B" [] r = "torsion" -> "T" [] OTHER -> "none"]
Two(x, y) == [l \in {0, 1} |-> IF l = 0 THEN x ELSE y]
KeyGroups == {Two("a", "b"), Two("bAlias", "bAlias"), Two("a", "torsion"), Two("junk", "b")}
KeyLists ==
  {Two("a", "a"), [i \in 0 .. 3 |-> IF i \in {0, 3} THEN "b" ELSE "a"], Two("b", "torsion")}
WarmSig(point, raw, rule) == [point |-> point, raw |-> raw, rule |-> rule]
WarmItem(pub, key, sig) == [pub |-> pub, key |-> key, sig |-> sig]
\* Each fails one condition: the rules, the object, its binding, the bytes
\* hashed, the point.
WarmItems ==
  {WarmItem("b", "b", WarmSig("B", "b", "scalar")), WarmItem("b", "nil", WarmSig("B", "b", "ok")),
   WarmItem("b", "a", WarmSig("A", "b", "ok")), WarmItem("bAlias", "b", WarmSig("B", "bAlias", "ok")),
   WarmItem("b", "b", WarmSig("B", "a", "ok")), WarmItem("a", "a", WarmSig("B", "a", "ok"))}
WarmGood(r) == WarmItem(r, r, WarmSig(WarmPoint[r], r, "ok"))
\* The slice of verdicts comes clear, or with the verdicts of an earlier call.
Holding(b, held) == [i \in DOMAIN b |-> [pub |-> b[i].pub, key |-> b[i].key, sig |-> b[i].sig, held |-> held]]
WarmCalls ==
  {[i \in 0 .. (n - 1) |-> IF i = at THEN item ELSE WarmGood(IF i % 3 = 0 THEN "b" ELSE "a")] :
     n \in {2, 4}, at \in {0, 3}, item \in WarmItems}
  \cup {[i \in 0 .. (n - 1) |-> WarmGood("a")] : n \in {0, 2, 3, 6}}
  \cup {[i \in 0 .. 1 |-> WarmGood(IF i = 0 THEN "bAlias" ELSE "b")]}
WarmBatches == {Holding(b, held) : b \in WarmCalls, held \in BOOLEAN}

\* CombBuild: the same keys; two rows of three entries, two doublings between
\* the rows, and a verifier whose second group cannot be decoded.  Over the
\* field of seven elements the additions leave a different Z in every entry, or
\* a zero in one lane of the third.
BuildLists ==
  KeyLists \cup {[i \in 0 .. 3 |-> IF i = 3 THEN "junk" ELSE "b"], [i \in 0 .. 3 |-> "b"]}
TableZ ==
  {[i \in 0 .. 5 |-> [l \in {0, 1} |-> 1 + ((3 * i + 2 * l + 1) % 6)]],
   [i \in 0 .. 5 |-> [l \in {0, 1} |-> IF i = 2 /\ l = 1 THEN 0 ELSE 1 + ((i + l) % 6)]]}

\* PackedPair: every pair of items that verify or fail any of the conditions.
PairPoint == [r \in {"a", "b", "torsion", "junk"} |->
  CASE r = "a" -> "A" [] r = "b" -> "B" [] r = "torsion" -> "T" [] OTHER -> "none"]
PairItem(pub, point, raw, rule, r) == [pub |-> pub, sig |-> [point |-> point, raw |-> raw, rule |-> rule, r |-> r]]
PairItems ==
  {PairItem(u, p, r, rule, d) :
     u \in {"a", "b"}, p \in {"A", "B"}, r \in {"a", "b"}, rule \in {"ok", "scalar"}, d \in BOOLEAN}
  \cup {PairItem("nil", "A", "a", "ok", TRUE), PairItem("torsion", "T", "torsion", "ok", TRUE),
        PairItem("junk", "identity", "junk", "ok", TRUE), PairItem("junk", "A", "junk", "ok", FALSE)}
Pair == INSTANCE PackedPair WITH
  PointOf <- PairPoint, SmallOrder <- {"torsion"}, Pairs <- [{0, 1} -> PairItems],
  pc <- step, ok <- answer, live <- ready

ASSUME /\ Core!R51PipelineAssumption
       /\ Pair!PackedPairAssumption
       /\ CombBuildAssumption

-----------------------------------------------------------------------------
Idle == "idle"
SharedIdle == step = Idle /\ answer = Idle /\ items = Idle /\ position = Idle /\ verdicts = Idle
CoreIdle == kind = Idle /\ encodedQReference = Idle /\ profile = Idle
WarmIdle == keys = {} /\ form = "native" /\ pubs = NoItems /\ worker = FreshWorker /\ group = 0
PairIdle == digest = Idle /\ pair = Idle /\ ready = Idle /\ decoded = Idle /\ tables = Idle /\ wide = Idle
            /\ q = Idle

\* A lane worker that is not called.
LanesIdle == Init /\ config = Pipeline(FALSE, FALSE, FALSE, "literal")

VerifiersInit ==
  \/ verifier = "BatchQ" /\ Init /\ SharedIdle /\ CoreIdle /\ WarmIdle /\ PairIdle /\ BuildInit
  \/ verifier = "R51Pipeline" /\ Core!Init /\ LanesIdle /\ verdicts = Idle
       /\ WarmIdle /\ PairIdle /\ BuildInit
  \/ verifier = "WarmComb" /\ WarmInit /\ LanesIdle /\ position = Idle /\ CoreIdle /\ PairIdle /\ BuildInit
  \/ verifier = "PackedPair" /\ Pair!Init /\ LanesIdle /\ items = Idle /\ position = Idle
       /\ CoreIdle /\ WarmIdle /\ BuildInit
  \/ verifier = "CombBuild" /\ BuildInit /\ LanesIdle /\ SharedIdle /\ CoreIdle /\ WarmIdle /\ PairIdle

sharedVars == <<step, answer, items, position, verdicts>>

VerifiersNext ==
  /\ UNCHANGED verifier
  /\ \/ /\ verifier = "BatchQ" /\ Next
        /\ UNCHANGED <<sharedVars, coreVars, combVars, pairVars, buildVars>>
     \/ /\ verifier = "R51Pipeline" /\ Core!Next
        /\ UNCHANGED <<vars, verdicts, combVars, pairVars, buildVars>>
     \/ /\ verifier = "WarmComb" /\ WarmNext
        /\ UNCHANGED <<vars, position, coreVars, pairVars, buildVars>>
     \/ /\ verifier = "PackedPair" /\ Pair!Next
        /\ UNCHANGED <<vars, items, position, coreVars, combVars, buildVars>>
     \/ /\ verifier = "CombBuild" /\ BuildNext
        /\ UNCHANGED <<vars, sharedVars, coreVars, combVars, pairVars>>

VerifiersSpec ==
  VerifiersInit /\ [][VerifiersNext]_<<vars, verifier, sharedVars, coreVars, combVars, pairVars, buildVars>>

-----------------------------------------------------------------------------
\* Whichever verifier runs besides the lane pipeline keeps the contract as it
\* does: for every item the verdict of that item alone, or a failure that leaves
\* no verdict true, except that a width the warm verifier refuses leaves the
\* caller's slice as it was (warm_comb_native.go:165-169); no neighbour, no
\* earlier group or call, and no scratch a failure left behind shows.
Tagged(name, b) == [i \in DOMAIN b |-> <<name, b[i]>>]
Requests ==
  {Tagged("R51Pipeline", r) : r \in Core!Requests}
  \cup {Tagged("WarmComb", r) : r \in WarmRequests} \cup {Tagged("PackedPair", r) : r \in Pair!Requests}
Verdict(item) ==
  CASE item[1] = "R51Pipeline" -> Core!Accepts(item[2])
    [] item[1] = "WarmComb" -> WarmAccepts(item[2])
    [] item[1] = "PackedPair" -> Pair!Accepts(item[2])
AfterFailure(r) ==
  IF \E i \in DOMAIN r : r[i][1] = "WarmComb" THEN WarmFailed([i \in DOMAIN r |-> r[i][2]]) ELSE NoneTrue(r)
CallerContract == INSTANCE BatchContract WITH
  Batches <- Requests,
  Correct <- LAMBDA r : [i \in DOMAIN r |-> Verdict(r[i])],
  Failed <- AfterFailure,
  phase <- CASE verifier = "R51Pipeline" -> Core!phase
             [] verifier = "WarmComb" -> warmPhase
             [] verifier = "PackedPair" -> Pair!phase
             [] OTHER -> Idle,
  request <- Tagged(verifier,
               CASE verifier = "R51Pipeline" -> Core!Request
                 [] verifier = "WarmComb" -> WarmRequest
                 [] verifier = "PackedPair" -> Pair!Request
                 [] OTHER -> NoBatch),
  verdicts <- IF step \in {"returned", "failed"} THEN answer ELSE NoBatch
VerifiersImplementContract == CallerContract!Spec
=============================================================================
