------------------------------ MODULE R51Batch ------------------------------
(***************************************************************************)
(* One goroutine's cached batch on the r51 backend: verifyBatchRawCached   *)
(* and everything it calls down to the lane pipelines                      *)
(* (ed25519/backend_r51.go).  The batch is cut into chunks; a chunk looks  *)
(* its keys up, is cut into warm and cold segments and a tail, and each    *)
(* segment is verified by a worker that may fail with an internal fault.   *)
(* After a chunk its valid items feed admit and promote.                   *)
(*                                                                         *)
(* admit is one atomic step here (its interleavings are module Cache), and *)
(* the actions Other... are what other goroutines do to the same cache.    *)
(* The lane arithmetic is abstracted: a segment's verdicts are Valid.      *)
(***************************************************************************)
EXTENDS Integers, FiniteSets, FiniteSetsExt

CONSTANTS
  Keys,
  X4, X8,          \* r51x5.X4Lanes, r51x5.X8Lanes
  MaxChunk,        \* r51BatchQMaxChunk, a multiple of X8
  BuildThreshold,  \* buildThreshold
  MaxCount,        \* bound on the ghost counters and on faults
  Batches          \* the batches callers pass: functions 0..n-1 -> Item

\* What a batch item is to the backend.  "good" and "bad" are the same under
\* both profiles; "weak" is rejected by the strict byte rules and accepted by
\* the compatible profile; "nil" is a missing public key.
Kinds == {"good", "bad", "weak", "nil"}
Item == [key : Keys, kind : Kinds]
Profiles == {"DalekStrict", "StdlibCompat"}

ASSUME R51BatchAssumption ==
  /\ X4 \in Nat \ {0} /\ X8 = 2 * X4 /\ MaxChunk \in Nat \ {0} /\ MaxChunk % X8 = 0
  /\ BuildThreshold \in Nat \ {0} /\ MaxCount \in Nat
  /\ \A items \in Batches : /\ IsFiniteSet(DOMAIN items)
                           /\ items \in [0 .. (Cardinality(DOMAIN items) - 1) -> Item]

VARIABLES
  cpu,         \* the measured CPU generation that cpufeat detected
  tables,      \* the cache: tier per key
  sightings,   \* admission counter per key
  successes,   \* history: successful verifications per key
  faults,      \* r51Backend.faults
  poolDirty,   \* a worker that failed is in a pool
  pc, batch, profile, ok, all,   \* the call: inputs, verdicts, return value
  base,        \* first item of the current chunk
  index,       \* loop index of the lookup and admission loops
  pre,         \* tier found by lookup for each item of the chunk
  prepared,    \* the chunk's tables are passed on
  offset,      \* first item of the chunk not yet dispatched
  worker,      \* batch worker: "none", "clean" or "dirty"
  lookups, credits   \* history, per item: lookups and admission requests

cacheVars == <<tables, sightings, successes>>
callVars == <<batch, profile>>
vars == <<cpu, cacheVars, faults, poolDirty, pc, callVars, ok, all, base, index,
          pre, prepared, offset, worker, lookups, credits>>

\* cpufeat: AMD family 19h is Zen 4, 1Ah is Zen 5; any other IFMA CPU gets no
\* policy bit.
Generations == {"other", "zen4", "zen5"}
PreferWarmX8IFMA == cpu \in {"zen4", "zen5"}
PreferDecodedAIFMA == cpu \in {"zen4", "zen5"}
PreferPackedPairX8IFMA == cpu = "zen5"

Bump(n) == Min({n + 1, MaxCount})

\* n &^ (X4 - 1).
Floor4(n) == n - (n % X4)

Size == Cardinality(DOMAIN batch)
Count == Min({Size - base, MaxChunk})         \* items of the current chunk
Full == Floor4(Count)
Tail == Count - Full
Live == base .. (base + Count - 1)

\* rejectedByProfile: the byte-level pre-pass.
rejectedByProfile(i) ==
  \/ batch[i].kind = "nil"
  \/ profile = "DalekStrict" /\ batch[i].kind = "weak"

\* The verdict every path must give.
Valid(i) ==
  \/ batch[i].kind = "good"
  \/ batch[i].kind = "weak" /\ profile = "StdlibCompat"

-----------------------------------------------------------------------------
\* Warm dispatch.  o is an offset into the current chunk.

r51WarmGroupAvailable(o) ==
  \A lane \in o .. (o + X4 - 1) :
    batch[base + lane].kind # "nil" /\ pre[base + lane] = "warm"

\* Mutant: a warm group may start at any x4 boundary.
AlignedX4(o) == TRUE

Aligned(o) == o % X8 = 0

r51WarmDispatchWidth(o, full) ==
  IF o + X4 > full \/ ~r51WarmGroupAvailable(o) THEN 0
  ELSE IF ~PreferWarmX8IFMA THEN X4
  ELSE IF ~Aligned(o) THEN 0
  ELSE IF o + X4 = full THEN X4
  ELSE IF o + X8 <= full /\ r51WarmGroupAvailable(o + X4) THEN X8
  ELSE 0

r51HasWarmDispatch ==
  \E o \in 0 .. (Full - 1) : o % X4 = 0 /\ r51WarmDispatchWidth(o, Full) # 0

r51UseDecodedAPrecomputed ==
  LET hits == Cardinality({i \in Live : pre[i] # "none"})
  IN  hits = Count \/ (Count = MaxChunk /\ hits * 4 >= Count)

\* Every group of a warm segment has this width, but for an x4 group that ends
\* the full groups where x8 is preferred.
WarmWidth == IF PreferWarmX8IFMA THEN X8 ELSE X4

\* A warm segment takes dispatchable groups while they fit into a chunk.
WarmEnd(start) ==
  Min({Full} \cup {e \in start .. Full :
                     /\ (e - start) % WarmWidth = 0
                     /\ LET next == r51WarmDispatchWidth(e, Full)
                        IN  next = 0 \/ e + next - start > MaxChunk})

\* A cold segment ends at the next dispatchable warm group.
ColdEnd(start, warmAllowed) ==
  LET limit == Min({Full, start + MaxChunk})
  IN  Min({limit} \cup {c \in (start + X4) .. (limit - 1) :
                          /\ (c - start) % X4 = 0
                          /\ warmAllowed /\ r51WarmDispatchWidth(c, Full) # 0})

-----------------------------------------------------------------------------

NoBatch == [i \in {} |-> TRUE]

Init ==
  /\ cpu \in Generations
  /\ tables = [k \in Keys |-> "none"]
  /\ sightings = [k \in Keys |-> 0] /\ successes = [k \in Keys |-> 0]
  /\ faults = 0 /\ poolDirty = FALSE
  /\ pc = "idle" /\ batch = NoBatch /\ profile = "DalekStrict"
  /\ ok = NoBatch /\ all = TRUE /\ base = 0 /\ index = 0 /\ pre = NoBatch
  /\ prepared = FALSE /\ offset = 0 /\ worker = "none"
  /\ lookups = NoBatch /\ credits = NoBatch

\* The caller's ok slice holds whatever it held before.
verifyBatchRawCached ==
  /\ pc = "idle"
  /\ batch' \in Batches /\ profile' \in Profiles
  /\ LET items == DOMAIN batch' IN
       /\ \E old \in BOOLEAN : ok' = [i \in items |-> old]
       /\ pre' = [i \in items |-> "none"]
       /\ lookups' = [i \in items |-> 0] /\ credits' = [i \in items |-> 0]
       /\ pc' = IF Cardinality(items) < X4 THEN "enter" ELSE "lookup"
  /\ all' = TRUE /\ base' = 0 /\ index' = 0 /\ prepared' = FALSE /\ offset' = 0
  /\ UNCHANGED <<cpu, cacheVars, faults, poolDirty, worker>>

\* One cache.lookup of the chunk's loop; rejected items are skipped.
Lookup ==
  /\ pc = "lookup" /\ index < Count
  /\ index' = index + 1
  /\ LET i == base + index IN
       IF rejectedByProfile(i) THEN UNCHANGED <<pre, lookups>>
       ELSE /\ pre' = [pre EXCEPT ![i] = tables[batch[i].key]]
            /\ lookups' = [lookups EXCEPT ![i] = @ + 1]
  /\ UNCHANGED <<cpu, cacheVars, faults, poolDirty, pc, callVars, ok, all, base,
                 prepared, offset, worker, credits>>

\* Are this chunk's tables worth passing on?
Prepare ==
  /\ pc = "lookup" /\ index = Count
  /\ prepared' = (r51HasWarmDispatch \/ (PreferDecodedAIFMA /\ r51UseDecodedAPrecomputed))
  /\ pc' = "enter"
  /\ UNCHANGED <<cpu, cacheVars, faults, poolDirty, callVars, ok, all, base, index,
                 pre, offset, worker, lookups, credits>>

strictPackedPair == profile = "DalekStrict" /\ Tail = 2
needsBatchWorker == Full # 0 \/ (Tail > 1 /\ ~strictPackedPair)

\* verifyBatchRawPrecomputedErr clears the verdicts and gets a worker, whose
\* construction may have failed.
Enter ==
  /\ pc = "enter"
  /\ ok' = [i \in DOMAIN ok |-> IF i \in Live THEN FALSE ELSE ok[i]]
  /\ offset' = 0
  /\ \/ /\ worker' = IF needsBatchWorker THEN "clean" ELSE "none"
        /\ pc' = "dispatch"
     \/ needsBatchWorker /\ worker' = "none" /\ pc' = "fault"
  /\ UNCHANGED <<cpu, cacheVars, faults, poolDirty, callVars, all, base, index,
                 pre, prepared, lookups, credits>>

\* The verifier of a segment writes its verdicts.
Verdicts(seg) == ok' = [i \in DOMAIN ok |-> IF i \in seg THEN Valid(i) ELSE ok[i]]

\* An internal fault leaves no verdict true in the segment: the batch pipeline
\* clears them again, the other verifiers write theirs only on success.
Faulted(seg) ==
  /\ ok' = [i \in DOMAIN ok |-> IF i \in seg THEN FALSE ELSE ok[i]]
  /\ pc' = "fault"
  /\ UNCHANGED offset

Segment(start, end) == (base + start) .. (base + end - 1)

warmAllowed == prepared /\ profile = "DalekStrict"

\* verifyWarmGroups on a run of warm groups, with a worker of its own pool.
DispatchWarm ==
  /\ pc = "dispatch" /\ offset < Full
  /\ warmAllowed /\ r51WarmDispatchWidth(offset, Full) # 0
  /\ LET end == WarmEnd(offset) IN
       \/ Verdicts(Segment(offset, end)) /\ offset' = end /\ UNCHANGED pc
       \/ Faulted(Segment(offset, end))
  /\ UNCHANGED <<cpu, cacheVars, faults, poolDirty, callVars, all, base, index,
                 pre, prepared, worker, lookups, credits>>

\* The batch pipeline on a cold segment, with or without decoded keys.
DispatchCold ==
  /\ pc = "dispatch" /\ offset < Full
  /\ ~(warmAllowed /\ r51WarmDispatchWidth(offset, Full) # 0)
  /\ LET end == ColdEnd(offset, warmAllowed) IN
       \/ Verdicts(Segment(offset, end)) /\ offset' = end /\ UNCHANGED <<pc, worker>>
       \/ Faulted(Segment(offset, end)) /\ worker' = "dirty"
  /\ UNCHANGED <<cpu, cacheVars, faults, poolDirty, callVars, all, base, index,
                 pre, prepared, lookups, credits>>

\* The tail: one packed verification per item of a single or an unpaired
\* strict couple, one packed pair, or one partial group of the batch pipeline.
DispatchTail ==
  LET left == Count - offset
      single == Tail = 1 \/ (strictPackedPair /\ ~PreferPackedPairX8IFMA)
      pipeline == ~single /\ ~strictPackedPair
      end == IF single THEN offset + 1 ELSE Count
  IN  /\ pc = "dispatch" /\ offset >= Full /\ left > 0
      /\ \/ Verdicts(Segment(offset, end)) /\ offset' = end /\ UNCHANGED <<pc, worker>>
         \/ /\ Faulted(Segment(offset, end))
            /\ worker' = IF pipeline THEN "dirty" ELSE worker
      /\ UNCHANGED <<cpu, cacheVars, faults, poolDirty, callVars, all, base, index,
                     pre, prepared, lookups, credits>>

\* A clean run returns its worker to the pool.
PutWorker ==
  /\ pc = "dispatch" /\ offset = Count
  /\ poolDirty' = (poolDirty \/ worker = "dirty")
  /\ worker' = "none" /\ index' = 0 /\ pc' = "admit"
  /\ all' = (all /\ \A i \in Live : ok[i])
  /\ UNCHANGED <<cpu, cacheVars, faults, callVars, ok, base, pre, prepared, offset,
                 lookups, credits>>

\* Mutant: only the chunk that faulted is recomputed.
FallbackChunk == Live

FallbackItems == DOMAIN ok

\* Mutant: the worker is put back by a deferred call.
PoolAfterDefer == poolDirty \/ worker = "dirty"

PoolAfterFault == poolDirty

\* fallbackGenericBatch recomputes the whole batch; the worker is dropped.
Fallback ==
  /\ pc = "fault"
  /\ faults' = Bump(faults)
  /\ ok' = [i \in DOMAIN ok |-> IF i \in FallbackItems THEN Valid(i) ELSE ok[i]]
  /\ all' = \A i \in FallbackItems : Valid(i)
  /\ poolDirty' = PoolAfterFault
  /\ worker' = "none" /\ index' = 0 /\ pc' = "readmit"
  /\ UNCHANGED <<cpu, cacheVars, callVars, base, pre, prepared, offset,
                 lookups, credits>>

Earned(k) == sightings[k] + 1 >= BuildThreshold

\* Cache.admit: a key with a table takes no credit.
admit(k) ==
  IF tables[k] # "none" THEN UNCHANGED <<tables, sightings>>
  ELSE /\ sightings' = [sightings EXCEPT ![k] = @ + 1]
       /\ tables' = [tables EXCEPT ![k] = IF Earned(k) THEN "decoded" ELSE "none"]

\* Cache.promote: the hit may complete a promotion.
promote(k) ==
  /\ tables' \in {tables, [tables EXCEPT ![k] = IF @ = "decoded" THEN "warm" ELSE @]}
  /\ UNCHANGED sightings

\* Mutant: hits ask for admission too.
MissAssumed(i) == TRUE

Miss(i) == pre[i] = "none"

\* The loop after the verdicts of a chunk, or of a narrow batch.
Admit ==
  /\ pc = "admit" /\ index < Count
  /\ index' = index + 1
  /\ LET i == base + index
         k == batch[i].key
     IN  IF ~ok[i] THEN UNCHANGED <<cacheVars, credits>>
         ELSE /\ successes' = [successes EXCEPT ![k] = Bump(@)]
              /\ \/ Miss(i) /\ admit(k) /\ credits' = [credits EXCEPT ![i] = @ + 1]
                 \/ /\ ~Miss(i) /\ profile = "DalekStrict" /\ promote(k)
                    /\ UNCHANGED credits
                 \/ /\ ~Miss(i) /\ profile # "DalekStrict"
                    /\ UNCHANGED <<tables, sightings, credits>>
  /\ UNCHANGED <<cpu, faults, poolDirty, pc, callVars, ok, all, base, pre, prepared,
                 offset, worker, lookups>>

NextChunk ==
  /\ pc = "admit" /\ index = Count
  /\ \/ /\ base + Count < Size
        /\ base' = base + Count /\ index' = 0 /\ prepared' = FALSE /\ pc' = "lookup"
     \/ base + Count = Size /\ pc' = "return" /\ UNCHANGED <<base, index, prepared>>
  /\ UNCHANGED <<cpu, cacheVars, faults, poolDirty, callVars, ok, all, pre, offset,
                 worker, lookups, credits>>

\* After a fault every valid item of the batch asks for admission, also the
\* items of chunks that were admitted before the fault.
Readmit ==
  /\ pc = "readmit"
  /\ \/ /\ index < Size /\ index' = index + 1 /\ UNCHANGED pc
        /\ IF ~ok[index] THEN UNCHANGED <<cacheVars, credits>>
           ELSE /\ successes' = [successes EXCEPT ![batch[index].key] =
                                   IF index < base THEN @ ELSE Bump(@)]
                /\ admit(batch[index].key)
                /\ credits' = [credits EXCEPT ![index] = @ + 1]
     \/ index = Size /\ pc' = "return" /\ UNCHANGED <<index, cacheVars, credits>>
  /\ UNCHANGED <<cpu, faults, poolDirty, callVars, ok, all, base, pre, prepared,
                 offset, worker, lookups>>

Return ==
  /\ pc = "return"
  /\ pc' = "idle" /\ batch' = NoBatch /\ ok' = NoBatch /\ pre' = NoBatch /\ all' = TRUE
  /\ lookups' = NoBatch /\ credits' = NoBatch
  /\ base' = 0 /\ index' = 0 /\ offset' = 0 /\ prepared' = FALSE
  /\ profile' = "DalekStrict"
  /\ UNCHANGED <<cpu, cacheVars, faults, poolDirty, worker>>

-----------------------------------------------------------------------------
\* Other goroutines on the same cache.  They act while this call is at a step
\* that reads the cache; at any other moment their steps commute with its own.

CacheRead == pc \in {"idle", "lookup", "admit", "readmit"}

OtherSuccess(k) ==
  /\ CacheRead
  /\ successes' = [successes EXCEPT ![k] = Bump(@)]
  /\ admit(k)
  /\ UNCHANGED <<cpu, faults, poolDirty, pc, callVars, ok, all, base, index, pre,
                 prepared, offset, worker, lookups, credits>>

OtherPromotion(k) ==
  /\ CacheRead /\ tables[k] = "decoded"
  /\ tables' = [tables EXCEPT ![k] = "warm"]
  /\ UNCHANGED <<cpu, sightings, successes, faults, poolDirty, pc, callVars, ok, all,
                 base, index, pre, prepared, offset, worker, lookups, credits>>

Call ==
  \/ Lookup \/ Prepare \/ Enter \/ DispatchWarm \/ DispatchCold \/ DispatchTail
  \/ PutWorker \/ Fallback \/ Admit \/ NextChunk \/ Readmit \/ Return

Next ==
  \/ verifyBatchRawCached \/ Call
  \/ \E k \in Keys : OtherSuccess(k) \/ OtherPromotion(k)

Spec == Init /\ [][Next]_vars

-----------------------------------------------------------------------------

\* Whatever was dispatched where, and whatever faulted, a batch returns exactly
\* the verdict of each item and their conjunction, and nothing is left over
\* from the caller's slice or from a segment that failed.
VerdictsExact ==
  pc = "return" => /\ \A i \in DOMAIN batch : ok[i] = Valid(i)
                   /\ all = \A i \in DOMAIN batch : Valid(i)

\* The width and table checks of verifyWarmGroups never fail, and on CPUs that
\* prefer x8 warm groups every segment but the last starts on an x8 boundary.
WarmSegmentsSound ==
  pc = "dispatch" /\ offset < Full =>
    /\ warmAllowed /\ r51WarmDispatchWidth(offset, Full) # 0 =>
         LET end == WarmEnd(offset) IN
           /\ end > offset /\ end <= Full /\ end - offset <= MaxChunk
           /\ \A o \in offset .. (end - 1) :
                (o - offset) % X4 = 0 => r51WarmGroupAvailable(o)
    /\ PreferWarmX8IFMA /\ warmAllowed => offset % X8 = 0

\* A worker that failed with scratch half written is never pooled again.
PoolClean == ~poolDirty

\* Admission credit: an invalid item never earns any, on any path; as long as
\* nothing faulted, a valid miss has earned exactly one request and a hit none.
CreditsExact ==
  /\ \A i \in DOMAIN batch : credits[i] > 0 => Valid(i)
  /\ pc = "admit" => \A i \in 0 .. (base + index - 1) :
       credits[i] = IF Valid(i) /\ pre[i] = "none" THEN 1 ELSE 0

-----------------------------------------------------------------------------
\* What comments of the source say, and the code does not do.

\* "waits for buildThreshold successful verifications": a table exists only for
\* a key with that many successes.
TableEarned == \A k \in Keys : tables[k] # "none" => successes[k] >= BuildThreshold

\* "exactly one lookup for each item the shared profile pre-pass would leave
\* live".
OneLookupPerItem ==
  pc = "return" => \A i \in DOMAIN batch : ~rejectedByProfile(i) => lookups[i] = 1
=============================================================================
