# A TLA+ development of narya-ed25519

narya-ed25519 verifies Ed25519 signatures for workloads in which signers recur.
Two kinds of code make it hard to get right. One is the code around the
arithmetic: a lock-free cache that decides which public keys deserve precomputed
tables, a one-time choice of the backend, batch dispatchers that cut batches into
vector-sized pieces, reuse scratch and survive internal faults. The other is
arithmetic written many times over, once per representation, register width and
table layout, where a carry, a sign or a mask is wrong only on inputs no test
happens to draw. This development models both, checks the models with TLC, and
proves with TLAPS, for every value of the constants, the safety of the first kind
of code: the cache and its implementation of an abstract store, backend
selection, the entry points, the batch dispatcher, the four batch verifiers as
implementations of one contract, the reusable signature batch and the
multi-buffer hash.

## Inventory

| Component (source) | State | Operations | What makes it hard |
|---|---|---|---|
| Cache (`ed25519/cache.go`) | tables, byte and entry counters, admission counter per key, promotion status per key, pending candidates under `promotionMu` | lookup, admit, promote | goroutines interleave at every atomic operation; verdicts about a key are final; a budget that must never be passed |
| Backend selection (`ed25519/backend.go`) | registry, `current`, `requested`, `selectMu`, the backends' `sync.Once` | `SetBackend`, `active`, `pick`, `activate` | a race between configuration and first use; panics with the lock held |
| Entry points, profiles (`ed25519/ed25519.go`, `profile.go`) | `defaultProfile` | `Verify*`, `SetDefaultProfile` | raw backends skip the shared pre-pass and owe its rules; a profile stored during a call |
| r51 cached batch (`ed25519/backend_r51.go`) | worker pools, fault counter, per-call scratch | `verifyBatchRawCached` and what it calls | off-by-one in segments; faults after part of the verdicts are written; tables change during the batch |
| r51 lane pipeline (`ed25519/backend_r51batchq.go`) | worker scratch, lane masks | `VerifyBatch`, `verifyBatchWithDecodedA` | partial groups, compaction and scattering of decode misses, scratch of earlier chunks |
| r51 pipelines (`ed25519/backend_r51experiment.go`) | workspaces | `VerifyBatch` | two ways to compare with R; halves of a group |
| Warm comb, packed pair (`r51x5/warm_comb_native.go`, `partial_comb_*.go`, `packed_pair_strict_ifma.go`) | tables, build workspace, worker scratch | `BuildWarmCombKeysA6R9X4`, `VerifyBatch`, `VerifyPair` | a table bound to the bytes of its key; builds that fail halfway; two signatures in one register |
| Signature preparation (`internal/sigprep`) | reusable batch | `Admit`, `Parse`, `Batch.Prepare` | encodings at the boundary values of p and L; arrays of an earlier group |
| Multi-buffer SHA-512 (`sha512mb`) | lane buffers | `Sum512`, `Sum512Batch` | messages of different lengths in one group |
| Scalar recoding and multiplication (`r51x5`, `r43x6`, vendored) | tables, `prepared` flags | `Prepare*`, `Evaluate*`, the recodings | carries into a top digit; half-built tables; torsion; one schedule per evaluator |
| Decoding, points, encoding, comparison | workspaces | `Decode2*`, point operations, batch encoders | missing T coordinates; one inversion shared by all lanes; two outputs and an error |
| Field and scalar arithmetic | none | limb operations, reductions, packing | limb ranges, wraparound, signed carries, shift literals |
| Half-size scalars (`internal/heea8l`, `r51x5/heea_base_split*.go`) | workspace | the selectors, the equation | fixed-width signed arithmetic, approximate quotients, multipliers that hide torsion |
| CPU policy (`internal/cpufeat`) | constants of the process | policy bits | each bit selects another dispatch |
| Assembly kernels, CPUID, traces, benchmarks, scripts | | | not modelled |

How they interact: an entry point asks `active()` for the backend and passes it
the caller's slices; `Cache` wraps the same call with a lookup before and admit
or promote after the verdict; the r51 backend calls back into the cache through
`precomputedKeyCache` once per item, and the cache calls back into the backend
to build first-tier tables (`buildPrecomp`) and second-tier groups
(`buildPromotedPrecompGroup`). A verdict never depends on the cache.

What makes each part correct: the cache builds a table once, only for keys that
earned it, within its budget, and loses neither sightings nor candidates; the
process uses one backend, the one that was asked for; a batch's verdicts are
those of its items one by one, whatever was cached, dispatched or faulted, and a
batch verifier that fails leaves no true verdict (one refused width excepted, see
Findings); a per-key table is exactly the multiples of its key's point, whatever
failed before it was built; an arithmetic routine computes
its mathematical definition on every input its callers can give it, keeps the
range the next routine relies on, and writes its output whole or not at all.
`PROJECT.json` lists the hazards line by line.

## Modules

| Module | Role |
|---|---|
| `Cache` | the cache, one action per operation on shared state |
| `TableStore` | abstract specification: what the cache promises |
| `CacheProperties` | invariants, action and liveness properties, the refinement of `TableStore` |
| `CacheProofs` | theorems about `Cache`: types, builders and promotion; limits, statistics and final verdicts, what the counters are worth and the refinement of `TableStore` |
| `BackendSelect` | backend selection with its properties |
| `Entry` | the package entry points over every backend, with `SetDefaultProfile` |
| `BatchContract` | abstract specification: what every batch verifier promises |
| `R51Batch`, `R51BatchProofs` | one cached r51 batch among other users of the cache; its theorems |
| `BatchQ`, `BatchQProofs` | the lane pipeline behind it; refines `BatchContract`; its theorems |
| `R51Pipeline` | the complete r51 verifier cores; refines `BatchContract` |
| `CombKeys` | keys, lanes and groups of the next two (both extend it) |
| `CombBuild` | the builder of per-key tables, its workspace and its two callers |
| `WarmComb` | the verifier over these tables; refines `BatchContract` |
| `PackedPair` | two verifications in one register; refines `BatchContract` |
| `VerifierProofs` | theorems about `BackendSelect`; `PackedPair`, `R51Pipeline` and `WarmComb` implement `BatchContract`; the tables of `CombBuild` are exact |
| `SigPrep`, `Encoding` | the reusable batch; the byte predicates |
| `MultiHash` | multi-buffer SHA-512 |
| `RequestProofs` | theorems about `Entry`, `SigPrep`, `MultiHash` and `Encoding` |
| `DataInduction` | lemmas shared by the proofs: induction, recursive functions, arrays, division, powers of two |
| `Recode`, `Recoding`, `Multiply` | recodings of scalars; the same as a specification (extends `Recode`); tables and schedules of scalar multiplications (extends `Recode`) |
| `FieldLanes` | the prime field, the lanes and the curve of `Decode`, `CurvePoint` and `BatchEncode` (all extend it) |
| `Decode`, `CurvePoint`, `BatchEncode` | decompression; the group law in five coordinate systems; shared-inversion encoding and comparison |
| `PointProofs` | theorems about `CurvePoint` |
| `ArithmeticProofs` | theorems about `BatchEncode`, `Decode`, `Recoding` and `BitPack` |
| `FieldLimbs`, `ScalarReduce`, `BitPack` | limb arithmetic; reduction modulo L; bit packing |
| `WideInt`, `HalfSize`, `BaseSplit` | fixed-width integers; half-size selectors; the half-size equation (extends `Recode`) |
| `MCCache`, `MCBackendSelect`, `MCR51Batch` | constants, model values and symmetry for one specification |
| `MCVerifiers` | the four verifiers side by side against `BatchContract`, and the table builder (extends `BatchQ`, `WarmComb` and `CombBuild`) |
| `MCRequest` | `Entry`, `Encoding`, `SigPrep`, `MultiHash` (extends all four) |
| `MCMultiplication` | `Recoding`, `Multiply`, `BaseSplit` (extends the first) |
| `MCArithmetic` | `FieldLimbs`, `ScalarReduce`, `BitPack`, `WideInt`, `HalfSize`, `Decode`, `CurvePoint`, `BatchEncode` (extends `BitPack` and the last three) |

The last four put components of one layer side by side: a variable (`verifier`,
`stage` or `kernel`) picks the component a behaviour runs, each is an `INSTANCE`
with its constants, the variables of the others stay idle, and variables of one
name are shared because only one component runs. A component whose properties are
theorems (`BatchQ`, `WarmComb`, `CombBuild`, `Entry`, `SigPrep`, `Encoding`,
`MultiHash`, `BatchEncode`, `Decode`, `CurvePoint`, `Recoding`, `BitPack`) is
extended instead and keeps its own variables, so that the properties it brings
are the ones the theorems state. A property of such a module says for one component, or for a family of them, what its named parts say; the
parts are defined in the component's own module.

How they compose: the verdict external to `R51Batch` is what `BatchContract`
says, and `BatchQ`, `WarmComb` and `PackedPair` are shown to implement that
contract for exactly the calls `R51Batch` makes (lane groups, warm groups, a tail
of two). `WarmComb` takes a key's point for its table: that a published table is
exactly the multiples of that point, and that only usable keys have one, is what
`CombBuild` is checked and proved for (`TablesExact`). Their own external parts
are in turn the statements of the modules below: a decoded point (`Decode`), a challenge (`MultiHash`, `ScalarReduce`), a
combination [s]B - [k]A (`Multiply`, over the additions of `CurvePoint`, over
the limbs of `FieldLimbs`), an encoding or comparison (`BatchEncode`), a byte
rule (`Encoding`).

Operators named `...Late`, `...Ignored`, `...Assumed` and the like, marked
"Mutant", are plausible bugs of the definition that follows them. No
specification uses them: each takes the place of its definition in one run, which
must then fail, to show that the property it is paired with is not vacuous.

### Cache

A process is a goroutine inside one call for one key; `pc` names the next
operation on shared state. Loads and compare-and-swaps are separate actions
(`SlotLoad`/`SlotCAS`, `ClaimLoad`/`ClaimCAS`, `ReserveLoad`/`ReserveCAS`,
`PromoteStatus`/`PromoteCAS`), and so are the second seen.Load, the LoadOrStore
and the hand-back of a slot. `reg` is the word a goroutine loaded last. A
`*PrecomputedKey` is its tier, since a key has one first-tier and one
second-tier entry in its life; comparing pointers is comparing tiers.

What is abstracted, and why it is sound:

- A batch is a sequence of one-item calls. The items of a batch share only the
  cache, and one-item calls allow every interleaving a batch allows. `mode` is
  how the selected backend uses the cache (`narrow`, `strict`, `plain`, `all`).
- Calls that touch no shared state (nil cache, profile rejection, backends
  without tables) are left out.
- A fresh `promotionState` is all zero, so creating it is no step of its own;
  `hits.Add` and `misses.Add` go with the load before them because nobody reads
  them but `Stats`.
- Under `promotionMu`, the scan of the pending map and its status stores are one
  step. Outside the lock only `promote` reads a status, and it does nothing on
  `building`, `complete` and `disabled` alike. The stores of second-tier tables
  are separate steps, because lookups take no lock.
- The shape check of a built group (`commitPromotionLocked`) always passes for
  what the r51 builder returns; a builder error is the second disjunct of
  `BuildWarm`.
- `verified` is history: successful verdicts per key, saturating at `Earned`.

### BackendSelect

`SetBackend` and the slow path of `active()` share the steps lock, re-check,
resolve, activate, publish. An error of `SetBackend` and a panic of `pick` are
the same step: the deferred `Unlock` runs, nothing is published, and the caller
may call again. `used` and `granted` are history: what `active()` returned and
what `SetBackend` promised. `ifma` and `r51` take the same path; the runs
register one native backend.

### R51Batch

One call, from the caller's slices to its return value: chunks of `MaxChunk`,
a lookup per item, the decision to pass the tables on, warm segments, cold
segments, the tail, the loop that feeds admit and promote, and the fallback that
recomputes the whole batch after a fault. The dispatch policy
(`r51WarmDispatchWidth` and its callers) is translated operator by operator. The
lane arithmetic is external: a segment that does not fault writes the verdict
`Valid` of each item. An item is a key and a kind: good, bad, `weak` (rejected by
the strict byte rules only) or a nil key. `cpu` is the CPU generation, constant
in a behaviour.

admit is atomic here and knows neither budget nor slots: refusals only leave
more items cold, which the other interleavings show as well. `OtherSuccess` and
`OtherPromotion` are other goroutines; they act where this call next touches the
cache, because elsewhere their steps commute with its own. The warm and single
workers are taken and put back, or dropped, within one step; only the batch
worker lives across steps and so is a variable. `successes`, `credits` and
`lookups` are history.

### BatchContract and its four implementations

`BatchContract` has one call at a time: `Call` takes a batch, `Return` gives for
every item the verdict of that item alone, `Fail` gives none. The refinement
mapping of each implementation hides everything but the batch at hand, the
verdicts and the outcome; every internal step must be a stutter, and an error
step must map to `Fail`, that is, verdicts written earlier must be gone. What the
caller's slice then holds is the constant `Failed`: nothing true, for three of
them. The fourth, `WarmComb`, refuses a width before it clears the slice, so for
such a call `Failed` is the slice as it came.

- `BatchQ`. The lanes of all groups of a chunk are flattened to positions. All
  scratch that survives a chunk or a call is a variable: decoded points and
  scalars, the packed misses and their lanes, active masks, points for the
  finalizer. A point is whether it encodes to the R that all signatures of the
  model share, so a stale or misplaced good point would be accepted anywhere;
  provenance is kept beside it for `DecodedLanesOwn`, one half of `LanesExact`. Configurations enumerate
  the dispatch paths (x8, two x4, wide, compacted or not, direct challenges).
- `R51Pipeline`. Groups of one register pair; paired decoding with comparison of
  points, or decoding of A with comparison of encodings. A signature whose R is a
  second encoding of the right point is told apart from a right one.
- `WarmComb`. Three users of one verifier: directly (`native`), through the worker
  pool of the backend, which has its own verdicts and copies them on success
  (`backend`), and the complete verifier with the keys it prepared (`complete`). A
  call arrives with a slice that may hold the verdicts of an earlier one (`held`;
  cleared in the backend, whose caller clears first). A key is a name and several
  names encode one point, so a table used for other bytes than its key's gives a
  wrong challenge and shows as a wrong verdict. The worker's scratch (`wide`,
  `points`, `active`, `encoded`) stays from call to call.
- `PackedPair`. Decoding of four encodings at once, one schedule, two verdicts.

### CombBuild

One build, operation by operation, in a workspace that outlives it: a multiple is
stored and the base of the row added to it (`StoreEntry`), the row base doubled
(`DoubleRowBase`), Z coordinates multiplied into prefix products
(`MultiplyPrefix`), the product of all inverted unless a lane of it is zero
(`InvertTotal`), the inverses taken apart again from the last entry to the first
(`InvertEntry`), each entry made affine (`ConvertEntry`) and the staged group
copied out (`CommitKeys`, `CommitGroup`). A build fails at any operation that can
fail (`BuildFails`) and leaves everything written so far; the next one finds that
workspace or a new one (the backend drops a workspace that failed, a direct caller
may use it again), and overwrites only the row base before it starts. The callers are the group build behind the cache and
the complete verifier, which builds the groups of its keys one after another,
skips a group of keys it has already met, and gives up its tables if one fails.

A point is the multiple of a named point; a sum of multiples of two points is
`Mixed`, so rows of two builds cannot be confused unnoticed. Coordinates other
than Z are abstracted: an entry's Z is what the additions left there (`Factors`,
any value, zero included), and after the conversion `scale` is what remains of
it, which is 1 exactly if the right inverse met the right entry. One inversion
is one step (`Invert` chooses the inverse; its addition chain is in `Decode`).

### Entry

Every entry point as a sequence of steps: read the backend, read the profile (not
for the Strict ones), the shared pre-pass or the raw backend, per item the
verifier of the backend, the native kernel's failure and the generic fallback.
`SetDefaultProfile` is another goroutine. `seen` is history: the defaults in force since
the call began.

### SigPrep and Encoding

`SigPrep` keeps whole backing arrays with lengths, as Go slices do, and the past
arrays of the segment store for as long as a header reaches them. `Encoding`
translates each copy of the byte predicates over bytes of `ByteBits` bits; the
modulus is 2^n - Gap, as 2^255 - 19 is, and the predicates are compared with
arithmetic, a complete curve of order 8 L over that field. `EncodingAssumption`
is what the comments of `internal/sigprep/encoding.go` say of the curve and its
constants: the points of order dividing eight have the y coordinates 0, 1, p-1
and the two of order eight (line 8); seven distinct first bytes (line 35); x = 0
only for y = 1 and y = -1 (line 84). TLC evaluates it on a real, small curve.

### MultiHash

A byte is where it comes from (message position, padding, length), a lane's state
the sequence of blocks compressed into it. All three paths (block by block lanes,
direct blocks, the fixed three-segment shape) fill blocks in their own way.

### Recode and Multiply

`Recode` has every signed-digit recoding at scaled widths; `Recoding` asks them
about the scalars of the lanes in use, one after another. In `Multiply` a point
is an integer combination of free generators, so [-k]A and [L-k]A differ as they
do on keys with torsion, and no accidental relation hides an error. Each
evaluator of the code is a plan: table shapes, digits, and a list of doublings
and additions with the coordinate form every step needs and leaves. Tables stay
from one preparation to the next; a preparation may fail at any entry.

### Decode, CurvePoint, BatchEncode

`Decode` runs nine decoders over a field of 29 elements, where p = 5 modulo 8 as
for 2^255 - 19; the addition chains are checked apart, with the real exponents
2^252 - 3 and p - 2 as sets of bits. `CurvePoint` drives one accumulator through every formula in any
order over a complete curve of 24 points, including representations scaled by
any Z. Its
addition has no exceptions because -1 is a square in the field and D is none.
`BatchEncode` keeps prefix products and inverses of the last call.

### FieldLimbs, ScalarReduce, BitPack

`FieldLimbs` and `ScalarReduce` use fewer and shorter limbs with the same ratios
between radix, machine word and product width, so the wraparounds that the code
must avoid exist and the ones it relies on happen. `BitPack` uses the real
widths: a word is a set of bit positions. Loads, shifts and masks act bit by bit,
so the run takes the one-bit strings, their complements and the full string; the
theorem holds for every string. `MCArithmetic` extends `BitPack`.

### WideInt, HalfSize, BaseSplit

`WideInt` is the word-by-word arithmetic, `HalfSize` the selectors over it with
plain integers, one iteration per step: eight selectors modulo 8 * 16411.
`BaseSplit` is the equation that uses a candidate. A point there is an element of
a cyclic group of order 8 L, so torsion is present; `MCMultiplication` enumerates
relations with odd and even multipliers and R that is right or off by a torsion
point. Together: a selector's candidate has a unit multiplier (`CandidateExact`),
and with such a multiplier the equation accepts exactly what the ordinary one
does (`AcceptsExact`).

## Runs

| Run | Configuration | Shows |
|---|---|---|
| `cache_admission` | 3 goroutines, 2 keys, one of them unbuildable, threshold 2 | `TypeOK`; `SingleBuilder`; `AdmissionExact`: no success lost or counted twice |
| `cache_promotion` | 2 goroutines, 3 keys, groups of 2, room for 2 promotions, hit counter wraps at 3, strict and plain calls mixed | `ByteAccounting`, `PendingTracked`, `StatsExact`, `PromotionDisabledJustified`, `DecisionsFinal`, refinement of `TableStore` |
| `cache_liveness` | 2 goroutines, 2 keys, 2 slots, room for both tables and one promotion | `SlotAccounting`, `DisabledJustified`, `CallsReturn`, `HotKeySettles` |
| `backend_select` | 3 goroutines, every environment value, with and without IFMA | `OneBackend`, `NoSilentDegrade`, `SelectionFinal`, `CallsReturn` |
| `r51_batch` | 2 keys, batches of 0, 3, 9, 10, 12, chunks of 8, all CPUs and both profiles | `VerdictsExact`, `WarmSegmentsSound`, `PoolClean`, `CreditsExact` |
| `r51_credit` | batches of 9, threshold 5 | violates `TableEarned` |
| `r51_lookup` | batches of 3 and 9 | violates `OneLookupPerItem` |
| `verifiers` | `BatchQ`: lanes of 2 and 4, chunks of 8, every dispatch path, used scratch then every batch; `R51Pipeline`: full, partial and half-empty groups; `WarmComb`: two groups, keys with aliases, slices clear or with earlier verdicts, widths refused; `PackedPair`: every pair of 36 signatures over good, small-order, undecodable and missing keys; `CombBuild`: three builds or preparations, two rows of three entries, two lanes, the field of 7, a failure at every operation | refinement of `BatchContract` by the lane pipeline (`ImplementsContract`) and by the other three (`VerifiersImplementContract`); `LanesExact`, `TablesExact` |
| `warm_width` | the configuration of `verifiers` | violates `ClearedOnError` |
| `request` | `Entry`: every input for single calls, batches up to 6, up to 3 profile changes; `Encoding`: all strings of 3 bytes of 5 bits; `SigPrep`: every sequence of groups up to 3 items; `MultiHash`: blocks of 8 with a length field of 2, lengths on both sides of each boundary | `OneProfile`, `EncodingExact`, `GroupExact`, `NothingPinned`, `DigestExact` |
| `multiplication` | `Recoding`: every scalar of 13 bits, several digit widths; `Multiply`: 23 evaluators, two lanes, an order of 5 bits; `BaseSplit`: L = 17, cofactor 8, radices 4 and 8, workspaces of one and two lanes | `RecodingExact`, `ResultExact`, `SplitExact` |
| `arithmetic` | `FieldLimbs`: three limbs, four representations, five operations from boundary values; `ScalarReduce`: radix 32, 16-bit words, boundary and spread inputs; `BitPack`: real widths; `WideInt`: all pairs of 3 words of 2 bits; `HalfSize`: modulus 8 * 16411, limits of 9 and 10 bits, every seventh challenge and the small ones; `Decode`: all encodings of a field of 29, two lanes; `CurvePoint`: a curve of 24 points, two scalings; `BatchEncode`: the same field, three groups of two lanes, dead lanes with any Z, stale workspace | `FieldExact`, `ReductionExact`, `PackingExact`, `HalfExact`, `DecodeExact`, `PointExact`, `EncodeExact` |

Behaviours of the batch and arithmetic runs end when their calls or
inputs are done, so those runs do not check deadlock; that a walk of `HalfSize`
ends before its iteration bound, and that `MultiHash` has delivered every digest
when it returns, are parts of `HalfExact` and `DigestExact`.

The bounds. Two goroutines suffice for every pairwise race on one word; the
third in `cache_admission` lets a builder and two sightings of its key overlap.
Thresholds are 1 or 2, so both sides of each comparison occur. `Width` is 2
instead of 4 with three keys, so that a full group, a group with a key left over
and a solo promotion all occur. The budgets are chosen to be met exactly and to
be missed by one. `HitLimit` stands for 2^31, so that the wrap happens;
`StatModulus` = 1 merges states that differ only in the hit and miss statistics.
The lanes are the real 4 and 8; a chunk of 8 instead of 64 gives batches of two
chunks, a full second chunk group and every tail width. Batches alternate keys by
groups of four, which yields cold-warm, warm-cold and warm-warm layouts as the
two keys change tiers, and have one special item in the first or second chunk.
For the arithmetic, a scaled width keeps what decides the cases: a modulus just
below a power of two, an order just above one, a machine word that a sum can
reach and a product cannot pass, digits that straddle bytes and words, and at
least two lanes, so that a lane can disturb another. Fields and curves are small
enough to enumerate every element and every point. Two of four lanes (`X4` = 2)
give full, partial and empty groups and halves. Two calls suffice for stale
scratch, because a worker keeps nothing else between calls. Of the three jobs of
`CombBuild` (`MaxJobs`) two can fail anywhere before the third succeeds in what
they left; its two choices of `Factors` differ in every entry, and one has a zero
in a single lane.
Symmetry is used for goroutines and keys only where keys are interchangeable, and
never with liveness. In `cache_promotion` the modes mix as in a process that
verifies compatible and strict batches; `narrow` and the generic backend's `all`
run in `cache_admission`.

Fairness. In `Cache`, weak fairness of each goroutine's steps: the Go scheduler
runs every runnable goroutine. No strong fairness of `Lock` is needed, since a
key settles after finitely many acquisitions. In `BackendSelect`, strong fairness
of `Lock` in addition: `sync.Mutex` hands the lock to a waiter that has starved
for a millisecond. Nothing is assumed about new calls. The other modules state
no liveness.

## Findings

- `r51_credit`. After a fault in a later chunk, `verifyBatchRawCached` asks for
  admission of every valid item of the batch, also of chunks admitted before the
  fault. With a threshold of 5 and a batch whose first chunk
  holds four items of a key and whose second chunk one more, the key has its
  table before its fifth success. Verdicts are not affected.
- `r51_lookup`. Batches below four items do no lookup, while the interface
  comment asks for exactly one per live item. The code comment at the early
  return gives the reason; the interface comment is out of date.
- `warm_width`. `WarmCombStrictVerifierX4.VerifyBatch` says "Every verdict is
  cleared before work starts and remains false on error"
  (`warm_comb_native.go:158`). It checks the width first (lines 165-169), so for
  a refused width it returns the error with the slice as it came, earlier true
  verdicts included. The backend is not affected: its caller has cleared the slice
  (`backend_r51.go:299-301`), and after an error recomputes it.

Two further observations, without a run: `lehmerMatrix` tests its cap after the
step, so a returned entry can reach it, while `internal/heea8l/lehmer.go:158`
says entries are capped below 2^31 (the products are checked later, so no result
is wrong); and `SetExtendedCoordinates` (`internal/edwards25519/extra.go:39`)
accepts (0:0:0:0), which stands for no point. It is the only such input (`QuadrupleIs`
in `PointProofs`), and nothing in the repository calls the function.

## Proofs

Each theorem holds for every value of the constants that its named assumption
allows. TLC evaluates the assumptions on every run, and checked the invariants
below on the runs' instances before they were proved.

| Module | Theorem | Property | Assumption |
|---|---|---|---|
| `CacheProofs` | `TypeCorrect`, `AtMostOneBuilder`, `CandidatesTracked` | `TypeOK`, `SingleBuilder`, `PendingTracked` | `CacheAssumption`: finite sets of goroutines and keys; thresholds, width, budget and sizes positive; an upgrade costs bytes; the hit counter holds the thresholds |
| `CacheProofs` | `SlotsAccounted`, `BytesAccounted`, `StatsCounted`, `DisablingJustified`, `PromotionDisablingJustified`, `DecisionsNeverRevised` | `SlotAccounting`, `ByteAccounting`, `StatsExact`, `DisabledJustified`, `PromotionDisabledJustified`, `DecisionsFinal` | the same |
| `CacheProofs` | `CacheImplementsStore`, `AdmissionCounted` | `ImplementsTableStore`, `AdmissionExact` | the same |
| `VerifierProofs` | `SelectionAgreed`, `SelectionHonest`, `SelectionNeverRevised`, `RequestNeverConsulted` | `OneBackend`, `NoSilentDegrade`, `SelectionFinal` | `SelectAssumption`: the portable backend is registered and neither native nor activating |
| `RequestProofs` | `OneProfileDecides`, `StrictNeverRelaxed` | `OneProfile`, `StrictFixed` | `EntryAssumption`: inputs are what the byte rules can tell apart |
| `RequestProofs` | `GroupAlwaysExact`, `NothingAlwaysPinned` | `GroupExact`, `NothingPinned` | `SigPrepAssumption`: the faults of an input are faults some rule looks for |
| `RequestProofs` | `DigestAlwaysExact` | `DigestExact` | `MultiHashAssumption`: a block holds four halves, and the length field is shorter than a block; the fixed shapes are those whose padding needs no further block |
| `RequestProofs` | `EncodingAlwaysExact` | `EncodingExact` | `EncodingAssumption`: what the comments of `encoding.go` say of the curve and its constants |
| `R51BatchProofs` | `VerdictsCorrect`, `WarmSegmentsCorrect`, `PoolNeverDirty`, `CreditsCorrect`, `PipelineHasWorker` | `VerdictsExact`, `WarmSegmentsSound`, `PoolClean`, `CreditsExact` | `R51BatchAssumption`: x8 is twice x4, chunks are whole x8 groups, batches are finite |
| `BatchQProofs` | `LanesCorrect`, `PipelineImplementsContract` | `LanesExact`, `ImplementsContract` | `BatchQAssumption`: the same about lanes and chunks |
| `VerifierProofs` | `PairImplementsContract`, `CoreImplementsContract` | the refinement of `BatchContract` | `PackedPairAssumption`, `R51PipelineAssumption`: the shape of the requests |
| `VerifierProofs` | `TablesAlwaysExact` | `TablesExact` | `CombBuildAssumption`: every nonzero field element has an inverse; tables have rows and entries, and doublings between rows; `CombKeysAssumption`: the shape of the groups |
| `VerifierProofs` | `WarmImplementsContract` | the refinement of `BatchContract` | `WarmCombAssumption`, `CombKeysAssumption`: the shape of the requests |
| `ArithmeticProofs` | `EncodeAlwaysExact` | `EncodeExact` | `FieldAssumption`: every nonzero field element has an inverse; `BatchEncodeAssumption`: the shape of the calls |
| `ArithmeticProofs` | `DecodeAlwaysExact` | `DecodeExact` | `FieldAssumption`; `DecodeAssumption`: P = 5 modulo 8, Fermat's theorem, `SqrtM1` squared is -1, D is no square; the shape of the requests |
| `PointProofs` | `PointAlwaysExact` | `PointExact` | `FieldAssumption`; `PointAssumption`: -1 is a square and D is none; scales are not zero; of the quadruples given from outside none is all zeros |
| `ArithmeticProofs` | `RecodingAlwaysExact` | `RecodingExact` | `RecodingAssumption`: bytes divide words and words the storage; the order is just above a power of two and leaves the high bit clear; the digits have room for a carry and span at most two bytes or words |
| `ArithmeticProofs` | `PackingAlwaysExact` | `PackingExact` | none |

How the arguments go, and why each needs more than the property itself:

- Cache, builders. `SingleBuilder` alone is not inductive. `AdmissionInv` adds
  `GroupFrame` (admission and promotion share `reserveTableBytes`; a group at
  hand tells the two apart) and `CounterPublished` (a counter is zero until
  published, and a compare-and-swap claims from a value that is not negative).
  Most actions are `Quiet`: they leave counters, tables and builders alone, and
  one lemma covers them.
- Cache, promotion. `PromotionInv` says who holds `promotionMu` (`LockHeld`),
  what a lookup's result is still worth when it is used (`PreKnown`), where a
  pending key waits (`PendingHeld`, `Candidates`), how far a group's installation
  has come (`GroupStatus`) and how many candidates there can be (`Widths`).
- Cache, limits. Slots: a compare-and-swap that takes one saw a free one
  (`SlotSeen`). Bytes: the counter is the price of what is stored and in flight
  (`Priced`), and a goroutine past the comparison knows its outcome still holds,
  because bytes are never given back (`BudgetFrame`). That is also why a refusal
  is final.
- Cache, credit. The decision to build reads one word, the table is another, the
  success that earned it is in no word at all. `CreditInv` bounds every counter,
  together with the goroutines about to raise it, by the successes really given
  (`SightingsEarned`, `HitsEarned`), however often the hit counter wraps. The
  refinement of `TableStore` follows: every step of a goroutine is a step of the
  store or a stutter. With slots and bytes left, `NoneLost` gives the other
  direction: no success is lost.
- Selection. Between resolving a name and publishing it, what was resolved stays
  publishable because the goroutine holds `selectMu` (`Resolved`), and nothing
  is recorded before something is published (`NothingYet`).
- Entry points. A call works with a profile that was the default while it ran
  (`ProfileKept`) and every path decides like `Accepts` (`RulesAgree` and the
  lemmas after it), so a fallback in the middle does not show.
- Batch dispatcher. `Progress` (verdicts and their conjunction are right up to the
  cursor of the phase at hand), `Requests` (credits likewise), `OnBoundary` and
  `WorkerAtHand`; the widest part is that a warm segment ends on a group boundary
  inside the chunk.
- Lane pipeline. `LaneInv` relates the scratch to the items by position: lanes
  before the cursor hold what their items deserve, lanes after it are clear
  (`Scratch`), packed keys belong to distinct lanes that are not yet live and
  never overflow their decode group (`Preparation`), the prepared lanes are
  exactly the deserving ones (`Reported`). `ScatterOwn` is the core of the
  compaction: decoding sends every packed key to its own lane and to no other.
- Pair and cores. Every internal step is a stutter of the contract; a fault
  clears what was written, the return gives the verdict of each item.
- Signature batch. `GroupExact` says nothing of what lies beyond the lengths of
  the slices, so it is not inductive. `BatchInv` adds `SlicesValid` (a length
  stays within its backing array), `StoresClean` (outside the part filled by the
  last group every segment store is empty, past stores entirely) and
  `HeadersValid` (each header points into a store that existed). The survivors
  are counted by induction over the group (`KeepRecursion`): the list of kept
  indices is increasing and holds exactly the admitted ones, so scattering the
  digests through it reaches each item once.
- Multi-buffer hash. `HashInv` says where each lane's cursor stands after
  `blockIndex` blocks (`LanesInStep`) and which groups have their digests
  (`GroupsInOrder`). The core is about one lane: whichever way a block is made,
  directly from a segment, byte by byte across segments, or by the fixed
  three-segment schedule, it is the next block of the padded message.
- Byte rules. A string is compared byte by byte and means a number. The highest
  byte that differs orders the numbers (`PrefixBelow`, `Compared`), and the bytes of a
  number denote it (`BytesDenote`), so every comparison with constant bytes names
  one number below the sign (`TailIs`, `WholeIs`). Small order then is a question
  about seven numbers (`SmallOrderNames`): the aliases p and p + 1 exist because
  2^255 leaves `Gap` values above p, and no other small-order y is below `Gap`. For R, a
  string is the encoding of its own point unless y is not reduced or the sign is
  set where x is zero (`CanonicalRHolds`).
- Per-key tables. `TablesExact` speaks of finished tables only. `BuildInv` says how
  far the build at hand has come: what the arrays hold below the index of the
  current stage is of this build (`RowsRight`, `DoublingRight`, `EntriesRight`,
  `PrefixesRight`, `InversesRight`, `AffineRight`), and nothing at all is said of
  the rest, where earlier builds left what they left. The steps are arithmetic:
  an entry's multiple from its place in its row and the doublings before it
  (`NextEntry`, `MultipleOf`), and the running inverse times the prefix product
  stays 1 from the last entry to the first (`MoveFactor`), so that each entry
  meets its own inverse.
- Warm verifier. `WarmInv` says what the scratch holds group by group, that the
  key object of an item is that of the bytes it names, and what the caller's
  slice holds until the call returns: what it came with, as long as the width is
  not accepted, and nothing true afterwards.
- Batch encoding. Groups share one inversion, so a lane's result passes through
  values of every other group. `EncodeInv` says what each pass has established so
  far: the mask holds the lanes that take part (`Masked`); prefix products are
  those of the sanitized Z up to the group reached (`Prefixed`); in the backward
  pass the running inverse times the prefix is 1 and the groups behind are inverted
  (`Inverted`); results staged are final or empty (`Staging`). A zero product is
  traced by induction to a zero Z of a live lane (`ZeroTraced`), which is why a
  dead lane is never blamed; and the two errors and the literal comparison follow
  because each is decided before anything is written.
- Decoding. A program is a sequence of stages of two points; a lane of a point
  climbs from level to level, and each decoder's program, in lockstep or point
  after point, is shown to climb all the way (`Segments`, `RunsBoth`,
  `Programs`). `DecodeInv` says what the registers hold at a level (`LaneAt`),
  so the order of stages no longer matters. The rest is number theory about one
  lane. v is never zero, since D x^2 = -1 would make D a square
  (`DenominatorNonzero`). The exponent (P - 5) / 8 leaves v r^2 = u e with e a
  fourth root of one, and e^2 = 1 if u / v is a square at all (`RootOfUnity`, from
  Fermat's theorem by `RaiseSum` and `RaiseProduct`). Hence the three comparisons
  decide squareness and pick the right factor (`RootChosen`), and the sign is
  right whichever of the two orders of negation a decoder uses (`SignChosen`).
  The chains are evaluated step by step, with intervals of exponent bits
  (`ChainSteps`).
- Group law. `PointExact` says nothing of a coordinate that the form at hand does
  not carry, so it is not inductive. `PointInv` says that the pair is on the curve
  and that the accumulator is a nonzero scaling of it (P3), the same without T
  (P2), or four factors <<E, F, G, H>> with x = E / G and y = H / F, F and G not
  zero (completed). Where a point runs without its T there is nothing an addition
  could read. Formulas are polynomials, so an identity over the integers holds
  for residues; every implementation of an addition, cached, packed or vendored,
  runs through one linear stage (`NielsCompletes`, `StageProducts`) and
  every doubling through another, up to the signs of F and H
  (`DoublingCompletes`). That the factors never vanish and the sum stays on the
  curve is the completeness of the Edwards addition law (`Complete`,
  `SumOnCurve`): a zero denominator would make D a quotient of squares
  (`NonSquare`). Comparisons follow because a nonzero scale cancels
  (`ScaleCancels`), and encodings because two points with one y are opposite and
  the modulus is odd (`BytesTell`).
- Recodings. Extraction first: however a recoder reads a digit (two bytes, one
  word or two, the last byte alone), it gets the same bits of the scalar
  (`ByteExtraction`, `LastByte`, `WordExtraction`). The digits written so far then
  stand for the bits read less the carry (`BalancedSums`, `Written`). That no
  carry is left at the end is the part a bound on the scalar alone does not give:
  a carry is held only when more than a third of the range lies below it
  (`CarryMeansThird`), or, in the non-adjacent form, when the top bit read is set
  (`CarryHeld`), and a canonical scalar is too small for either. Powers of two
  come from counting subsets (`PowerStep`), since the provers know nothing of
  exponents.
- Bit packing. Everything is stated bit by bit. A limb that lies in one word, or
  across two, or in a load of three, four or eight bytes, is the same slice of the
  string (`InWord`, `AcrossIsSlice`, `LoadSlice`); the tables of scalar loads and
  stores are walked once (`LoadTable`, `StoreTable`). Going back, a word takes the
  rest of one limb and the start of the next (`JoinedWord`), except the one 43-bit
  word that takes bits of three. The last limb is where the layouts differ: a
  field element's has no bit above 255, a product's twelfth is masked and a
  short scalar's is not, and only its low bits come back (`StoredByte`).
- Recursion over data. The library's induction theorems take the predicate as an
  operator, which the provers cannot instantiate. `DataInduction` states
  induction with the predicate as a set (`SetInduction`, from the
  well-foundedness of the naturals) and shows that a function computed step by
  step exists (`Computable`); a recursive function is first shown to satisfy its
  recursion, and the induction then runs over the set of indices at which it has
  the value claimed.

Three things the proofs brought to light, none a fault: `requested` is never
consulted by `active()`, because it is set only together with the published
backend (`RequestNeverConsulted`); the pointer to the batch worker that
`verifyBatchRawPrecomputedErr` leaves nil is never followed
(`PipelineHasWorker`); and the lane pipeline is right only if a decoded-A entry
that matches a key's bytes stands for a key that decodes, which is why `Item`
says so: entries come from the cache, which builds none for other keys.

Only model-checked, and why:

- `CallsReturn` and `HotKeySettles`: the prover handles neither fairness nor
  ENABLED.
- `ResultExact`, `SplitExact`, `FieldExact`, `ReductionExact`, `HalfExact`: facts
  about numbers (multiples of points, products of limbs, quotients) at whose root lies nonlinear or bit-level arithmetic that the SMT
  solver does not decide, over functions that nest recursion inside recursion.
  The steps of these components are calls without an interleaving, so the runs
  enumerate what matters: every scalar or boundary value of a scaled
  width.

## Plan

Done: the modules above; every safety property of the cache, of backend
selection, of the entry points, of the batch dispatcher, of the signature batch,
of the multi-buffer hash, of the byte rules, of the table builder, of point
decoding, of the group law, of batch encoding, of the scalar recodings and of bit packing proved; the four refinements
of `BatchContract` and the refinement of `TableStore`. Left are proofs about the rest of the arithmetic:
the properties listed last as only model-checked.
