------------------------------- MODULE Cache -------------------------------
(***************************************************************************)
(* The concurrent per-key table cache of ed25519/cache.go.                 *)
(*                                                                         *)
(* Every process of Procs is a goroutine that is inside at most one cache  *)
(* verification of one key; a batch item is a call of its own, because the *)
(* items of a batch share nothing but the state modelled here.  Each       *)
(* action performs one operation on shared state (an atomic load, store,   *)
(* add or compare-and-swap, a sync.Map operation, a mutex operation), so   *)
(* that TLC interleaves goroutines exactly where the Go code can be        *)
(* preempted.  A *PrecomputedKey is abstracted to its tier: the cache only *)
(* ever holds one first-tier and one second-tier entry per key.            *)
(*                                                                         *)
(* Left out, because they touch no shared state: a nil cache, inputs that  *)
(* the profile rejects before the lookup, and backends without tables.     *)
(***************************************************************************)
EXTENDS Integers, FiniteSets

CONSTANTS
  Procs,            \* goroutines
  Keys,             \* public keys
  NoProc, NoKey,    \* "nobody holds the mutex", "no call in progress"
  Buildable,        \* keys for which backend.buildPrecomp returns a table
  Modes,            \* how a call of the selected backend uses the cache
  BuildThreshold,   \* buildThreshold
  EntryLimit,       \* admissionEntryLimit
  MaxBytes,         \* MaxTableBytes (after the zero default is resolved)
  DecodedBytes,     \* size of a first-tier entry
  WarmBytes,        \* size of a second-tier entry
  PromotionThreshold, SoloThreshold,  \* the promoter's two thresholds
  Width,            \* precomputedPromotionWidth
  HitLimit,         \* 2^31: promotionState.hits is an int32 and wraps
  StatModulus       \* 2^64: the statistics counters wrap

Tiers == {"none", "decoded", "warm"}

\* "narrow": no lookup, then admit (r51 singletons and batches below four).
\* "strict": lookup, then admit a miss and promote a hit (r51 wide batches).
\* "plain" : lookup, then admit a miss only (generic Verify; r51 compat batch).
\* "all"   : lookup, then admit hit or miss (generic VerifyBatch).
AllModes == {"narrow", "strict", "plain", "all"}

\* Negative values of an admission counter.
admissionBuilding == -1
admissionDisabled == -2
admissionComplete == -3

\* History of successes worth remembering: enough for both tiers.
Earned == BuildThreshold + PromotionThreshold

Statuses == {"idle", "pending", "building", "complete", "disabled"}

ASSUME CacheAssumption ==
  /\ IsFiniteSet(Procs) /\ IsFiniteSet(Keys)
  /\ NoProc \notin Procs /\ NoKey \notin Keys
  /\ Buildable \subseteq Keys /\ Modes \subseteq AllModes
  /\ BuildThreshold \in Nat \ {0} /\ EntryLimit \in Nat /\ MaxBytes \in Nat \ {0}
  /\ DecodedBytes \in Nat \ {0} /\ WarmBytes \in Nat /\ WarmBytes > DecodedBytes
  /\ PromotionThreshold \in Nat \ {0} /\ SoloThreshold \in Nat
  /\ Width \in Nat \ {0} /\ StatModulus \in Nat \ {0}
  /\ HitLimit \in Nat /\ HitLimit > SoloThreshold /\ HitLimit > PromotionThreshold

VARIABLES
  tables, count, bytes,                \* Cache.tables, .count, .bytes
  hits, misses,                        \* Cache.hits, .misses
  seen, counter, seenCount,            \* Cache.seen, its counters, .seenCount
  promoHits, status,                   \* promotionState.hits, .status per key
  promotionPending, promotionMu,       \* the grouped candidates and their lock
  promoted, faults,                    \* Cache.promoted, r51Backend.faults
  pc, key, mode, pre, reg, force, group,  \* each goroutine's stack
  verified                             \* history: successful verdicts per key,
                                       \* saturating at Earned

tableVars == <<tables, count, bytes>>
statVars == <<hits, misses>>
admissionVars == <<seen, counter, seenCount>>
promotionVars == <<promoHits, status, promotionPending, promotionMu, promoted, faults>>
localVars == <<key, mode, pre, reg, force, group>>
shared == <<tableVars, statVars, admissionVars, promotionVars, verified>>
vars == <<shared, pc, localVars>>

AdmitLabels == {"admit", "budget", "counter", "slot", "casSlot", "recheck", "publish",
                "unslot", "claim", "casClaim"}
BuildLabels == {"rebudget", "build", "store", "count", "complete", "disable"}
QueueLabels == {"promote", "status", "casStatus", "restatus", "lock"}
LockedLabels == {"queue", "group", "solo", "buildWarm", "install"}
ReserveLabels == {"reserve", "casBytes", "refused"}
Labels == {"idle", "lookup", "verify"} \cup AdmitLabels \cup BuildLabels
            \cup QueueLabels \cup LockedLabels \cup ReserveLabels

Init ==
  /\ tables = [k \in Keys |-> "none"] /\ count = 0 /\ bytes = 0
  /\ hits = 0 /\ misses = 0
  /\ seen = {} /\ counter = [k \in Keys |-> 0] /\ seenCount = 0
  /\ promoHits = [k \in Keys |-> 0] /\ status = [k \in Keys |-> "idle"]
  /\ promotionPending = {} /\ promotionMu = NoProc
  /\ promoted = 0 /\ faults = 0
  /\ pc = [p \in Procs |-> "idle"] /\ key = [p \in Procs |-> NoKey]
  /\ mode = [p \in Procs |-> "none"] /\ pre = [p \in Procs |-> "none"]
  /\ reg = [p \in Procs |-> 0] /\ force = [p \in Procs |-> FALSE]
  /\ group = [p \in Procs |-> {}]
  /\ verified = [k \in Keys |-> 0]

-----------------------------------------------------------------------------
\* Control of one goroutine.

Goto(p, label) == pc' = [pc EXCEPT ![p] = label] /\ UNCHANGED localVars

\* Load a shared word into the goroutine's register and go on.
Load(p, value, label) ==
  /\ pc' = [pc EXCEPT ![p] = label]
  /\ reg' = [reg EXCEPT ![p] = value]
  /\ UNCHANGED <<key, mode, pre, force, group>>

\* The call returns and its stack frame is gone.
Return(p) ==
  /\ pc' = [pc EXCEPT ![p] = "idle"] /\ key' = [key EXCEPT ![p] = NoKey]
  /\ mode' = [mode EXCEPT ![p] = "none"] /\ pre' = [pre EXCEPT ![p] = "none"]
  /\ reg' = [reg EXCEPT ![p] = 0] /\ force' = [force EXCEPT ![p] = FALSE]
  /\ group' = [group EXCEPT ![p] = {}]

-----------------------------------------------------------------------------
\* verifyWithBackend, verifyBatchWithBackend and the cached r51 batch.

Begin(p) ==
  /\ pc[p] = "idle"
  /\ \E k \in Keys, m \in Modes :
       /\ key' = [key EXCEPT ![p] = k]
       /\ mode' = [mode EXCEPT ![p] = m]
       /\ pc' = [pc EXCEPT ![p] = IF m = "narrow" THEN "verify" ELSE "lookup"]
  /\ UNCHANGED <<shared, pre, reg, force, group>>

lookup(p) ==
  /\ pc[p] = "lookup"
  /\ pre' = [pre EXCEPT ![p] = tables[key[p]]]
  /\ pc' = [pc EXCEPT ![p] = "verify"]
  /\ \/ tables[key[p]] # "none" /\ hits' = (hits + 1) % StatModulus /\ UNCHANGED misses
     \/ tables[key[p]] = "none" /\ misses' = (misses + 1) % StatModulus /\ UNCHANGED hits
  /\ UNCHANGED <<tableVars, admissionVars, promotionVars, verified>>
  /\ UNCHANGED <<key, mode, reg, force, group>>

\* The backend's verdict.  Only a valid signature reaches admit or promote.
Accept(p) ==
  /\ verified' = [verified EXCEPT ![key[p]] =
                    IF @ < Earned THEN @ + 1 ELSE @]
  /\ \/ pre[p] = "none" /\ Goto(p, "admit")
     \/ pre[p] # "none" /\ mode[p] = "all" /\ Goto(p, "admit")
     \/ pre[p] # "none" /\ mode[p] = "strict" /\ Goto(p, "promote")
     \/ pre[p] # "none" /\ mode[p] = "plain" /\ Return(p)
  /\ UNCHANGED <<tableVars, statVars, admissionVars, promotionVars>>

\* Mutant: an invalid signature reaches admit.
RejectAdmits(p) == (IF pre[p] = "none" THEN Goto(p, "admit") ELSE Return(p)) /\ UNCHANGED shared

Reject(p) == Return(p) /\ UNCHANGED shared

Verify(p) == pc[p] = "verify" /\ (Accept(p) \/ Reject(p))

-----------------------------------------------------------------------------
\* admit, up to the claim.

AdmitTable(p) ==
  /\ pc[p] = "admit"
  /\ \/ tables[key[p]] # "none" /\ Return(p)
     \/ tables[key[p]] = "none" /\ Goto(p, "budget")
  /\ UNCHANGED shared

AdmitBudget(p) ==
  /\ pc[p] = "budget"
  /\ \/ bytes >= MaxBytes /\ Return(p)
     \/ bytes < MaxBytes /\ Goto(p, "counter")
  /\ UNCHANGED shared

\* admissionCounter: the first seen.Load, and the second after a refused slot.
SeenLoad(p) ==
  /\ pc[p] \in {"counter", "recheck"}
  /\ \/ key[p] \in seen /\ Goto(p, "claim")
     \/ key[p] \notin seen /\ pc[p] = "counter" /\ Goto(p, "slot")
     \/ key[p] \notin seen /\ pc[p] = "recheck" /\ Return(p)
  /\ UNCHANGED shared

\* reserveAdmissionSlot: load, then compare-and-swap, in a loop.
\* Mutant: wait for a slot instead of refusing.
SlotRefusedWaits(p) == Goto(p, "slot")

SlotRefused(p) == Goto(p, "recheck")

SlotLoad(p) ==
  /\ pc[p] = "slot"
  /\ \/ seenCount >= EntryLimit /\ SlotRefused(p)
     \/ seenCount < EntryLimit /\ Load(p, seenCount, "casSlot")
  /\ UNCHANGED shared

\* Mutant: an Add instead of the compare-and-swap.
SlotUnchangedIgnored(p) == TRUE

SlotUnchanged(p) == seenCount = reg[p]

SlotCAS(p) ==
  /\ pc[p] = "casSlot"
  /\ \/ SlotUnchanged(p) /\ seenCount' = seenCount + 1 /\ Goto(p, "publish")
     \/ ~SlotUnchanged(p) /\ UNCHANGED seenCount /\ Goto(p, "slot")
  /\ UNCHANGED <<tableVars, statVars, seen, counter, promotionVars, verified>>

\* Mutant: Store instead of LoadOrStore.
FirstPublisherAlways(p) == TRUE

FirstPublisher(p) == key[p] \notin seen

\* seen.LoadOrStore; the loser gives its slot back in SlotRelease.
Publish(p) ==
  /\ pc[p] = "publish"
  /\ \/ /\ FirstPublisher(p)
        /\ seen' = seen \cup {key[p]}
        /\ counter' = [counter EXCEPT ![key[p]] = 0]
        /\ Goto(p, "claim")
     \/ ~FirstPublisher(p) /\ UNCHANGED <<seen, counter>> /\ Goto(p, "unslot")
  /\ UNCHANGED <<tableVars, statVars, seenCount, promotionVars, verified>>

SlotRelease(p) ==
  /\ pc[p] = "unslot"
  /\ seenCount' = seenCount - 1
  /\ Goto(p, "claim")
  /\ UNCHANGED <<tableVars, statVars, seen, counter, promotionVars, verified>>

\* Mutant: the sign of the counter is not looked at.
DecidedNever(p) == FALSE

Decided(p) == counter[key[p]] < 0

\* claimAdmissionBuild: load, then compare-and-swap, in a loop.
ClaimLoad(p) ==
  /\ pc[p] = "claim"
  /\ \/ Decided(p) /\ Return(p)
     \/ ~Decided(p) /\ Load(p, counter[key[p]], "casClaim")
  /\ UNCHANGED shared

\* Mutant: a plain Store of the loaded value plus one.
ClaimUnchangedIgnored(p) == TRUE

ClaimUnchanged(p) == counter[key[p]] = reg[p]

\* Mutant: one sighting too late.
AtThresholdLate(p) == reg[p] >= BuildThreshold

AtThreshold(p) == reg[p] >= BuildThreshold - 1

ClaimCAS(p) ==
  /\ pc[p] = "casClaim"
  /\ \/ ~ClaimUnchanged(p) /\ Goto(p, "claim") /\ UNCHANGED counter
     \/ /\ ClaimUnchanged(p) /\ AtThreshold(p)
        /\ counter' = [counter EXCEPT ![key[p]] = admissionBuilding]
        /\ Goto(p, "rebudget")
     \/ /\ ClaimUnchanged(p) /\ ~AtThreshold(p)
        /\ counter' = [counter EXCEPT ![key[p]] = reg[p] + 1]
        /\ Return(p)
  /\ UNCHANGED <<tableVars, statVars, seen, seenCount, promotionVars, verified>>

-----------------------------------------------------------------------------
\* admit, after the claim: only the builder of a key gets here.

BuildBudget(p) ==
  /\ pc[p] = "rebudget"
  /\ \/ bytes >= MaxBytes /\ Goto(p, "disable")
     \/ bytes < MaxBytes /\ Goto(p, "build")
  /\ UNCHANGED shared

\* buildPrecomp, then the defensive tables.Load.
Build(p) ==
  /\ pc[p] = "build"
  /\ \/ key[p] \notin Buildable /\ Goto(p, "disable")
     \/ /\ key[p] \in Buildable
        /\ Goto(p, IF tables[key[p]] # "none" THEN "complete" ELSE "reserve")
  /\ UNCHANGED shared

\* Mutant: a promoted group pays for one candidate only.
NeedOne(p) == IF group[p] = {} THEN DecodedBytes ELSE WarmBytes - DecodedBytes

\* Bytes the goroutine asks for: one entry, or what a promoted group adds.
Need(p) == IF group[p] = {} THEN DecodedBytes
           ELSE Cardinality(group[p]) * (WarmBytes - DecodedBytes)

\* Mutant: the last byte of the budget cannot be used.
FitsBelow(p) == Need(p) <= MaxBytes /\ bytes < MaxBytes - Need(p)

Fits(p) == Need(p) <= MaxBytes /\ bytes <= MaxBytes - Need(p)

\* reserveTableBytes, for admission and promotion alike.
ReserveLoad(p) ==
  /\ pc[p] = "reserve"
  /\ \/ ~Fits(p) /\ Goto(p, "refused")
     \/ Fits(p) /\ Load(p, bytes, "casBytes")
  /\ UNCHANGED shared

ReserveCAS(p) ==
  /\ pc[p] = "casBytes"
  /\ \/ /\ bytes = reg[p] /\ bytes' = reg[p] + Need(p)
        /\ Goto(p, IF group[p] = {} THEN "store" ELSE "install")
     \/ bytes # reg[p] /\ UNCHANGED bytes /\ Goto(p, "reserve")
  /\ UNCHANGED <<tables, count, statVars, admissionVars, promotionVars, verified>>

\* tables.LoadOrStore; a loser would hand its bytes back.
StoreTable(p) ==
  /\ pc[p] = "store"
  /\ IF tables[key[p]] = "none"
     THEN /\ tables' = [tables EXCEPT ![key[p]] = "decoded"]
          /\ Goto(p, "count") /\ UNCHANGED bytes
     ELSE /\ bytes' = bytes - DecodedBytes
          /\ Goto(p, "complete") /\ UNCHANGED tables
  /\ UNCHANGED <<count, statVars, admissionVars, promotionVars, verified>>

CountTable(p) ==
  /\ pc[p] = "count"
  /\ count' = count + 1
  /\ Goto(p, "complete")
  /\ UNCHANGED <<tables, bytes, statVars, admissionVars, promotionVars, verified>>

\* The builder's last store: admissionComplete or admissionDisabled.
Finish(p) ==
  /\ \/ /\ pc[p] = "complete"
        /\ counter' = [counter EXCEPT ![key[p]] = admissionComplete]
     \/ /\ pc[p] = "disable" \/ (pc[p] = "refused" /\ group[p] = {})
        /\ counter' = [counter EXCEPT ![key[p]] = admissionDisabled]
  /\ Return(p)
  /\ UNCHANGED <<tableVars, statVars, seen, seenCount, promotionVars, verified>>

-----------------------------------------------------------------------------
\* promote.

\* atomic.Int32.Add.
WrapAdd(n) == IF n + 1 = HitLimit THEN -HitLimit ELSE n + 1

\* promotable, promotionState (a fresh state is all zero) and hits.Add.
PromoteHit(p) ==
  /\ pc[p] = "promote"
  /\ \/ pre[p] = "warm" /\ Return(p) /\ UNCHANGED promoHits
     \/ /\ pre[p] = "decoded"
        /\ promoHits' = [promoHits EXCEPT ![key[p]] = WrapAdd(@)]
        /\ Load(p, WrapAdd(promoHits[key[p]]), "status")
  /\ UNCHANGED <<tableVars, statVars, admissionVars, verified>>
  /\ UNCHANGED <<status, promotionPending, promotionMu, promoted, faults>>

\* queuePromotion(forceSolo) starts by taking the lock.
CallQueue(p, forceSolo) ==
  /\ pc' = [pc EXCEPT ![p] = "lock"]
  /\ force' = [force EXCEPT ![p] = forceSolo]
  /\ UNCHANGED <<key, mode, pre, reg, group>>

\* Both loads of state.status.
PromoteStatus(p) ==
  LET k == key[p]
      candidate == pc[p] = "status" /\ status[k] = "idle" /\ reg[p] >= PromotionThreshold
      overdue == status[k] = "pending" /\ reg[p] >= SoloThreshold
  IN  /\ pc[p] \in {"status", "restatus"}
      /\ \/ candidate /\ Goto(p, "casStatus")
         \/ overdue /\ CallQueue(p, TRUE)
         \/ ~candidate /\ ~overdue /\ Return(p)
      /\ UNCHANGED shared

PromoteCAS(p) ==
  /\ pc[p] = "casStatus"
  /\ \/ /\ status[key[p]] = "idle"
        /\ status' = [status EXCEPT ![key[p]] = "pending"]
        /\ CallQueue(p, FALSE)
     \/ status[key[p]] # "idle" /\ UNCHANGED status /\ Goto(p, "restatus")
  /\ UNCHANGED <<tableVars, statVars, admissionVars, verified>>
  /\ UNCHANGED <<promoHits, promotionPending, promotionMu, promoted, faults>>

-----------------------------------------------------------------------------
\* queuePromotion and what it calls with promotionMu held.

Lock(p) ==
  /\ pc[p] = "lock"
  /\ promotionMu = NoProc
  /\ promotionMu' = p
  /\ Goto(p, "queue")
  /\ UNCHANGED <<tableVars, statVars, admissionVars, verified>>
  /\ UNCHANGED <<promoHits, status, promotionPending, promoted, faults>>

UnlockReturn(p) == promotionMu' = NoProc /\ Return(p)

\* Mutant: a full group waits for one more candidate.
GroupReadyLate(p) == Cardinality(promotionPending \cup {key[p]}) > Width

GroupReady(p) == Cardinality(promotionPending \cup {key[p]}) >= Width

\* Mutant: forceSolo is ignored.
FlushNever(p) == FALSE

Flush(p) == force[p]

queuePromotion(p) ==
  LET k == key[p]
      current == status[k] = "pending" /\ tables[k] = pre[p]
  IN  /\ pc[p] = "queue"
      /\ \/ /\ ~current
            /\ IF status[k] # "pending" THEN UNCHANGED <<status, promotionPending>>
               ELSE /\ status' = [status EXCEPT ![k] = "complete"]
                    /\ promotionPending' = promotionPending \ {k}
            /\ UnlockReturn(p)
         \/ /\ current /\ promotionPending' = promotionPending \cup {k} /\ UNCHANGED status
            /\ \/ GroupReady(p) /\ Goto(p, "group") /\ UNCHANGED promotionMu
               \/ ~GroupReady(p) /\ Flush(p) /\ Goto(p, "solo") /\ UNCHANGED promotionMu
               \/ ~GroupReady(p) /\ ~Flush(p) /\ UnlockReturn(p)
      /\ UNCHANGED <<tableVars, statVars, admissionVars, verified>>
      /\ UNCHANGED <<promoHits, promoted, faults>>

\* Hand a group of candidates to commitPromotionLocked.
BuildGroup(p, g) ==
  /\ group' = [group EXCEPT ![p] = g]
  /\ pc' = [pc EXCEPT ![p] = "buildWarm"]
  /\ UNCHANGED <<key, mode, pre, reg, force>>

\* The map is visited in any order, until Width current candidates are found.
\* Too few of them go back as they were.  Status stores made under the lock
\* are one step: outside the lock, "building" is as inert as what follows it.
buildPromotionGroupLocked(p) ==
  /\ pc[p] = "group"
  /\ \E visited \in SUBSET promotionPending :
       LET fresh == {k \in visited : tables[k] = "decoded"}
           full == Cardinality(fresh) = Width
       IN  /\ full \/ (visited = promotionPending /\ Cardinality(fresh) < Width)
           /\ status' = [k \in Keys |-> IF k \in visited \ fresh THEN "complete"
                                        ELSE IF full /\ k \in fresh THEN "building"
                                        ELSE status[k]]
           /\ promotionPending' = promotionPending \ (IF full THEN visited ELSE visited \ fresh)
           /\ IF full THEN BuildGroup(p, fresh) /\ UNCHANGED promotionMu
              ELSE UnlockReturn(p)
  /\ UNCHANGED <<tableVars, statVars, admissionVars, verified>>
  /\ UNCHANGED <<promoHits, promoted, faults>>

buildSoloPromotionLocked(p) ==
  /\ pc[p] = "solo"
  /\ promotionPending' = promotionPending \ {key[p]}
  /\ IF tables[key[p]] = "decoded"
     THEN /\ status' = [status EXCEPT ![key[p]] = "building"]
          /\ BuildGroup(p, {key[p]}) /\ UNCHANGED promotionMu
     ELSE /\ status' = [status EXCEPT ![key[p]] = "complete"]
          /\ UnlockReturn(p)
  /\ UNCHANGED <<tableVars, statVars, admissionVars, verified>>
  /\ UNCHANGED <<promoHits, promoted, faults>>

\* Every candidate of the goroutine's group gets the same final status.
StoreGroup(p, s) == status' = [k \in Keys |-> IF k \in group[p] THEN s ELSE status[k]]

\* commitPromotionLocked: buildPromotedPrecompGroup, which may fault.
BuildWarm(p) ==
  /\ pc[p] = "buildWarm"
  /\ \/ Goto(p, "reserve") /\ UNCHANGED <<status, promotionMu, faults>>
     \/ StoreGroup(p, "disabled") /\ faults' = faults + 1 /\ UnlockReturn(p)
  /\ UNCHANGED <<tableVars, statVars, admissionVars, verified>>
  /\ UNCHANGED <<promoHits, promotionPending, promoted>>

\* commitPromotionLocked: the budget refuses the whole group.
RefuseGroup(p) ==
  /\ pc[p] = "refused" /\ group[p] # {}
  /\ StoreGroup(p, "disabled") /\ UnlockReturn(p)
  /\ UNCHANGED <<tableVars, statVars, admissionVars, verified>>
  /\ UNCHANGED <<promoHits, promotionPending, promoted, faults>>

\* commitPromotionLocked: per candidate, tables.Store and then its status.
InstallTable(p) ==
  /\ pc[p] = "install"
  /\ \A k \in group[p] : tables[k] = "warm" => status[k] = "complete"
  /\ \E k \in group[p] : /\ tables[k] # "warm"
                         /\ tables' = [tables EXCEPT ![k] = "warm"]
  /\ UNCHANGED <<count, bytes, statVars, admissionVars, promotionVars, verified, pc, localVars>>

Stored(k) == tables[k] = "warm"

InstallStatus(p) ==
  /\ pc[p] = "install"
  /\ \E k \in group[p] : /\ Stored(k) /\ status[k] # "complete"
                         /\ status' = [status EXCEPT ![k] = "complete"]
  /\ UNCHANGED <<tableVars, statVars, admissionVars, verified, pc, localVars>>
  /\ UNCHANGED <<promoHits, promotionPending, promotionMu, promoted, faults>>

\* Mutant: a solo promotion counts as a full group.
UniqueLanes(p) == Width

Unique(p) == Cardinality(group[p])

InstallDone(p) ==
  /\ pc[p] = "install"
  /\ \A k \in group[p] : tables[k] = "warm" /\ status[k] = "complete"
  /\ promoted' = promoted + Unique(p)
  /\ UnlockReturn(p)
  /\ UNCHANGED <<tableVars, statVars, admissionVars, verified>>
  /\ UNCHANGED <<promoHits, status, promotionPending, faults>>

-----------------------------------------------------------------------------

\* A step of a call in progress.
Step(p) ==
  \/ lookup(p) \/ Verify(p)
  \/ AdmitTable(p) \/ AdmitBudget(p) \/ SeenLoad(p) \/ SlotLoad(p) \/ SlotCAS(p)
  \/ Publish(p) \/ SlotRelease(p) \/ ClaimLoad(p) \/ ClaimCAS(p)
  \/ BuildBudget(p) \/ Build(p) \/ ReserveLoad(p) \/ ReserveCAS(p)
  \/ StoreTable(p) \/ CountTable(p) \/ Finish(p)
  \/ PromoteHit(p) \/ PromoteStatus(p) \/ PromoteCAS(p)
  \/ Lock(p) \/ queuePromotion(p) \/ buildPromotionGroupLocked(p)
  \/ buildSoloPromotionLocked(p) \/ BuildWarm(p) \/ RefuseGroup(p)
  \/ InstallTable(p) \/ InstallStatus(p) \/ InstallDone(p)

Next == \E p \in Procs : Begin(p) \/ Step(p)

Spec == Init /\ [][Next]_vars

\* The Go scheduler runs every runnable goroutine; nobody has to start a call.
FairSpec == Spec /\ \A p \in Procs : WF_vars(Step(p))
=============================================================================
