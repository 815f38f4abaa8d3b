-------------------------- MODULE CacheProperties --------------------------
(***************************************************************************)
(* Correctness properties of the cache of module Cache.                    *)
(***************************************************************************)
EXTENDS Cache

SharedTypeOK ==
  /\ tables \in [Keys -> Tiers] /\ count \in Nat /\ bytes \in Int
  /\ hits \in Nat /\ misses \in Nat
  /\ seen \subseteq Keys /\ seenCount \in Int
  /\ counter \in [Keys -> admissionComplete .. (BuildThreshold - 1)]
  /\ promoHits \in [Keys -> -HitLimit .. (HitLimit - 1)]
  /\ status \in [Keys -> Statuses] /\ promotionPending \subseteq Keys
  /\ promotionMu \in Procs \cup {NoProc} /\ promoted \in Nat /\ faults \in Nat
  /\ verified \in [Keys -> 0 .. Earned]

\* A goroutine inside a call has a key.
LocalTypeOK ==
  /\ pc \in [Procs -> Labels] /\ key \in [Procs -> Keys \cup {NoKey}]
  /\ mode \in [Procs -> AllModes \cup {"none"}] /\ pre \in [Procs -> Tiers]
  /\ reg \in [Procs -> Int] /\ force \in [Procs -> BOOLEAN]
  /\ group \in [Procs -> SUBSET Keys]
  /\ \A p \in Procs : pc[p] # "idle" => key[p] \in Keys

\* Every variable stays within its type; counters that only grow have no cap.
TypeOK == SharedTypeOK /\ LocalTypeOK

-----------------------------------------------------------------------------
\* Admission.

\* The goroutine holds the permission claimAdmissionBuild grants for its key.
IsBuilder(p) ==
  pc[p] \in BuildLabels \/ (pc[p] \in ReserveLabels /\ group[p] = {})

\* The counter says building exactly while some goroutine builds.
BuilderMarked ==
  \A k \in Keys :
    (counter[k] = admissionBuilding) <=> (\E p \in Procs : key[p] = k /\ IsBuilder(p))

\* Two builders build different keys.
BuilderUnique ==
  \A p, q \in Procs : IsBuilder(p) /\ IsBuilder(q) /\ key[p] = key[q] => p = q

\* A key with a table is decided, or its builder is about to say so.
TableDecided ==
  \A k \in Keys : tables[k] # "none" =>
    \/ counter[k] = admissionComplete
    \/ \E p \in Procs : key[p] = k /\ pc[p] \in {"count", "complete"}

\* At most one goroutine builds a key's table ("grants exactly one goroutine
\* permission to build"), it does so exactly while the counter says building,
\* and never for a key that already has a table another builder stored.
SingleBuilder == BuilderMarked /\ BuilderUnique /\ TableDecided

\* What SingleBuilder needs to be inductive.  A group is at hand exactly on the
\* promotion side of reserveTableBytes, and its keys have tables.
GroupFrame ==
  \A p \in Procs :
    /\ pc[p] \in {"buildWarm", "install"} => group[p] # {}
    /\ pc[p] \notin {"buildWarm", "install"} \cup ReserveLabels => group[p] = {}
    /\ \A k \in group[p] : tables[k] # "none"

\* A counter is used only after it was published, and starts from zero.
CounterPublished ==
  /\ \A p \in Procs : pc[p] \in {"unslot", "claim", "casClaim"} => key[p] \in seen
  /\ \A p \in Procs : pc[p] = "casClaim" => reg[p] >= 0
  /\ \A k \in Keys : k \notin seen => counter[k] = 0

AdmissionInv == TypeOK /\ GroupFrame /\ CounterPublished /\ SingleBuilder

\* Bookkeeping slots: the counter equals the published keys plus the slots
\* that goroutines hold but have not published or given back, and never
\* passes admissionEntryLimit.
SlotAccounting ==
  /\ seenCount = Cardinality(seen) + Cardinality({p \in Procs : pc[p] \in {"publish", "unslot"}})
  /\ seenCount <= EntryLimit

Footprint ==
  DecodedBytes * Cardinality({k \in Keys : tables[k] # "none"})
    + (WarmBytes - DecodedBytes) * Cardinality({k \in Keys : tables[k] = "warm"})

\* Bytes reserved by goroutines for tables they have not stored yet.
InFlight ==
  DecodedBytes * Cardinality({p \in Procs : pc[p] = "store"})
    + (WarmBytes - DecodedBytes) *
        Cardinality({k \in Keys : \E p \in Procs :
                       pc[p] = "install" /\ k \in group[p] /\ tables[k] # "warm"})

\* The byte counter is exact at every instant (no leak on any error path of
\* admit or commitPromotionLocked) and never exceeds MaxTableBytes.
ByteAccounting == bytes = Footprint + InFlight /\ bytes <= MaxBytes

\* A key is disabled for good only when it could never be admitted: its table
\* cannot be built, or the remaining budget is too small for it, still.
DisabledJustified ==
  \A k \in Keys : counter[k] = admissionDisabled =>
    k \notin Buildable \/ bytes + DecodedBytes > MaxBytes

Quiescent == \A p \in Procs : pc[p] = "idle"

\* When no call is in progress, every successful verification of a key without
\* a table was counted exactly once, and a key that reached the threshold was
\* decided.  Exempt: sightings after the budget is spent, and refused slots.
AdmissionExact ==
  Quiescent /\ bytes < MaxBytes /\ EntryLimit >= Cardinality(Keys) + Cardinality(Procs) =>
    \A k \in Keys :
      IF verified[k] < BuildThreshold
      THEN counter[k] = verified[k]
      ELSE counter[k] \in {admissionComplete, admissionDisabled}

-----------------------------------------------------------------------------
\* Promotion.

\* The promotion status of a key tells the truth about its table: complete
\* exactly when the second-tier table is stored (up to the store of the status
\* itself), building exactly while the lock holder's group has the key.
StatusMatchesTier ==
  \A k \in Keys :
    /\ status[k] = "complete" => tables[k] = "warm"
    /\ tables[k] = "warm" => status[k] \in {"building", "complete"}
    /\ tables[k] = "none" => status[k] = "idle"
    /\ status[k] = "building" =>
         promotionMu # NoProc /\ k \in group[promotionMu]

\* A pending candidate is never lost (cache.go:281-372): it waits in
\* promotionPending, or a goroutine is on its way to put it there.  Waiting
\* candidates are pending first-tier tables, a full group never stays behind
\* when the lock is free, and every status tells the truth about its table.
PendingTracked ==
  /\ StatusMatchesTier
  /\ \A k \in Keys : status[k] = "pending" =>
       \/ k \in promotionPending
       \/ \E p \in Procs : key[p] = k /\ pc[p] \in {"lock", "queue"}
  /\ \A k \in promotionPending : status[k] = "pending" /\ tables[k] = "decoded"
  /\ promotionMu = NoProc => Cardinality(promotionPending) < Width

\* The statistics count stored tables and upgrades, apart from the goroutines
\* that stored and have not counted yet.
StatsExact ==
  /\ count + Cardinality({p \in Procs : pc[p] = "count"})
       = Cardinality({k \in Keys : tables[k] # "none"})
  /\ promoted + Cardinality({k \in Keys : \E p \in Procs :
                               pc[p] = "install" /\ k \in group[p] /\ tables[k] = "warm"})
       = Cardinality({k \in Keys : tables[k] = "warm"})

\* Without a builder fault, promotion of a key is disabled only when the budget
\* left is smaller than what a full group adds.
PromotionDisabledJustified ==
  \A k \in Keys : status[k] = "disabled" /\ faults = 0 =>
    bytes + Width * (WarmBytes - DecodedBytes) > MaxBytes

-----------------------------------------------------------------------------
\* What a step may never do, the abstract store, and progress.

\* Decisions that the code relies on being final are final: bytes are never
\* given back, a key's admission verdict and promotion verdict never change.
DecisionsFinal ==
  [][/\ bytes' >= bytes
     /\ \A k \in Keys :
          /\ counter[k] \in {admissionComplete, admissionDisabled} => counter'[k] = counter[k]
          /\ status[k] \in {"complete", "disabled"} => status'[k] = status[k]]_vars

Store == INSTANCE TableStore WITH tables <- tables, verified <- verified

\* The cache implements the abstract table store.
ImplementsTableStore == Store!Spec

\* Every call returns: no compare-and-swap loop and no wait for promotionMu
\* starves a goroutine.
CallsReturn == \A p \in Procs : pc[p] # "idle" ~> pc[p] = "idle"

\* A first-tier key that keeps being hit by strict batches is settled: its
\* candidate does not wait for partners forever.
HotKeySettles ==
  \A k \in Keys :
    []<>(\E p \in Procs : key[p] = k /\ pc[p] = "promote" /\ pre[p] = "decoded")
      => <>(status[k] \in {"complete", "disabled"})
=============================================================================
