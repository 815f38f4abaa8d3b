----------------------------- MODULE TableStore -----------------------------
(***************************************************************************)
(* What the cache promises, without its machinery (the comment on type     *)
(* Cache in ed25519/cache.go): a key earns a first-tier table only by      *)
(* BuildThreshold successful verifications, a second-tier table only by    *)
(* PromotionThreshold more; a table is never evicted, shrunk or built      *)
(* twice; and the memory of all tables never exceeds MaxBytes.             *)
(***************************************************************************)
EXTENDS Integers, FiniteSets

CONSTANTS Keys, BuildThreshold, PromotionThreshold, MaxBytes, DecodedBytes, WarmBytes

VARIABLES tables, verified

Earned == BuildThreshold + PromotionThreshold

\* Memory held by a map of tables.
Footprint(t) ==
  DecodedBytes * Cardinality({k \in Keys : t[k] # "none"})
    + (WarmBytes - DecodedBytes) * Cardinality({k \in Keys : t[k] = "warm"})

Init == tables = [k \in Keys |-> "none"] /\ verified = [k \in Keys |-> 0]

Succeed(k) ==
  /\ verified' = [verified EXCEPT ![k] = IF @ < Earned THEN @ + 1 ELSE @]
  /\ UNCHANGED tables

Replace(k, old, new) ==
  /\ tables[k] = old
  /\ tables' = [tables EXCEPT ![k] = new]
  /\ Footprint(tables') <= MaxBytes
  /\ UNCHANGED verified

Install(k) == verified[k] >= BuildThreshold /\ Replace(k, "none", "decoded")

Promote(k) == verified[k] >= Earned /\ Replace(k, "decoded", "warm")

Next == \E k \in Keys : Succeed(k) \/ Install(k) \/ Promote(k)

Spec == Init /\ [][Next]_<<tables, verified>>
=============================================================================
