------------------------------ MODULE WarmComb ------------------------------
(***************************************************************************)
(* The strict verifier over per-key tables: the reusable worker that       *)
(* checks whole groups with the key objects it is given                    *)
(* (warm_comb_native.go), the r51 backend's use of it, and the complete    *)
(* verifier that has prepared its own keys (partial_comb_verify.go).  How  *)
(* the tables come about is module CombBuild.                              *)
(*                                                                         *)
(* A signature [point, raw, rule] satisfies the equation of point for a    *)
(* challenge that hashes the bytes raw.                                    *)
(***************************************************************************)
EXTENDS CombKeys, Sequences

CONSTANTS
  CombBatches   \* 0..n-1 -> [pub, key, sig, held]; key names the key object, or
                \* "nil"; held is what the caller's slice of verdicts holds

ASSUME WarmCombAssumption ==
  \A b \in CombBatches :
    /\ IsArrayOf(b, Cardinality(DOMAIN b))
    /\ \A i \in DOMAIN b : b[i].pub \in Raws /\ b[i].key \in Raws \cup {"nil"} /\ b[i].held \in BOOLEAN

VARIABLES
  keys,      \* the compressed keys that have a key object
  form,      \* the verifier at hand: "native", "backend" or "complete"
  pubs,      \* complete: the keys it was prepared for
  worker,    \* scratch that outlives calls
  step, items, group,
  verdicts,  \* what VerifyBatch has written to the slice it was passed
  answer     \* the slice of the caller: that one, but in the backend another

warmVars == <<keys, form, pubs, worker, step, items, group, verdicts, answer>>

NoItems == [i \in {} |-> FALSE]
ItemCount == Cardinality(DOMAIN items)

-----------------------------------------------------------------------------
\* Keys.  CombBuild shows that a published object and a prepared verifier have
\* exactly the table of their key's point, so the point stands for the table.
KeyObject(r) == [raw |-> r, table |-> PointOf[r]]
Empty == [raw |-> "none", table |-> "none"]

\* The group build gives its callers the objects of four keys, or none.
buildWarmPrecompGroup(lanes) ==
  /\ Buildable(lanes)
  /\ keys' = keys \cup {lanes[l] : l \in CombLanes}
  /\ UNCHANGED <<form, pubs, worker, step, items, group, verdicts, answer>>

\* A complete verifier that could be prepared.
CompleteVerifier(inputs) ==
  /\ step = "idle" /\ form = "native" /\ WholeGroups(inputs) /\ Buildable(inputs)
  /\ form' = "complete" /\ pubs' = inputs
  /\ UNCHANGED <<keys, worker, step, items, group, verdicts, answer>>

-----------------------------------------------------------------------------
\* Verifying.

\* An item as the call sees it: the key object is the one at hand when it
\* starts, for the complete verifier the one it was prepared with.
KeyAtHand(b, i) ==
  IF form = "complete" THEN KeyObject(pubs[i]) ELSE IF b[i].key \in keys THEN KeyObject(b[i].key) ELSE Empty
Given(b) ==
  [i \in DOMAIN b |-> [pub |-> b[i].pub, sig |-> b[i].sig, held |-> b[i].held, key |-> KeyAtHand(b, i)]]

\* A key is usable only for the bytes its table was built for.
KeyBound(item) == item.key # Empty /\ item.key.raw = item.pub

\* The backend refuses a segment unless all its tables are bound.
r51WarmGroupAvailable(b) == \A i \in DOMAIN b : KeyBound(b[i])

\* Canonical S, R canonical and not of small order, 64 bytes.
SignatureRules(sig) == sig.rule = "ok"

Live(g) ==
  {l \in CombLanes : LET i == g * CombX4 + l IN KeyBound(items[i]) /\ SignatureRules(items[i].sig)}

\* Bytes that are no accepted R, and scratch that was never written.
NoR(what) == [point |-> "none", raw |-> "none", rule |-> what]
NoChallenge == [pub |-> "none", sig |-> NoR("zero")]
Identity == [table |-> "none", s |-> NoR("zero"), k |-> NoChallenge]
FreshWorker ==
  [wide |-> [l \in CombLanes |-> NoChallenge],
   points |-> [g \in 0 .. (MaxGroups - 1) |-> [l \in CombLanes |-> Identity]],
   active |-> [g \in 0 .. (MaxGroups - 1) |-> {}],
   encoded |-> [g \in 0 .. (MaxGroups - 1) |-> [l \in CombLanes |-> NoR("zero")]]]

WarmInit ==
  /\ keys = {} /\ form \in {"native", "backend"} /\ pubs = NoItems
  /\ worker = FreshWorker
  /\ step = "idle" /\ items = NoItems /\ group = 0 /\ verdicts = NoItems /\ answer = NoItems

NoneAccepted == [i \in DOMAIN items |-> FALSE]

\* A call arrives with the slice as its caller left it.  The complete verifier
\* panics on any other length than it was prepared for; the r51 batch has
\* cleared its slice before it dispatches segments.
CallVerify ==
  /\ step = "idle" /\ step' = "called"
  /\ \E b \in CombBatches :
       /\ form = "complete" => DOMAIN b = DOMAIN pubs
       /\ form = "backend" => \A i \in DOMAIN b : ~b[i].held
       /\ items' = Given(b)
       /\ answer' = [i \in DOMAIN b |-> b[i].held]
  /\ group' = 0 /\ verdicts' = NoItems
  /\ UNCHANGED <<keys, form, pubs, worker>>

Admitted == WholeGroups(items) /\ (form = "backend" => r51WarmGroupAvailable(items))

\* A refused width or segment, or a worker the pool could not construct, is an
\* error before anything is written.
Refuse ==
  /\ step = "called" /\ (~Admitted \/ form = "backend") /\ step' = "failed"
  /\ UNCHANGED <<keys, form, pubs, worker, items, group, verdicts, answer>>

\* The width check comes first; then every verdict of the slice is cleared.  The
\* backend passes a slice of its worker.
VerifyBatch ==
  /\ step = "called" /\ Admitted /\ step' = "groups"
  /\ verdicts' = NoneAccepted
  /\ answer' = IF form = "backend" THEN answer ELSE verdicts'
  /\ UNCHANGED <<keys, form, pubs, worker, items, group>>

\* The challenge of a live lane is hashed into wide; a dead lane keeps what an
\* earlier group or call left there, and its point is the identity.
Hashed(g) ==
  [l \in CombLanes |-> IF l \in Live(g) THEN [pub |-> items[g * CombX4 + l].pub, sig |-> items[g * CombX4 + l].sig]
                   ELSE worker.wide[l]]
Evaluated(g, wide) ==
  [l \in CombLanes |-> IF l \in Live(g)
     THEN [table |-> items[g * CombX4 + l].key.table, s |-> items[g * CombX4 + l].sig, k |-> wide[l]]
     ELSE Identity]

VerifyGroup ==
  /\ step = "groups" /\ group < ItemCount \div CombX4
  /\ LET wide == Hashed(group) IN
     worker' = [worker EXCEPT !.wide = wide,
                  !.points[group] = Evaluated(group, wide), !.active[group] = Live(group),
                  !.encoded[group] = [l \in CombLanes |-> NoR("zero")]]
  /\ group' = group + 1
  /\ UNCHANGED <<keys, form, pubs, step, items, verdicts, answer>>

\* Evaluation fails after points and active of the group were reset.
GroupFails ==
  /\ step = "groups" /\ group < ItemCount \div CombX4
  /\ worker' = [worker EXCEPT !.wide = Hashed(group),
                  !.points[group] = [l \in CombLanes |-> Identity], !.active[group] = {},
                  !.encoded[group] = [l \in CombLanes |-> NoR("zero")]]
  /\ step' = "failed"
  /\ UNCHANGED <<keys, form, pubs, items, group, verdicts, answer>>

\* Encode([s]B - [k]A) is R when the table's point, the hashed bytes and S are
\* those the signature was made for.
Encode(q) ==
  IF q = Identity THEN NoR("identity")
  ELSE IF q.table = q.s.point /\ q.k = [pub |-> q.s.raw, sig |-> q.s] THEN q.s ELSE NoR("other")

\* The encoder writes the active lanes of the groups it is given.
EncodeGroups(n) ==
  [g \in 0 .. (MaxGroups - 1) |-> [l \in CombLanes |->
     IF g < n /\ l \in worker.active[g] THEN Encode(worker.points[g][l]) ELSE worker.encoded[g][l]]]

Accepted(i, encoded) ==
  /\ i % CombX4 \in worker.active[i \div CombX4]
  /\ encoded[i \div CombX4][i % CombX4] = items[i].sig

EncodeAndCompare ==
  /\ step = "groups" /\ group = ItemCount \div CombX4
  /\ LET encoded == EncodeGroups(group) IN
     /\ worker' = [worker EXCEPT !.encoded = encoded]
     /\ verdicts' = [i \in DOMAIN items |-> Accepted(i, encoded)]
  /\ answer' = IF form = "backend" THEN answer ELSE verdicts'
  /\ step' = "verified"
  /\ UNCHANGED <<keys, form, pubs, items, group>>

EncodeFails ==
  /\ step = "groups" /\ group = ItemCount \div CombX4
  /\ step' = "failed"
  /\ UNCHANGED <<keys, form, pubs, worker, items, group, verdicts, answer>>

\* verifyWarmGroups copies the worker's verdicts to the caller.
ReturnVerdicts ==
  /\ step = "verified" /\ step' = "returned"
  /\ answer' = verdicts
  /\ UNCHANGED <<keys, form, pubs, worker, items, group, verdicts>>

\* The backend drops a worker that failed; the others use it again.
NextUse ==
  /\ step \in {"returned", "failed"} /\ step' = "idle"
  /\ worker' = IF step = "failed" /\ form = "backend" THEN FreshWorker ELSE worker
  /\ items' = NoItems /\ group' = 0 /\ verdicts' = NoItems /\ answer' = NoItems
  /\ UNCHANGED <<keys, form, pubs>>

WarmNext ==
  \/ \E lanes \in Builds : buildWarmPrecompGroup(lanes)
  \/ \E inputs \in Inputs : CompleteVerifier(inputs)
  \/ CallVerify \/ Refuse \/ VerifyBatch \/ VerifyGroup \/ GroupFails \/ EncodeAndCompare \/ EncodeFails
  \/ ReturnVerdicts \/ NextUse

WarmSpec == WarmInit /\ [][WarmNext]_warmVars

-----------------------------------------------------------------------------
\* As a batch verifier (BatchContract): an item is accepted when it comes with
\* the key object of exactly these key bytes and a signature that passes the
\* strict rules, satisfies the equation of the key's point and hashes exactly
\* these bytes.  A failure leaves no verdict true, unless the width is refused:
\* then the slice is what it was.
WithKeys(b, raw) == [i \in DOMAIN b |-> [pub |-> b[i].pub, key |-> raw[i], sig |-> b[i].sig, held |-> b[i].held]]
WarmRequests ==
  {WithKeys(b, [i \in DOMAIN b |-> IF b[i].key \in built THEN b[i].key ELSE "none"]) :
     b \in CombBatches, built \in SUBSET {r \in Raws : Buildable(<<r>>)}}
  \cup {WithKeys(call[1], call[2]) : call \in {c \in CombBatches \X Inputs : DOMAIN c[1] = DOMAIN c[2]}}
WarmAccepts(item) ==
  /\ item.key = item.pub /\ SignatureRules(item.sig)
  /\ item.sig.point = PointOf[item.pub] /\ item.sig.raw = item.pub
WarmFailed(r) == [i \in DOMAIN r |-> ~WholeGroups(r) /\ r[i].held]
warmPhase == IF step \in {"groups", "verified"} THEN "called" ELSE step
WarmRequest == WithKeys(items, [i \in DOMAIN items |-> items[i].key.raw])

-----------------------------------------------------------------------------
\* "Every verdict is cleared before work starts and remains false on error"
\* (warm_comb_native.go:158): a call that fails leaves no verdict true in the
\* slice of its caller.
ClearedOnError == step = "failed" => \A i \in DOMAIN answer : ~answer[i]
=============================================================================
