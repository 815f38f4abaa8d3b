----------------------------- MODULE PackedPair -----------------------------
(***************************************************************************)
(* Two strict verifications in one register (packed_pair_strict_ifma.go)   *)
(* as the r51 backend calls it for a tail of two (verifyStrictPair): A and *)
(* R of both signatures share one decoding, the halves share one schedule, *)
(* and each half gives its own verdict.                                    *)
(*                                                                         *)
(* A signature [point, raw, rule, r] satisfies the equation of point for   *)
(* a challenge that hashes raw; r tells whether R is a point.              *)
(***************************************************************************)
EXTENDS Integers

CONSTANTS
  PointOf,      \* compressed key -> point, "none" if it does not decode
  SmallOrder,   \* compressed keys of small order
  Pairs         \* {0, 1} -> [pub, sig]; pub may be "nil"

Halves == {0, 1}
X8 == 0 .. 7

\* A signature is made for a point.
PackedPairAssumption ==
  \A p \in Pairs : /\ DOMAIN p = Halves
                   /\ \A h \in Halves : p[h].sig.r \in BOOLEAN /\ p[h].sig.point # "none"

VARIABLES
  digest,       \* the worker's digest, overwritten by every hash
  pc, pair, live, decoded, tables, wide, q, verdicts, ok

vars == <<digest, pc, pair, live, decoded, tables, wide, q, verdicts, ok>>

NoPair == [h \in {} |-> FALSE]
None == [kind |-> "none"]
Identity == [kind |-> "A", point |-> "identity"]
AllFalse == [h \in Halves |-> FALSE]

Init ==
  /\ digest = None /\ pc = "idle" /\ pair = NoPair /\ live = {}
  /\ decoded = [l \in X8 |-> None] /\ tables = [h \in Halves |-> None]
  /\ wide = [l \in X8 |-> None] /\ q = [h \in Halves |-> None]
  /\ verdicts = NoPair /\ ok = NoPair

\* packedStrictBytePrechecksX4.
Prechecks(item) ==
  /\ item.pub # "nil" /\ item.sig.rule = "ok"
  /\ item.pub \notin SmallOrder

VerifyPair ==
  /\ pc = "idle" /\ pair' \in Pairs
  /\ verdicts' = AllFalse /\ ok' = AllFalse
  /\ live' = {h \in Halves : Prechecks(pair'[h])}
  /\ pc' = IF live' = {} THEN "verified" ELSE "decode"
  /\ UNCHANGED <<digest, decoded, tables, wide, q>>

\* Half h puts A in lane 2h and R in lane 2h + 1.
Encoded(l) ==
  LET item == pair[l \div 2]
  IN IF l % 2 = 0 THEN [kind |-> "A", point |-> PointOf[item.pub]] ELSE [kind |-> "R", of |-> item.sig]
DecodeLanes == UNION {{2 * h, 2 * h + 1} : h \in live}
Decodes(l) == IF l % 2 = 0 THEN PointOf[pair[l \div 2].pub] # "none" ELSE pair[l \div 2].sig.r

\* Mutant: a half stays live when either of its points decodes.
EitherDecoded(h) == Decodes(2 * h) \/ Decodes(2 * h + 1)

BothDecoded(h) == Decodes(2 * h) /\ Decodes(2 * h + 1)

\* Lanes that are not active, or do not decode, hold the identity.
Decode ==
  /\ pc = "decode"
  /\ decoded' = [l \in X8 |-> IF l \in DecodeLanes /\ Decodes(l) THEN Encoded(l) ELSE Identity]
  /\ live' = {h \in live : BothDecoded(h)}
  /\ pc' = IF live' = {} THEN "verified" ELSE "build"
  /\ UNCHANGED <<digest, pair, tables, wide, q, verdicts, ok>>

\* Odd multiples of lanes 0 and 2, one table per half.
buildQuadPairedNAFTable5X8 ==
  /\ pc = "build" /\ pc' = "hash"
  /\ tables' = [h \in Halves |-> decoded[2 * h]]
  /\ UNCHANGED <<digest, pair, live, decoded, wide, q, verdicts, ok>>

\* The halves are hashed one after the other through one digest buffer; the
\* challenge copies it.
Challenge(h) == [kind |-> "k", pub |-> pair[h].pub, sig |-> pair[h].sig]
Hash ==
  /\ pc = "hash" /\ pc' = "evaluate"
  /\ wide' = [l \in X8 |-> IF l \in live THEN Challenge(l) ELSE None]
  /\ digest' = IF 1 \in live THEN Challenge(1) ELSE Challenge(0)
  /\ UNCHANGED <<pair, live, decoded, tables, q, verdicts, ok>>

\* [s]B - [k]A per half: R of the signature if the table's point and the
\* hashed bytes are those it was made for.
Result(h) ==
  IF tables[h] = [kind |-> "A", point |-> pair[h].sig.point] /\ wide[h] = [Challenge(h) EXCEPT !.pub = pair[h].sig.raw]
  THEN [kind |-> "R", of |-> pair[h].sig] ELSE [kind |-> "other"]

evaluateQuadPairedNAFVerifyX8 ==
  /\ pc = "evaluate" /\ pc' = "compare"
  /\ q' = [h \in Halves |-> IF h \in live THEN Result(h) ELSE None]
  /\ UNCHANGED <<digest, pair, live, decoded, tables, wide, verdicts, ok>>

\* Q and the R of lane 2h + 1 are the same point.
EqualLane(h) == q[h] = decoded[2 * h + 1]

Compare ==
  /\ pc = "compare" /\ pc' = "verified"
  /\ live' = {h \in live : EqualLane(h)}
  /\ verdicts' = [h \in Halves |-> h \in live']
  /\ UNCHANGED <<digest, pair, decoded, tables, wide, q, ok>>

\* The decoder, the builder, the evaluation or the comparison reports an error.
Fails ==
  /\ pc \in {"decode", "build", "evaluate", "compare"} /\ pc' = "failed"
  /\ UNCHANGED <<digest, pair, live, decoded, tables, wide, q, verdicts, ok>>

\* verifyStrictPair copies the verdicts and puts the worker back.
Return ==
  /\ pc = "verified" /\ pc' = "returned"
  /\ ok' = verdicts
  /\ UNCHANGED <<digest, pair, live, decoded, tables, wide, q, verdicts>>

\* What the call kept on its stack is gone; the digest stays with the worker
\* unless the worker is dropped.
Consume ==
  /\ pc \in {"returned", "failed"} /\ pc' = "idle"
  /\ digest' = IF pc = "failed" THEN None ELSE digest
  /\ pair' = NoPair /\ live' = {} /\ verdicts' = NoPair /\ ok' = NoPair
  /\ decoded' = [l \in X8 |-> None] /\ tables' = [h \in Halves |-> None]
  /\ wide' = [l \in X8 |-> None] /\ q' = [h \in Halves |-> None]

Next ==
  \/ VerifyPair \/ Decode \/ buildQuadPairedNAFTable5X8 \/ Hash \/ evaluateQuadPairedNAFVerifyX8
  \/ Compare \/ Fails \/ Return \/ Consume

Spec == Init /\ [][Next]_vars

-----------------------------------------------------------------------------
\* As a batch verifier (BatchContract) of the two halves, under the strict rules.
Requests == Pairs
Accepts(item) ==
  /\ item.pub # "nil" /\ item.sig.rule = "ok" /\ item.sig.r
  /\ item.pub \notin SmallOrder
  /\ item.sig.point = PointOf[item.pub] /\ item.sig.raw = item.pub
phase == IF pc \in {"idle", "returned", "failed"} THEN pc ELSE "called"
Request == pair
=============================================================================
