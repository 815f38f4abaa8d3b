------------------------------ MODULE SigPrep -------------------------------
(***************************************************************************)
(* internal/sigprep: the byte rules and the worker-local Batch.  A Batch   *)
(* outlives the groups it prepares and reuses every array it ever grew, so *)
(* the model keeps whole backing arrays: a slice is its backing array and  *)
(* a length, and the segment store keeps its past arrays for as long as a  *)
(* stale header still reaches them.                                        *)
(***************************************************************************)
EXTENDS Integers, Sequences, FiniteSets

CONSTANTS
  Items,      \* inputs: [faults, r, s, a, m], the faults the byte rules may see
  MaxGroup    \* bound on the length of a group

Always == {"nilKey", "length", "bigS"}
DalekStrict == {"smallA", "smallR", "aliasR"}
StdlibCompat == {}
ZIP215 == {}
RuleSets == {DalekStrict, StdlibCompat, ZIP215}

ASSUME SigPrepAssumption ==
  MaxGroup \in Nat /\ \A x \in Items : x.faults \subseteq Always \cup DalekStrict

Unset == <<>>
ZeroPrepared == [r |-> Unset, s |-> Unset, k |-> Unset]
NoSegments == Unset

Admit(rules, x) == x.faults \cap (Always \cup rules) = {}

\* Parse of an admitted item; K is left unset.
Parse(x) == [r |-> x.r, s |-> x.s, k |-> Unset]

ChallengeSegments(x) == <<x.r, x.a, x.m>>

\* SHA-512 and its reduction modulo l, as a free constructor.
Digest(segments) == <<"H", segments>>
Reduce(digest) == <<"mod l", digest>>

\* Prepare for one signature.
PrepareOne(x) == [Parse(x) EXCEPT !.k = Reduce(Digest(ChallengeSegments(x)))]

VARIABLES
  prepared, live,   \* slices
  stores,           \* every backing array segmentStore has had
  storeLen,         \* len(segmentStore), a slice of the last of them
  segments,         \* slice of headers <<array, index>>
  digests, lanes,   \* slices
  filled,
  group, rulesUsed, count   \* history: the last group, its rules and result

prepVars == <<prepared, live, stores, storeLen, segments, digests, lanes, filled, group, rulesUsed, count>>

Slice(cells, len) == [cells |-> cells, len |-> len]
Make(zero, n) == Slice([i \in 1 .. n |-> zero], n)

resize(s, zero, n) == IF Len(s.cells) >= n THEN Slice(s.cells, n) ELSE Make(zero, n)

\* clear(s): the length of s, not its capacity.
Cleared(s, zero) ==
  Slice([i \in DOMAIN s.cells |-> IF i <= s.len THEN zero ELSE s.cells[i]], s.len)

\* append of several values: in place while the capacity lasts.
Appended(s, values) ==
  LET n == Len(values) IN
  Slice([i \in 1 .. (IF n > Len(s.cells) THEN n ELSE Len(s.cells)) |->
           IF i <= n THEN values[i] ELSE s.cells[i]], n)

PrepInit ==
  /\ prepared = Make(ZeroPrepared, 0) /\ live = Make(FALSE, 0)
  /\ stores = << <<>> >> /\ storeLen = 0
  /\ segments = Make(NoSegments, 0) /\ digests = Make(Unset, 0) /\ lanes = Make(0, 0)
  /\ filled = 0
  /\ group = <<>> /\ rulesUsed = {} /\ count = 0

\* Mutant: only the current length is cleared, after resizing.
ReleasedAfterResize(n) ==
  [stores EXCEPT ![Len(stores)] = [i \in DOMAIN @ |-> IF i <= n THEN NoSegments ELSE @[i]]]

\* clear(segmentStore[:filled]).
Released(n) ==
  [stores EXCEPT ![Len(stores)] = [i \in DOMAIN @ |-> IF i <= filled THEN NoSegments ELSE @[i]]]

\* Mutant: arrays reused by the resize keep what they held.
ResizedOnly(s, zero, n) == resize(s, zero, n)

Fresh(s, zero, n) == Cleared(resize(s, zero, n), zero)

Reset(n) ==
  /\ stores' = Released(n) /\ filled' = 0
  /\ prepared' = Fresh(prepared, ZeroPrepared, n) /\ live' = Fresh(live, FALSE, n)
  /\ segments' = Slice(segments.cells, 0)
  /\ digests' = Slice(digests.cells, 0) /\ lanes' = Slice(lanes.cells, 0)
  /\ group' = <<>> /\ rulesUsed' = {} /\ count' = 0
  /\ UNCHANGED storeLen

\* The indices of the admitted items, in order: keep[i] is lanes after i items.
Keep(rules, items) ==
  LET keep[i \in 0 .. Len(items)] ==
        IF i = 0 THEN <<>> ELSE IF Admit(rules, items[i]) THEN Append(keep[i - 1], i) ELSE keep[i - 1]
  IN keep
Survivors(rules, items) == Keep(rules, items)[Len(items)]

\* Prepare: Reset, the gates, one hashing round over the compacted survivors,
\* and the reduction of each digest into the item it came from.
Prepare(rules, items) ==
  LET n == Len(items)
      kept == Survivors(rules, items)
      c == Len(kept)
      released == Released(n)
      grown == Len(released[Len(released)]) < n
      base == IF grown THEN Append(released, [i \in 1 .. n |-> NoSegments]) ELSE released
      g == Len(base)
      filledStore == [base EXCEPT ![g] =
                        [i \in DOMAIN @ |-> IF i <= c THEN ChallengeSegments(items[kept[i]]) ELSE @[i]]]
      headers == Appended(segments, [i \in 1 .. c |-> <<g, i>>])
      laneOf == Appended(lanes, kept)
      hashed == IF c = 0 THEN Slice(digests.cells, 0)
                ELSE LET d == resize(digests, Unset, c) IN
                     Slice([i \in DOMAIN d.cells |->
                              IF i <= c THEN Digest(filledStore[headers.cells[i][1]][headers.cells[i][2]])
                              ELSE d.cells[i]], c)
      parsed == [i \in 1 .. n |-> IF Admit(rules, items[i]) THEN Parse(items[i]) ELSE ZeroPrepared]
      keys == [i \in 1 .. n |->
                 IF \E j \in 1 .. c : laneOf.cells[j] = i
                 THEN [parsed[i] EXCEPT !.k = Reduce(hashed.cells[CHOOSE j \in 1 .. c : laneOf.cells[j] = i])]
                 ELSE Fresh(prepared, ZeroPrepared, n).cells[i]]
      lives == [i \in 1 .. n |-> Admit(rules, items[i]) \/ Fresh(live, FALSE, n).cells[i]]
  IN /\ stores' = filledStore /\ storeLen' = n /\ filled' = c
     /\ prepared' = Appended(Fresh(prepared, ZeroPrepared, n), keys)
     /\ live' = Appended(Fresh(live, FALSE, n), lives)
     /\ segments' = headers /\ digests' = hashed /\ lanes' = laneOf
     /\ group' = items /\ rulesUsed' = rules /\ count' = c

Groups == UNION {[1 .. n -> Items] : n \in 0 .. MaxGroup}

PrepNext == \/ \E n \in 0 .. MaxGroup : Reset(n)
            \/ \E rules \in RuleSets, items \in Groups : Prepare(rules, items)

PrepSpec == PrepInit /\ [][PrepNext]_prepVars

-----------------------------------------------------------------------------
\* Properties.

\* Results are index-aligned with the inputs: an item is live exactly when
\* Prepare on that item alone accepts it, it then carries that call's R, S and
\* challenge, and a dead item carries nothing, whatever the reused arrays held
\* for earlier, longer groups.
GroupExact ==
  /\ count = Cardinality({i \in 1 .. Len(group) : Admit(rulesUsed, group[i])})
  /\ \A i \in 1 .. Len(group) :
       /\ live.cells[i] = Admit(rulesUsed, group[i])
       /\ prepared.cells[i] = IF live.cells[i]
                              THEN [r |-> group[i].r, s |-> group[i].s,
                                    k |-> Reduce(Digest(<<group[i].r, group[i].a, group[i].m>>))]
                              ELSE ZeroPrepared

\* A Batch keeps no reference to a message of an earlier group, in any array it
\* still reaches (the capacity of segmentStore and the stale headers of
\* segments included), and none at all after Reset.
NothingPinned ==
  LET reached == {Len(stores)} \cup {segments.cells[i][1] : i \in DOMAIN segments.cells}
      held == (UNION {{stores[g][i] : i \in DOMAIN stores[g]} : g \in reached}) \ {NoSegments}
  IN held \subseteq {ChallengeSegments(group[i]) : i \in 1 .. Len(group)}

=============================================================================
