--------------------------- MODULE VerifierProofs ---------------------------
(***************************************************************************)
(* Which backend verifies, and that the verifiers do: the selection of     *)
(* BackendSelect, for any number of goroutines, any registry and any       *)
(* environment; and three of the batch verifiers implement BatchContract,  *)
(* for any inputs: the pair in one register (PackedPair), the complete r51 *)
(* core (R51Pipeline) and the verifier over per-key tables (WarmComb);     *)
(* these tables are exact, however their builds go (CombBuild).  Assumed   *)
(* are PackedPairAssumption, R51PipelineAssumption, CombKeysAssumption,    *)
(* CombBuildAssumption and WarmCombAssumption.                             *)
(***************************************************************************)
EXTENDS BackendSelect, CombBuild, WarmComb, DataInduction

CONSTANTS Pairs,         \* PackedPair; PointOf and SmallOrder are CombKeys'
          X4, Batches    \* R51Pipeline

VARIABLES ok,                                               \* pc is BackendSelect's
          digest, pair, live, decoded, tables, wide, q,     \* PackedPair; verdicts is WarmComb's
          kind, encodedQReference, batch, profile, offset   \* R51Pipeline

-----------------------------------------------------------------------------
\* The selection.

Labels == {"idle", "lock", "recheck", "activate", "publish"}
UnderLock == {"recheck", "activate", "publish"}

TypeOK ==
  /\ hasIFMA \in BOOLEAN /\ env \in Names \cup {NoName}
  /\ current \in Registered \cup {NoName} /\ requested \in Registered \cup {NoName}
  /\ selectMu \in Procs \cup {NoProc}
  /\ activated \in [Activating -> {"no", "ok", "err"}]
  /\ pc \in [Procs -> Labels] /\ op \in [Procs -> {"set", "active"}]
  /\ arg \in [Procs -> Names \cup {NoName}]
  /\ used \subseteq Registered /\ granted \subseteq Registered

\* Exactly the owner of selectMu is in the critical section.
LockHeld == \A p \in Procs : pc[p] \in UnderLock <=> selectMu = p

\* A goroutine that has resolved a name publishes under the lock what pick may
\* publish: nothing is published yet, the registry and the CPU have the
\* backend, its activation succeeded, and active() found the environment's name.
Resolved ==
  \A p \in Procs : pc[p] \in {"activate", "publish"} =>
    /\ current = NoName
    /\ arg[p] \in Registered /\ Supported(arg[p])
    /\ pc[p] = "activate" => arg[p] \in Activating
    /\ pc[p] = "publish" /\ arg[p] \in Activating => activated[arg[p]] = "ok"
    /\ op[p] = "active" => arg[p] = IF env = NoName THEN Generic ELSE env

\* Until a backend is published no request is recorded and nobody has one:
\* requested and current are written in the same critical section.
NothingYet == current = NoName => requested = NoName /\ used = {} /\ granted = {}

SelectInv ==
  /\ TypeOK /\ LockHeld /\ Resolved /\ NothingYet
  /\ OneBackend /\ NoSilentDegrade

-----------------------------------------------------------------------------

\* The invariant holds before the first call.
LEMMA SelectInit == Init => SelectInv
BY SelectAssumption DEF Init, SelectInv, TypeOK, LockHeld, Resolved, NothingYet, OneBackend,
     NoSilentDegrade, Labels, UnderLock

\* Every step of SetBackend and active keeps the invariant.
LEMMA SelectStep ==
  ASSUME SelectInv, [Next]_vars
  PROVE  SelectInv'
<1> USE SelectAssumption
<1>1. CASE UNCHANGED vars
  BY <1>1 DEF vars, SelectInv, TypeOK, LockHeld, Resolved, NothingYet, OneBackend, NoSilentDegrade,
       Supported
<1>2. ASSUME NEW p \in Procs, SetBackend(p)
      PROVE  SelectInv'
  BY <1>2 DEF SetBackend, Goto, SelectInv, TypeOK, LockHeld, Resolved, NothingYet, OneBackend,
       NoSilentDegrade, Supported, Labels, UnderLock
<1>3. ASSUME NEW p \in Procs, active(p)
      PROVE  SelectInv'
  BY <1>3 DEF active, Goto, SelectInv, TypeOK, LockHeld, Resolved, NothingYet, OneBackend,
       NoSilentDegrade, Supported, Labels, UnderLock
<1>4. ASSUME NEW p \in Procs, Lock(p)
      PROVE  SelectInv'
  BY <1>4 DEF Lock, Goto, SelectInv, TypeOK, LockHeld, Resolved, NothingYet, OneBackend,
       NoSilentDegrade, Supported, Labels, UnderLock
<1>5. ASSUME NEW p \in Procs, Published(p)
      PROVE  SelectInv'
  BY <1>5 DEF Published, SameName, Unlock, Leave, Goto, SelectInv, TypeOK, LockHeld, Resolved,
       NothingYet, OneBackend, NoSilentDegrade, Supported, Labels, UnderLock
<1>6. ASSUME NEW p \in Procs, Resolve(p)
      PROVE  SelectInv'
  BY <1>6 DEF Resolve, Wanted, Known, Unlock, Leave, Goto, SelectInv, TypeOK, LockHeld, Resolved,
       NothingYet, OneBackend, NoSilentDegrade, Supported, Labels, UnderLock, Names
<1>7. ASSUME NEW p \in Procs, activate(p)
      PROVE  SelectInv'
  BY <1>7 DEF activate, Once, Fail, Unlock, Leave, Goto, SelectInv, TypeOK, LockHeld, Resolved,
       NothingYet, OneBackend, NoSilentDegrade, Supported, Labels, UnderLock
<1>8. ASSUME NEW p \in Procs, Publish(p)
      PROVE  SelectInv'
  BY <1>8 DEF Publish, Unlock, Leave, Goto, SelectInv, TypeOK, LockHeld, Resolved, NothingYet,
       OneBackend, NoSilentDegrade, Supported, Labels, UnderLock
<1> QED
  BY <1>1, <1>2, <1>3, <1>4, <1>5, <1>6, <1>7, <1>8 DEF Next, Step

\* The invariant holds in every state of every execution.
THEOREM SelectInvariant == Spec => []SelectInv
<1>1. Init => SelectInv
  BY SelectInit
<1>2. SelectInv /\ [Next]_vars => SelectInv'
  BY SelectStep
<1> QED
  BY <1>1, <1>2, PTL DEF Spec

\* However SetBackend and active() race, every active() returns one backend, and
\* a SetBackend that returned nil named it.
THEOREM SelectionAgreed == Spec => []OneBackend
<1>1. SelectInv => OneBackend
  BY DEF SelectInv
<1> QED
  BY <1>1, SelectInvariant, PTL

\* A native backend is published only on a CPU that has it and after its
\* activation succeeded; without a successful SetBackend the environment decides.
THEOREM SelectionHonest == Spec => []NoSilentDegrade
<1>1. SelectInv => NoSilentDegrade
  BY DEF SelectInv
<1> QED
  BY <1>1, SelectInvariant, PTL

\* No step, of any goroutine, replaces the published backend or revises an
\* activation: a goroutine that is about to publish holds selectMu and has seen
\* that nothing is published.
THEOREM SelectionNeverRevised == Spec => SelectionFinal
<1> DEFINE Final == /\ current # NoName => current' = current
                    /\ \A b \in Activating : activated[b] # "no" => activated'[b] = activated[b]
<1>1. SelectInv /\ [Next]_vars => [Final]_vars
  <2> SUFFICES ASSUME SelectInv, Next
               PROVE  Final
    OBVIOUS
  <2>1. PICK p \in Procs : SetBackend(p) \/ active(p) \/ Step(p)
    BY DEF Next
  <2>2. CASE SetBackend(p) \/ active(p) \/ Lock(p) \/ Published(p) \/ Resolve(p)
    BY <2>2 DEF SetBackend, active, Lock, Published, Resolve
  <2>3. CASE activate(p)
    BY <2>3 DEF activate, Once, SelectInv, TypeOK
  <2>4. CASE Publish(p)
    BY <2>4 DEF Publish, SelectInv, TypeOK, Resolved
  <2> QED
    BY <2>1, <2>2, <2>3, <2>4 DEF Step
<1> QED
  BY <1>1, SelectInvariant, PTL DEF Spec, SelectionFinal

\* SetBackend's request is never consulted for a choice: whenever the name is
\* still to be resolved no request has been recorded, because requested and
\* current are written in one critical section.
THEOREM RequestNeverConsulted ==
  Spec => [](\A p \in Procs : pc[p] = "recheck" /\ current = NoName /\ op[p] = "active" => Wanted(p) = env)
<1>1. SelectInv => \A p \in Procs : pc[p] = "recheck" /\ current = NoName /\ op[p] = "active" => Wanted(p) = env
  BY DEF SelectInv, NothingYet, Wanted
<1> QED
  BY <1>1, SelectInvariant, PTL

-----------------------------------------------------------------------------
\* The verifiers.

Pair == INSTANCE PackedPair
Core == INSTANCE R51Pipeline

Shown == IF pc \in {"returned", "failed"} THEN ok ELSE [i \in {} |-> FALSE]

\* A failed call of either leaves no verdict true.
NoneTrue(r) == [i \in DOMAIN r |-> FALSE]

-----------------------------------------------------------------------------
\* The pair.

PairVerdicts(r) == [h \in DOMAIN r |-> Pair!Accepts(r[h])]

PairContract == INSTANCE BatchContract WITH
  Batches <- Pair!Requests, Correct <- PairVerdicts, Failed <- NoneTrue,
  phase <- Pair!phase, request <- Pair!Request, verdicts <- Shown

PairLabels == {"idle", "decode", "build", "hash", "evaluate", "compare", "verified", "returned", "failed"}
Decoding == {"build", "hash", "evaluate", "compare"}

\* The halves that pass the byte rules, and those whose points decode as well.
Checked == {h \in Pair!Halves : Pair!Prechecks(pair[h])}
Ready == {h \in Checked : Pair!BothDecoded(h)}

\* Each live half reaches every step with its own points, its own table, its
\* own challenge and its own result; the caller's verdicts stay FALSE until the
\* call returns.
PairInv ==
  /\ pc \in PairLabels
  /\ pc = "idle" => pair = Pair!NoPair
  /\ pc # "idle" => pair \in Pairs
  /\ pc \notin {"idle", "returned"} => ok = Pair!AllFalse
  /\ pc \notin {"idle", "returned", "verified"} => verdicts = Pair!AllFalse
  /\ pc = "decode" => live = Checked
  /\ pc \in Decoding =>
       /\ live = Ready
       /\ \A h \in live : /\ decoded[2 * h] = [kind |-> "A", point |-> PointOf[pair[h].pub]]
                          /\ decoded[2 * h + 1] = [kind |-> "R", of |-> pair[h].sig]
  /\ pc \in {"hash", "evaluate", "compare"} => \A h \in live : tables[h] = decoded[2 * h]
  /\ pc \in {"evaluate", "compare"} => \A h \in live : wide[h] = Pair!Challenge(h)
  /\ pc = "compare" => \A h \in live : q[h] = Pair!Result(h)
  /\ pc = "verified" => verdicts = PairVerdicts(pair)

\* Lanes 2h and 2h + 1 of the register belong to half h.
LEMMA LanesOfHalf ==
  ASSUME NEW h \in Pair!Halves
  PROVE  /\ 2 * h \in Pair!X8 /\ 2 * h + 1 \in Pair!X8
         /\ (2 * h) \div 2 = h /\ (2 * h) % 2 = 0
         /\ (2 * h + 1) \div 2 = h /\ (2 * h + 1) % 2 = 1
<1>1. h = 0 \/ h = 1
  BY DEF Pair!Halves
<1> QED
  BY <1>1 DEF Pair!X8

\* A half is accepted only if it passes the byte rules and its points decode.
LEMMA AcceptedIsReady ==
  ASSUME Pair!PackedPairAssumption, pair \in Pairs, NEW h \in Pair!Halves, Pair!Accepts(pair[h])
  PROVE  h \in Ready
<1>1. pair[h].sig.point # "none" /\ pair[h].sig.r
  BY DEF Pair!PackedPairAssumption, Pair!Accepts
<1>2. Pair!Prechecks(pair[h])
  BY DEF Pair!Accepts, Pair!Prechecks
<1>3. Pair!Decodes(2 * h) /\ Pair!Decodes(2 * h + 1)
  BY <1>1, LanesOfHalf DEF Pair!Decodes, Pair!Accepts
<1> QED
  BY <1>2, <1>3 DEF Ready, Checked, Pair!BothDecoded

\* A half that is ready is accepted exactly if its result is its own R.
LEMMA ResultDecides ==
  ASSUME Pair!PackedPairAssumption, pair \in Pairs, NEW h \in Ready,
         tables[h] = [kind |-> "A", point |-> PointOf[pair[h].pub]], wide[h] = Pair!Challenge(h)
  PROVE  Pair!Result(h) = [kind |-> "R", of |-> pair[h].sig] <=> Pair!Accepts(pair[h])
<1>1. h \in Pair!Halves /\ Pair!Prechecks(pair[h]) /\ pair[h].sig.r = TRUE
  <2>1. h \in Pair!Halves /\ Pair!Prechecks(pair[h]) /\ Pair!Decodes(2 * h + 1)
    BY DEF Ready, Checked, Pair!BothDecoded
  <2>2. pair[h].sig.r
    BY <2>1, LanesOfHalf DEF Pair!Decodes
  <2>3. pair[h].sig.r \in BOOLEAN
    BY <2>1 DEF Pair!PackedPairAssumption
  <2> QED
    BY <2>1, <2>2, <2>3
<1>2. tables[h] = [kind |-> "A", point |-> pair[h].sig.point] <=> pair[h].sig.point = PointOf[pair[h].pub]
  <2>1. tables[h].point = PointOf[pair[h].pub]
    OBVIOUS
  <2> QED
    BY <2>1
<1>3. wide[h] = [Pair!Challenge(h) EXCEPT !.pub = pair[h].sig.raw] <=> pair[h].sig.raw = pair[h].pub
  <2>1. Pair!Challenge(h) = [kind |-> "k", pub |-> pair[h].pub, sig |-> pair[h].sig]
    BY DEF Pair!Challenge
  <2>2. [Pair!Challenge(h) EXCEPT !.pub = pair[h].sig.raw]
          = [kind |-> "k", pub |-> pair[h].sig.raw, sig |-> pair[h].sig]
    BY <2>1
  <2>3. wide[h].pub = pair[h].pub
    BY <2>1
  <2> QED
    BY <2>1, <2>2, <2>3
<1>4. [kind |-> "other"] # [kind |-> "R", of |-> pair[h].sig]
  <2>1. [kind |-> "other"].kind # [kind |-> "R", of |-> pair[h].sig].kind
    OBVIOUS
  <2> QED
    BY <2>1
<1>5. Pair!Accepts(pair[h]) <=>
        pair[h].sig.point = PointOf[pair[h].pub] /\ pair[h].sig.raw = pair[h].pub
  BY <1>1 DEF Pair!Accepts, Pair!Prechecks
<1> QED
  BY <1>2, <1>3, <1>4, <1>5 DEF Pair!Result

\* The verdicts of a pair without a ready half are all FALSE.
LEMMA NoneReady ==
  ASSUME Pair!PackedPairAssumption, pair \in Pairs, Ready = {}
  PROVE  PairVerdicts(pair) = Pair!AllFalse
<1>1. DOMAIN pair = Pair!Halves
  BY DEF Pair!PackedPairAssumption
<1>2. \A h \in Pair!Halves : Pair!Accepts(pair[h]) = FALSE
  BY AcceptedIsReady DEF Pair!Accepts
<1> QED
  BY <1>1, <1>2 DEF PairVerdicts, Pair!AllFalse

\* The same for the pair of the next state.
LEMMA NoneReadyNext ==
  ASSUME Pair!PackedPairAssumption
  PROVE  (pair \in Pairs /\ Ready = {} => PairVerdicts(pair) = Pair!AllFalse)'
<1>1. pair \in Pairs /\ Ready = {} => PairVerdicts(pair) = Pair!AllFalse
  BY NoneReady
<1> QED
  BY <1>1, PTL

\* The invariant holds before the first call.
LEMMA PairInit == Pair!Init => PairInv /\ PairContract!Init
BY DEF Pair!Init, PairInv, PairLabels, Decoding, PairContract!Init, Pair!phase, Pair!Request, Pair!NoPair,
   PairContract!NoVerdicts, Shown

\* The byte rules choose the live halves; without any the verdicts stand.
LEMMA VerifyPairStep ==
  ASSUME Pair!PackedPairAssumption, PairInv, Pair!VerifyPair
  PROVE  PairInv' /\ PairContract!Call
<1>1. /\ pc = "idle" /\ pair' \in Pairs /\ verdicts' = Pair!AllFalse /\ ok' = Pair!AllFalse
      /\ live' = Checked'
      /\ \/ pc' = "decode"
         \/ pc' = "verified" /\ live' = {}
  BY DEF Pair!VerifyPair, Checked, Pair!Prechecks
<1>2. PairContract!Call
  BY <1>1 DEF PairContract!Call, Pair!phase, Pair!Request, Pair!Requests, PairContract!NoVerdicts, Shown
<1>3. CASE pc' = "decode"
  BY <1>1, <1>2, <1>3 DEF PairInv, PairLabels, Decoding
<1>4. CASE pc' = "verified"
  <2>1. Ready' = {}
    BY <1>1, <1>4 DEF Ready
  <2>2. verdicts' = PairVerdicts(pair')
    BY <1>1, <2>1, NoneReadyNext
  <2> QED
    BY <1>1, <1>2, <1>4, <2>2 DEF PairInv, PairLabels, Decoding
<1> QED
  BY <1>1, <1>3, <1>4

\* What the pair decides stays while its call lasts.
LEMMA SamePair ==
  ASSUME UNCHANGED pair
  PROVE  /\ Checked' = Checked /\ Ready' = Ready /\ PairVerdicts(pair)' = PairVerdicts(pair)
         /\ \A h : Pair!Challenge(h)' = Pair!Challenge(h)
BY DEF Checked, Ready, PairVerdicts, Pair!Prechecks, Pair!BothDecoded, Pair!Decodes, Pair!Challenge

\* A step inside the call does not show.
LEMMA HiddenStep ==
  ASSUME pc \in PairLabels \ {"idle", "returned", "failed"}, pc' \in PairLabels \ {"idle", "returned", "failed"},
         UNCHANGED pair
  PROVE  UNCHANGED PairContract!contractVars
BY DEF PairContract!contractVars, Pair!phase, Pair!Request, Shown, PairLabels

\* The decoder keeps the halves of which both points decode.
LEMMA DecodeStep ==
  ASSUME Pair!PackedPairAssumption, PairInv, Pair!Decode
  PROVE  PairInv' /\ UNCHANGED PairContract!contractVars
<1>1. /\ pc = "decode" /\ live = Checked /\ pair \in Pairs /\ verdicts = Pair!AllFalse /\ ok = Pair!AllFalse
      /\ UNCHANGED <<pair, verdicts, ok>>
      /\ \/ pc' = "build"
         \/ pc' = "verified" /\ live' = {}
      /\ live' = {h \in live : Pair!BothDecoded(h)}
      /\ decoded' = [l \in Pair!X8 |-> IF l \in Pair!DecodeLanes /\ Pair!Decodes(l)
                                       THEN Pair!Encoded(l) ELSE Pair!Identity]
  BY DEF Pair!Decode, PairInv, Decoding
<1>2. UNCHANGED PairContract!contractVars
  BY <1>1, HiddenStep DEF PairLabels
<1>3. Ready' = Ready /\ live' = Ready /\ PairVerdicts(pair') = PairVerdicts(pair)
  BY <1>1, SamePair DEF Ready
<1>4. CASE pc' = "verified"
  <2>1. PairVerdicts(pair) = Pair!AllFalse
    BY <1>1, <1>3, <1>4, NoneReady
  <2> QED
    BY <1>1, <1>2, <1>3, <1>4, <2>1 DEF PairInv, PairLabels, Decoding
<1>5. CASE pc' = "build"
  <2>1. ASSUME NEW h \in Ready
        PROVE  /\ decoded'[2 * h] = [kind |-> "A", point |-> PointOf[pair[h].pub]]
               /\ decoded'[2 * h + 1] = [kind |-> "R", of |-> pair[h].sig]
    <3>1. h \in Pair!Halves /\ h \in live /\ Pair!Decodes(2 * h) /\ Pair!Decodes(2 * h + 1)
      BY <1>1 DEF Ready, Checked, Pair!BothDecoded
    <3>2. 2 * h \in Pair!DecodeLanes /\ 2 * h + 1 \in Pair!DecodeLanes
      BY <3>1 DEF Pair!DecodeLanes
    <3>3. decoded'[2 * h] = Pair!Encoded(2 * h) /\ decoded'[2 * h + 1] = Pair!Encoded(2 * h + 1)
      BY <1>1, <3>1, <3>2, LanesOfHalf
    <3> QED
      BY <3>1, <3>3, LanesOfHalf DEF Pair!Encoded
  <2>2. PairInv'
    BY <1>1, <1>3, <1>5, <2>1 DEF PairInv, PairLabels, Decoding
  <2> QED
    BY <1>2, <2>2
<1> QED
  BY <1>1, <1>4, <1>5

\* One table per half, of its own lane.
LEMMA BuildStep ==
  ASSUME PairInv, Pair!buildQuadPairedNAFTable5X8
  PROVE  PairInv' /\ UNCHANGED PairContract!contractVars
<1>1. /\ pc = "build" /\ pc' = "hash" /\ tables' = [h \in Pair!Halves |-> decoded[2 * h]]
      /\ UNCHANGED <<pair, live, decoded, verdicts, ok>>
      /\ live = Ready /\ Ready \subseteq Pair!Halves
  BY DEF Pair!buildQuadPairedNAFTable5X8, PairInv, Decoding, Ready, Checked
<1>2. Ready' = Ready /\ UNCHANGED PairContract!contractVars
  BY <1>1, HiddenStep, SamePair DEF PairLabels
<1> QED
  BY <1>1, <1>2 DEF PairInv, PairLabels, Decoding

\* A live half keeps its own challenge although the digest is shared.
LEMMA HashStep ==
  ASSUME PairInv, Pair!Hash
  PROVE  PairInv' /\ UNCHANGED PairContract!contractVars
<1>1. /\ pc = "hash" /\ pc' = "evaluate"
      /\ wide' = [l \in Pair!X8 |-> IF l \in live THEN Pair!Challenge(l) ELSE Pair!None]
      /\ UNCHANGED <<pair, live, decoded, tables, verdicts, ok>>
      /\ live = Ready /\ Ready \subseteq Pair!X8
  BY DEF Pair!Hash, PairInv, Decoding, Ready, Checked, Pair!Halves, Pair!X8
<1>2. /\ Ready' = Ready /\ UNCHANGED PairContract!contractVars
      /\ \A h : Pair!Challenge(h)' = Pair!Challenge(h)
  BY <1>1, HiddenStep, SamePair DEF PairLabels
<1>3. \A h \in live : wide'[h] = Pair!Challenge(h)
  BY <1>1
<1> QED
  BY <1>1, <1>2, <1>3 DEF PairInv, PairLabels, Decoding

\* The halves are evaluated from their own tables and challenges.
LEMMA EvaluateStep ==
  ASSUME PairInv, Pair!evaluateQuadPairedNAFVerifyX8
  PROVE  PairInv' /\ UNCHANGED PairContract!contractVars
<1>1. /\ pc = "evaluate" /\ pc' = "compare"
      /\ q' = [h \in Pair!Halves |-> IF h \in live THEN Pair!Result(h) ELSE Pair!None]
      /\ UNCHANGED <<pair, live, decoded, tables, wide, verdicts, ok>>
      /\ live = Ready /\ Ready \subseteq Pair!Halves
  BY DEF Pair!evaluateQuadPairedNAFVerifyX8, PairInv, Decoding, Ready, Checked
<1>2. /\ Ready' = Ready /\ UNCHANGED PairContract!contractVars
      /\ \A h : Pair!Challenge(h)' = Pair!Challenge(h)
  BY <1>1, HiddenStep, SamePair DEF PairLabels
<1>3. \A h : Pair!Result(h)' = Pair!Result(h)
  BY <1>1 DEF Pair!Result, Pair!Challenge
<1>4. \A h \in live : q'[h] = Pair!Result(h)
  BY <1>1
<1> QED
  BY <1>1, <1>2, <1>3, <1>4 DEF PairInv, PairLabels, Decoding

\* A half is accepted if its result and its R are the same point.
LEMMA CompareStep ==
  ASSUME Pair!PackedPairAssumption, PairInv, Pair!Compare
  PROVE  PairInv' /\ UNCHANGED PairContract!contractVars
<1>1. /\ pc = "compare" /\ pc' = "verified" /\ pair \in Pairs /\ live = Ready
      /\ live' = {h \in live : q[h] = decoded[2 * h + 1]}
      /\ verdicts' = [h \in Pair!Halves |-> h \in live']
      /\ UNCHANGED <<pair, ok>> /\ ok = Pair!AllFalse
  BY DEF Pair!Compare, Pair!EqualLane, PairInv, Decoding
<1>2. PairVerdicts(pair') = PairVerdicts(pair) /\ UNCHANGED PairContract!contractVars
  BY <1>1, HiddenStep, SamePair DEF PairLabels
<1>3. ASSUME NEW h \in Ready
      PROVE  q[h] = decoded[2 * h + 1] <=> Pair!Accepts(pair[h])
  <2>1. /\ decoded[2 * h] = [kind |-> "A", point |-> PointOf[pair[h].pub]]
        /\ decoded[2 * h + 1] = [kind |-> "R", of |-> pair[h].sig]
        /\ tables[h] = decoded[2 * h] /\ wide[h] = Pair!Challenge(h) /\ q[h] = Pair!Result(h)
    BY <1>1 DEF PairInv, Decoding
  <2>2. tables[h] = [kind |-> "A", point |-> PointOf[pair[h].pub]]
    BY <2>1
  <2>3. Pair!Result(h) = [kind |-> "R", of |-> pair[h].sig] <=> Pair!Accepts(pair[h])
    BY <1>1, <2>1, <2>2, ResultDecides
  <2> QED
    BY <2>1, <2>3
<1>4. \A h \in Pair!Halves : h \in live' <=> Pair!Accepts(pair[h])
  BY <1>1, <1>3, AcceptedIsReady
<1>5. DOMAIN pair = Pair!Halves
  BY <1>1 DEF Pair!PackedPairAssumption
<1>6. verdicts' = PairVerdicts(pair)
  <2>1. \A h \in Pair!Halves : (h \in live') = Pair!Accepts(pair[h])
    <3>1. ASSUME NEW h \in Pair!Halves
          PROVE  (h \in live') = Pair!Accepts(pair[h])
      <4>1. Pair!Accepts(pair[h]) \in BOOLEAN /\ (h \in live') \in BOOLEAN
        BY DEF Pair!Accepts
      <4> QED
        BY <1>4, <4>1
    <3> QED
      BY <3>1
  <2> QED
    BY <1>1, <1>5, <2>1 DEF PairVerdicts
<1> QED
  BY <1>1, <1>2, <1>6 DEF PairInv, PairLabels, Decoding

\* A failure leaves the caller's verdicts FALSE.
LEMMA FailsStep ==
  ASSUME Pair!PackedPairAssumption, PairInv, Pair!Fails
  PROVE  PairInv' /\ PairContract!Fail
<1>1. /\ pc \in {"decode", "build", "evaluate", "compare"} /\ pc' = "failed"
      /\ UNCHANGED <<pair, live, verdicts, ok>>
      /\ pair \in Pairs /\ ok = Pair!AllFalse /\ verdicts = Pair!AllFalse
  BY DEF Pair!Fails, PairInv
<1>2. DOMAIN pair = Pair!Halves
  BY <1>1 DEF Pair!PackedPairAssumption
<1>3. PairContract!Fail
  BY <1>1, <1>2 DEF PairContract!Fail, Pair!phase, Pair!Request, Shown, Pair!AllFalse, NoneTrue
<1>4. PairInv'
  BY <1>1 DEF PairInv, PairLabels, Decoding
<1> QED
  BY <1>3, <1>4

\* The caller gets the verdicts of both halves at once.
LEMMA PairReturnStep ==
  ASSUME PairInv, Pair!Return
  PROVE  PairInv' /\ PairContract!Return
<1>1. /\ pc = "verified" /\ pc' = "returned" /\ ok' = verdicts /\ UNCHANGED <<pair, live, verdicts>>
      /\ pair \in Pairs /\ verdicts = PairVerdicts(pair)
  BY DEF Pair!Return, PairInv
<1>2. PairContract!Return
  BY <1>1 DEF PairContract!Return, Pair!phase, Pair!Request, Shown
<1>3. PairInv'
  BY <1>1 DEF PairInv, PairLabels, Decoding
<1> QED
  BY <1>2, <1>3

\* Nothing of the call is left.
LEMMA PairConsumeStep ==
  ASSUME PairInv, Pair!Consume
  PROVE  PairInv' /\ PairContract!Consume
<1>1. /\ pc \in {"returned", "failed"} /\ pc' = "idle" /\ pair' = Pair!NoPair
  BY DEF Pair!Consume
<1>2. PairContract!Consume
  BY <1>1 DEF PairContract!Consume, Pair!phase, Pair!Request, Shown, Pair!NoPair, PairContract!NoVerdicts
<1>3. PairInv'
  BY <1>1 DEF PairInv, PairLabels, Decoding
<1> QED
  BY <1>2, <1>3

\* verifyStrictPair, for any keys and signatures, answers for each of the two
\* items as that item alone deserves, or fails and answers FALSE for both:
\* sharing one register, one schedule and one digest buffer mixes nothing.
THEOREM PairImplementsContract ==
  ASSUME Pair!PackedPairAssumption
  PROVE  Pair!Spec => PairContract!Spec
<1>1. Pair!Init => PairInv /\ PairContract!Init
  BY PairInit
<1>2. PairInv /\ [Pair!Next]_(Pair!vars) => PairInv' /\ [PairContract!Next]_(PairContract!contractVars)
  <2> SUFFICES ASSUME PairInv, [Pair!Next]_(Pair!vars)
               PROVE  PairInv' /\ [PairContract!Next]_(PairContract!contractVars)
    OBVIOUS
  <2>1. CASE Pair!VerifyPair \/ Pair!Fails \/ Pair!Return \/ Pair!Consume
    BY <2>1, Pair!PackedPairAssumption, VerifyPairStep, FailsStep, PairReturnStep, PairConsumeStep
       DEF PairContract!Next
  <2>2. CASE \/ Pair!Decode \/ Pair!buildQuadPairedNAFTable5X8 \/ Pair!Hash
             \/ Pair!evaluateQuadPairedNAFVerifyX8 \/ Pair!Compare
    BY <2>2, Pair!PackedPairAssumption, DecodeStep, BuildStep, HashStep, EvaluateStep, CompareStep
  <2>3. CASE UNCHANGED Pair!vars
    <3>1. UNCHANGED <<pc, pair, live, decoded, tables, wide, q, verdicts, ok>>
      BY <2>3 DEF Pair!vars
    <3>2. UNCHANGED PairContract!contractVars
      BY <3>1 DEF PairContract!contractVars, Pair!phase, Pair!Request, Shown
    <3>3. \A h : Pair!Result(h)' = Pair!Result(h)
      BY <3>1 DEF Pair!Result, Pair!Challenge
    <3> QED
      BY <3>1, <3>2, <3>3, SamePair DEF PairInv
  <2> QED
    BY <2>1, <2>2, <2>3 DEF Pair!Next
<1> QED
  BY <1>1, <1>2, PTL DEF Pair!Spec, PairContract!Spec

-----------------------------------------------------------------------------
\* The complete core.

CoreVerdicts(r) == [i \in DOMAIN r |-> Core!Accepts(r[i])]

CoreContract == INSTANCE BatchContract WITH
  Batches <- Core!Requests, Correct <- CoreVerdicts, Failed <- NoneTrue,
  phase <- Core!phase, request <- Core!Request, verdicts <- Shown

\* The verdict of item i of the batch.
CoreAccepted(i) == Core!Accepts([k |-> batch[i], p |-> profile])

\* The groups below the offset are decided, the others are still FALSE.
CoreInv ==
  /\ kind \in Core!PipelineKinds /\ encodedQReference \in BOOLEAN /\ profile \in Core!Profiles
  /\ pc \in {"idle", "groups", "returned", "failed"} /\ offset \in Nat
  /\ pc = "idle" => batch = Core!NoBatch
  /\ pc # "idle" => batch \in Batches
  /\ pc = "groups" => ok = [i \in DOMAIN batch |-> i < offset /\ CoreAccepted(i)]
  /\ pc = "returned" => ok = [i \in DOMAIN batch |-> CoreAccepted(i)]
  /\ pc = "failed" => ok = [i \in DOMAIN batch |-> FALSE]

\* A batch is a function on an initial segment of the naturals.
LEMMA BatchShape ==
  ASSUME Core!R51PipelineAssumption, NEW b \in Batches
  PROVE  /\ Core!Cardinality(DOMAIN b) \in Nat
         /\ b \in [0 .. (Core!Cardinality(DOMAIN b) - 1) -> Core!Kind]
<1>1. \A S : Core!Cardinality(S) = Cardinality(S) /\ (Core!IsFiniteSet(S) <=> IsFiniteSet(S))
  BY DEF Cardinality, Core!Cardinality, IsFiniteSet, Core!IsFiniteSet
<1>2. IsFiniteSet(DOMAIN b) /\ b \in [0 .. (Core!Cardinality(DOMAIN b) - 1) -> Core!Kind]
  BY <1>1 DEF Core!R51PipelineAssumption
<1> QED
  BY <1>1, <1>2, FS_CardinalityType

\* So is the batch of the call.
LEMMA CoreSize ==
  ASSUME Core!R51PipelineAssumption, batch \in Batches
  PROVE  Core!Size \in Nat /\ batch \in [0 .. (Core!Size - 1) -> Core!Kind]
BY BatchShape DEF Core!Size

\* A group is as wide as the registers allow, or what is left.
LEMMA CoreCount ==
  ASSUME Core!R51PipelineAssumption, batch \in Batches, offset \in Nat, offset < Core!Size
  PROVE  /\ Core!GroupWidth \in Nat /\ 0 < Core!GroupWidth /\ Core!GroupWidth <= 2 * X4
         /\ kind = "x4" => Core!GroupWidth = X4
         /\ Core!Count \in Nat /\ Core!Count <= Core!GroupWidth /\ Core!Count <= Core!Size - offset
         /\ Core!Count = Core!GroupWidth \/ Core!Count = Core!Size - offset
<1> DEFINE a == Core!Size - offset
           w == Core!GroupWidth
<1>1. a \in Nat
  BY CoreSize
<1>2. w \in Nat /\ 0 < w /\ w <= 2 * X4 /\ (kind = "x4" => w = X4)
  BY DEF Core!R51PipelineAssumption, Core!GroupWidth, Core!X8
<1>3. Core!Count = CHOOSE x \in {a, w} : \A y \in {a, w} : x <= y
  BY DEF Core!Count, Core!Min
<1> HIDE DEF a, w
<1>4. \E x \in {a, w} : \A y \in {a, w} : x <= y
  BY <1>1, <1>2
<1>5. Core!Count \in {a, w} /\ Core!Count <= a /\ Core!Count <= w
  BY <1>3, <1>4
<1> QED
  BY <1>1, <1>2, <1>5 DEF a, w

\* On one mask of lanes, byte rules, decoding and the final comparison accept
\* exactly what the profile accepts, in either form of the core.
LEMMA FinalMaskExact ==
  ASSUME Core!R51PipelineAssumption, CoreInv, pc = "groups", offset < Core!Size,
         NEW l \in 0 .. (Core!Count - 1)
  PROVE  l \in Core!FinalMask(Core!live) <=> CoreAccepted(offset + l)
<1>1. batch \in Batches /\ offset \in Nat
  BY DEF CoreInv
<1>2. offset + l \in DOMAIN batch /\ batch[offset + l] \in Core!Kind
  BY SMTT(30), <1>1, CoreSize, CoreCount
<1> DEFINE b == batch[offset + l]
<1>3. l \in Core!FinalMask(Core!live) <=>
        /\ b # "scalar" /\ (profile = "DalekStrict" => b \notin {"weak", "alias"})
        /\ b # "badA" /\ (~encodedQReference => b # "badR")
        /\ IF profile = "DalekStrict" /\ ~encodedQReference THEN b \in {"good", "weak", "alias"}
                                                            ELSE b \in {"good", "weak"}
  BY DEF Core!FinalMask, Core!live, Core!candidates, Core!prepareR51Signature, Core!Decoded,
     Core!EqualCompactAffine, Core!EncodedEqual
<1>4. CoreAccepted(offset + l) <=> b = "good" \/ (b = "weak" /\ profile = "StdlibCompat")
  BY DEF CoreAccepted, Core!Accepts
<1>5. profile \in {"DalekStrict", "StdlibCompat"}
  BY DEF CoreInv, Core!Profiles
<1> HIDE DEF b
<1> QED
  BY <1>3, <1>4, <1>5

\* The two x4 halves of a group accept what the x8 evaluation would.
LEMMA HalvesMakeGroup ==
  ASSUME Core!R51PipelineAssumption, batch \in Batches, offset \in Nat, offset < Core!Size,
         kind \in Core!PipelineKinds
  PROVE  Core!accepted = Core!FinalMask(Core!live)
<1>1. X4 \in Nat \ {0}
  BY DEF Core!R51PipelineAssumption
<1>2. Core!live \subseteq 0 .. (2 * X4 - 1)
  BY <1>1, CoreCount DEF Core!live, Core!candidates
<1>3. CASE kind = "x8"
  BY <1>3 DEF Core!accepted
<1>4. CASE kind # "x8"
  <2>1. Core!accepted = UNION {Core!FinalMask(Core!HalfLanes(h)) : h \in {h \in 0 .. 1 : Core!HalfMask(h) # {}}}
    BY <1>4 DEF Core!accepted
  <2>2. \A h \in {0, 1} : Core!HalfMask(h) = {m - h * X4 : m \in {n \in Core!live : n >= h * X4}}
    BY DEF Core!HalfMask
  <2>3. ASSUME NEW h \in {0, 1}
        PROVE  Core!HalfLanes(h) = {m \in Core!live : h * X4 <= m /\ m < h * X4 + X4}
    <3>1. h * X4 \in Nat
      BY <1>1
    <3>2. \A m \in Core!HalfLanes(h) : m \in Core!live /\ h * X4 <= m /\ m < h * X4 + X4
      BY <1>1, <1>2, <2>2, <3>1 DEF Core!HalfLanes
    <3>3. ASSUME NEW m \in Core!live, h * X4 <= m, m < h * X4 + X4
          PROVE  m \in Core!HalfLanes(h)
      <4>1. m \in Nat /\ m - h * X4 \in Core!HalfMask(h) \cap (0 .. (X4 - 1))
        BY <1>1, <1>2, <2>2, <3>1, <3>3
      <4>2. m = (m - h * X4) + h * X4
        BY <3>1, <4>1
      <4> QED
        BY <4>1, <4>2 DEF Core!HalfLanes
    <3> QED
      BY <3>2, <3>3
  <2>4. ASSUME NEW m \in Core!live
        PROVE  \E h \in {0, 1} : m \in Core!HalfLanes(h) /\ Core!HalfMask(h) # {}
    <3>1. CASE m < X4
      <4>1. m \in Core!HalfLanes(0)
        BY <1>1, <1>2, <2>3, <3>1
      <4> QED
        BY <4>1 DEF Core!HalfLanes
    <3>2. CASE ~(m < X4)
      <4>1. m \in Core!HalfLanes(1)
        BY <1>1, <1>2, <2>3, <3>2
      <4> QED
        BY <4>1 DEF Core!HalfLanes
    <3> QED
      BY <3>1, <3>2
  <2>5. \A h \in {0, 1} : Core!FinalMask(Core!HalfLanes(h)) = Core!HalfLanes(h) \cap Core!FinalMask(Core!live)
    BY <2>3 DEF Core!FinalMask
  <2>6. Core!FinalMask(Core!live) \subseteq Core!live
    BY DEF Core!FinalMask
  <2>7. 0 .. 1 = {0, 1}
    OBVIOUS
  <2> QED
    BY <2>1, <2>4, <2>5, <2>6, <2>7
<1> QED
  BY <1>3, <1>4

\* The invariant holds before the first call.
LEMMA CoreInit == Core!Init => CoreInv /\ CoreContract!Init
BY DEF Core!Init, CoreInv, CoreContract!Init, Core!phase, Core!Request, Core!Asked, Core!NoBatch,
   CoreContract!NoVerdicts, Shown, Core!Profiles

\* A call starts with every verdict FALSE.
LEMMA VerifyBatchStep ==
  ASSUME Core!R51PipelineAssumption, CoreInv, Core!VerifyBatch
  PROVE  CoreInv' /\ CoreContract!Call
<1>1. /\ pc = "idle" /\ pc' = "groups" /\ batch' \in Batches /\ profile' \in Core!Profiles
      /\ ok' = [i \in DOMAIN batch' |-> FALSE] /\ offset' = 0
      /\ UNCHANGED <<kind, encodedQReference>>
  BY DEF Core!VerifyBatch
<1>2. CoreContract!Call
  BY <1>1 DEF CoreContract!Call, Core!phase, Core!Request, Core!Requests, CoreContract!NoVerdicts, Shown
<1>3. ASSUME NEW i \in DOMAIN batch'
      PROVE  ~(i < 0)
  <2>1. \A b \in Batches : \A j \in DOMAIN b : ~(j < 0)
    BY BatchShape
  <2> QED
    BY <1>1, <2>1
<1>4. ok' = [i \in DOMAIN batch' |-> i < offset' /\ CoreAccepted(i)']
  BY <1>1, <1>3
<1> QED
  BY <1>1, <1>2, <1>4 DEF CoreInv

\* A group decides its own items: with live lanes by its mask, without any the
\* verdicts stay FALSE and none of its items is acceptable.
LEMMA VerifyGroupStep ==
  ASSUME Core!R51PipelineAssumption, CoreInv, Core!VerifyGroup
  PROVE  CoreInv' /\ UNCHANGED CoreContract!contractVars
<1>1. /\ pc = "groups" /\ offset < Core!Size /\ offset' = offset + Core!GroupWidth
      /\ ok' = [i \in DOMAIN ok |->
                  IF Core!live # {} /\ i \in offset .. (offset + Core!Count - 1)
                  THEN i - offset \in Core!accepted ELSE ok[i]]
      /\ UNCHANGED <<kind, encodedQReference, pc, batch, profile>>
  BY DEF Core!VerifyGroup
<1>2. /\ batch \in Batches /\ offset \in Nat /\ kind \in Core!PipelineKinds
      /\ ok = [i \in DOMAIN batch |-> i < offset /\ CoreAccepted(i)]
  BY <1>1 DEF CoreInv
<1>3. Core!Size \in Nat /\ DOMAIN batch = 0 .. (Core!Size - 1)
  BY <1>2, CoreSize
<1>4. /\ Core!GroupWidth \in Nat /\ Core!Count \in Nat /\ Core!Count <= Core!GroupWidth
      /\ Core!Count = Core!GroupWidth \/ Core!Count = Core!Size - offset
  BY <1>1, <1>2, CoreCount
<1>5. \A i : CoreAccepted(i)' = CoreAccepted(i) /\ CoreAccepted(i) \in BOOLEAN
  BY <1>1 DEF CoreAccepted, Core!Accepts
<1>6. ASSUME NEW i \in DOMAIN batch
      PROVE  ok'[i] = (i < offset + Core!GroupWidth /\ CoreAccepted(i))
  <2>1. i \in Nat /\ i < Core!Size
    BY <1>3
  <2>2. CASE i < offset
    BY <1>1, <1>2, <1>4, <2>1, <2>2
  <2>3. CASE i >= offset + Core!Count
    <3>1. Core!Count = Core!GroupWidth
      <4>1. Core!Count # Core!Size - offset
        BY <1>2, <1>3, <2>1, <2>3
      <4> QED
        BY <1>4, <4>1
    <3>2. ~(i < offset) /\ ~(i < offset + Core!GroupWidth) /\ i \notin offset .. (offset + Core!Count - 1)
      BY <1>2, <1>4, <2>1, <2>3, <3>1
    <3> QED
      BY <1>1, <1>2, <3>2
  <2>4. CASE offset <= i /\ i < offset + Core!Count
    <3> DEFINE l == i - offset
    <3>1. l \in 0 .. (Core!Count - 1) /\ offset + l = i
      BY <1>2, <1>4, <2>1, <2>4
    <3>2. l \in Core!FinalMask(Core!live) <=> CoreAccepted(i)
      BY <1>1, <3>1, FinalMaskExact
    <3>3. CASE Core!live = {}
      <4>1. ~CoreAccepted(i)
        BY <3>2, <3>3 DEF Core!FinalMask
      <4> QED
        BY <1>1, <1>2, <2>1, <2>4, <3>3, <4>1
    <3>4. CASE Core!live # {}
      <4>1. ok'[i] = (l \in Core!accepted)
        BY <1>1, <1>2, <1>4, <2>1, <2>4, <3>4
      <4>2. Core!accepted = Core!FinalMask(Core!live)
        BY <1>1, <1>2, HalvesMakeGroup
      <4>3. i < offset + Core!GroupWidth
        BY <1>2, <1>4, <2>1, <2>4
      <4> QED
        BY <1>5, <3>2, <4>1, <4>2, <4>3
    <3> QED
      BY <3>3, <3>4
  <2> QED
    BY <1>2, <1>4, <2>1, <2>2, <2>3, <2>4
<1>7. ok' = [i \in DOMAIN batch' |-> i < offset' /\ CoreAccepted(i)']
  BY <1>1, <1>2, <1>5, <1>6
<1>8. CoreInv'
  BY <1>1, <1>2, <1>4, <1>7 DEF CoreInv
<1>9. UNCHANGED CoreContract!contractVars
  BY <1>1 DEF CoreContract!contractVars, Core!phase, Core!Request, Core!Asked, Shown
<1> QED
  BY <1>8, <1>9

\* A failing kernel leaves no verdict of the batch TRUE.
LEMMA GroupErrorStep ==
  ASSUME CoreInv, Core!GroupError
  PROVE  CoreInv' /\ CoreContract!Fail
<1>1. /\ pc = "groups" /\ pc' = "failed" /\ UNCHANGED <<kind, encodedQReference, batch, profile, offset>>
      /\ ok' = [i \in DOMAIN ok |-> FALSE]
      /\ DOMAIN ok = DOMAIN batch /\ batch \in Batches
  BY DEF Core!GroupError, Core!ClearedVerdicts, CoreInv
<1>2. CoreContract!Fail
  BY <1>1 DEF CoreContract!Fail, Core!phase, Core!Request, Core!Asked, Shown, NoneTrue
<1>3. CoreInv'
  BY <1>1 DEF CoreInv
<1> QED
  BY <1>2, <1>3

\* The batch is returned when every group is decided.
LEMMA CoreReturnStep ==
  ASSUME Core!R51PipelineAssumption, CoreInv, Core!Return
  PROVE  CoreInv' /\ CoreContract!Return
<1>1. /\ pc = "groups" /\ pc' = "returned" /\ offset >= Core!Size
      /\ UNCHANGED <<kind, encodedQReference, batch, profile, ok, offset>>
      /\ batch \in Batches /\ ok = [i \in DOMAIN batch |-> i < offset /\ CoreAccepted(i)]
      /\ offset \in Nat
  BY DEF Core!Return, CoreInv
<1>2. \A i \in DOMAIN batch : i < offset
  BY <1>1, CoreSize
<1>3. \A i : CoreAccepted(i)' = CoreAccepted(i) /\ CoreAccepted(i) \in BOOLEAN
  BY <1>1 DEF CoreAccepted, Core!Accepts
<1>4. ok = [i \in DOMAIN batch |-> CoreAccepted(i)]
  BY <1>1, <1>2, <1>3
<1>5. CoreInv'
  BY <1>1, <1>3, <1>4 DEF CoreInv
<1>6. CoreContract!Return
  BY <1>1, <1>4 DEF CoreContract!Return, CoreVerdicts, CoreAccepted, Core!phase, Core!Request, Core!Asked, Shown
<1> QED
  BY <1>5, <1>6

\* Nothing of the call is left.
LEMMA CoreConsumeStep ==
  ASSUME CoreInv, Core!Consume
  PROVE  CoreInv' /\ CoreContract!Consume
<1>1. /\ pc \in {"returned", "failed"} /\ pc' = "idle" /\ batch' = Core!NoBatch /\ offset' = 0
      /\ profile' = "DalekStrict" /\ UNCHANGED <<kind, encodedQReference>>
  BY DEF Core!Consume
<1>2. CoreContract!Consume
  BY <1>1 DEF CoreContract!Consume, Core!phase, Core!Request, Core!Asked, Core!NoBatch,
     CoreContract!NoVerdicts, Shown
<1>3. CoreInv'
  BY <1>1 DEF CoreInv, Core!Profiles
<1> QED
  BY <1>2, <1>3

\* The complete r51 core, in every kind (x4, two x4 halves, x8) and both forms
\* (points or encodings compared), for any lane width, batch and profile,
\* answers for each item as that item alone deserves, or fails and answers
\* FALSE for all.
THEOREM CoreImplementsContract ==
  ASSUME Core!R51PipelineAssumption
  PROVE  Core!Spec => CoreContract!Spec
<1>1. Core!Init => CoreInv /\ CoreContract!Init
  BY CoreInit
<1>2. CoreInv /\ [Core!Next]_(Core!vars) => CoreInv' /\ [CoreContract!Next]_(CoreContract!contractVars)
  <2> SUFFICES ASSUME CoreInv, [Core!Next]_(Core!vars)
               PROVE  CoreInv' /\ [CoreContract!Next]_(CoreContract!contractVars)
    OBVIOUS
  <2>1. CASE Core!VerifyBatch \/ Core!GroupError \/ Core!Return \/ Core!Consume
    BY <2>1, Core!R51PipelineAssumption, VerifyBatchStep, GroupErrorStep, CoreReturnStep, CoreConsumeStep
       DEF CoreContract!Next
  <2>2. CASE Core!VerifyGroup
    BY <2>2, Core!R51PipelineAssumption, VerifyGroupStep
  <2>3. CASE UNCHANGED Core!vars
    <3>1. UNCHANGED <<kind, encodedQReference, pc, batch, profile, ok, offset>>
      BY <2>3 DEF Core!vars
    <3>2. UNCHANGED CoreContract!contractVars
      BY <3>1 DEF CoreContract!contractVars, Core!phase, Core!Request, Core!Asked, Shown
    <3>3. CoreInv'
      BY <3>1 DEF CoreInv, CoreAccepted
    <3> QED
      BY <3>2, <3>3
  <2> QED
    BY <2>1, <2>2, <2>3 DEF Core!Next
<1> QED
  BY <1>1, <1>2, PTL DEF Core!Spec, CoreContract!Spec

-----------------------------------------------------------------------------
\* The tables of the vector builder.

\* The nonzero elements, and all.
Field == 1 .. (P - 1)
Vector == [CombLanes -> 0 .. (P - 1)]

\* The multiple an entry must hold: 1, 2, 3, ... times the base of its row.
Multiples(i) == ((i % Entries) + 1) * 2 ^ ((i \div Entries) * RowShift)

\* A multiple of the point of each lane's key.
IsPoint(p, n) == p = [l \in CombLanes |-> [of |-> PointOf[groupKeys[l]], times |-> n]]

\* What the arrays of the workspace must hold where the build has written them.
EntryRight(i) ==
  /\ IsPoint(workspace.projective[i].point, Multiples(i))
  /\ workspace.projective[i].z \in Vector
PrefixRight(i) ==
  /\ workspace.prefix[i] \in Vector
  /\ workspace.prefix[i] = IF i = 0 THEN workspace.projective[0].z
                           ELSE Multiply(workspace.prefix[i - 1], workspace.projective[i].z)
InverseRight(i) ==
  /\ workspace.inverseZ[i] \in Vector
  /\ \A l \in CombLanes : (workspace.inverseZ[i][l] * workspace.projective[i].z[l]) % P = 1
StagedRight(i) ==
  /\ IsPoint(workspace.staged[i].point, Multiples(i))
  /\ workspace.staged[i].scale = [l \in CombLanes |-> 1]

\* The arrays have the length they were allocated in, whatever is in them.
WorkspaceShape(w) ==
  /\ w = [rowBase |-> w.rowBase, projective |-> w.projective, prefix |-> w.prefix,
          inverseZ |-> w.inverseZ, staged |-> w.staged]
  /\ w.projective = [i \in Index |-> w.projective[i]] /\ w.prefix = [i \in Index |-> w.prefix[i]]
  /\ w.inverseZ = [i \in Index |-> w.inverseZ[i]] /\ w.staged = [i \in Index |-> w.staged[i]]

Projected == {"prefix", "invert", "reverse", "affine", "commit"}
BuildStages == {"rows", "double"} \cup Projected

\* A build is for the lanes of keys that may have tables.
LanesRight ==
  stage \in BuildStages =>
    /\ groupKeys = [l \in CombLanes |-> groupKeys[l]] /\ Buildable(groupKeys) /\ factors \in Factors

\* Row after row, entry after entry.
RowsRight ==
  stage = "rows" =>
    /\ doubling = 0
    /\ IsPoint(workspace.rowBase, 2 ^ ((index \div Entries) * RowShift))
    /\ IsPoint(multiple, Multiples(index))
    /\ \A i \in 0 .. (index - 1) : EntryRight(i)
DoublingRight ==
  stage = "double" =>
    /\ doubling \in 0 .. (RowShift - 1)
    /\ index % Entries = 0 /\ index \div Entries \in Nat \ {0}
    /\ IsPoint(workspace.rowBase, 2 ^ ((index \div Entries - 1) * RowShift + doubling))
    /\ \A i \in 0 .. (index - 1) : EntryRight(i)
EntriesRight == stage \in Projected => \A i \in Index : EntryRight(i)

\* The products forward, the inverses backward, the affine coordinates.
PrefixesRight ==
  /\ stage = "prefix" => \A i \in 0 .. (index - 1) : PrefixRight(i)
  /\ stage \in {"invert", "reverse"} => \A i \in Index : PrefixRight(i)
InversesRight ==
  /\ stage = "reverse" =>
       /\ inverseProduct \in Vector
       /\ \A l \in CombLanes : (inverseProduct[l] * workspace.prefix[index][l]) % P = 1
       /\ \A i \in (index + 1) .. (TableSize - 1) : InverseRight(i)
  /\ stage \in {"affine", "commit"} => \A i \in Index : InverseRight(i)
AffineRight ==
  /\ stage = "affine" => \A i \in 0 .. (index - 1) : StagedRight(i)
  /\ stage = "commit" => \A i \in Index : StagedRight(i)

\* The inductive invariant of the builder.
BuildInv ==
  /\ TablesExact
  /\ stage \in {"idle", "group"} \cup BuildStages /\ index \in Index /\ WorkspaceShape(workspace)
  /\ LanesRight
  /\ RowsRight /\ DoublingRight /\ EntriesRight /\ PrefixesRight /\ InversesRight /\ AffineRight

-----------------------------------------------------------------------------
\* The table has a last entry.
LEMMA LastEntry ==
  ASSUME CombBuildAssumption
  PROVE  /\ TableSize \in Nat \ {0} /\ 0 \in Index /\ TableSize - 1 \in Index
         /\ TableSize = Rows * Entries
         /\ \A i : i \in Index <=> i \in Nat /\ i < TableSize
<1>1. Rows \in Nat /\ Entries \in Nat /\ Rows >= 1 /\ Entries >= 1
  BY DEF CombBuildAssumption
<1>2. 1 * Entries <= Rows * Entries /\ Rows * Entries \in Nat
  BY <1>1, MulMono
<1>3. 1 * Entries = Entries
  BY <1>1
<1>4. TableSize \in Nat \ {0}
  BY <1>1, <1>2, <1>3 DEF TableSize
<1>5. TableSize = Rows * Entries
  BY DEF TableSize
<1> HIDE DEF TableSize
<1> QED BY <1>4, <1>5 DEF Index

\* Sums of multiples of one point.
LEMMA AddIs ==
  ASSUME NEW x, NEW y, NEW m \in Nat, NEW n \in Nat, IsPoint(x, m), IsPoint(y, n)
  PROVE  IsPoint(Add(x, y), m + n)
<1>1. ASSUME NEW l \in CombLanes
      PROVE  (IF x[l].of = y[l].of THEN [x[l] EXCEPT !.times = @ + y[l].times] ELSE Mixed)
               = [of |-> PointOf[groupKeys[l]], times |-> m + n]
  <2>1. x[l] = [of |-> PointOf[groupKeys[l]], times |-> m] /\ y[l] = [of |-> PointOf[groupKeys[l]], times |-> n]
    BY DEF IsPoint
  <2> QED BY <2>1
<1> QED BY <1>1 DEF IsPoint, Add

\* The entry after an entry: the next of its row, or the first of the next row.
LEMMA NextEntry ==
  ASSUME CombBuildAssumption, NEW i \in Index
  PROVE  /\ i \div Entries \in Nat /\ i % Entries \in Nat /\ (i + 1) \div Entries \in Nat
         /\ (i + 1) % Entries # 0 =>
              /\ i + 1 \in Index
              /\ (i + 1) \div Entries = i \div Entries /\ (i + 1) % Entries = (i % Entries) + 1
         /\ (i + 1) % Entries = 0 => (i + 1) \div Entries = (i \div Entries) + 1
<1>1. i \in Nat /\ i + 1 \in Nat /\ i < TableSize /\ Entries \in Nat \ {0} /\ Rows \in Nat /\ TableSize \in Nat
  BY LastEntry DEF CombBuildAssumption
<1> DEFINE a == i \div Entries  b == i % Entries
<1>2. i = a * Entries + b /\ a \in Nat /\ b \in 0 .. Entries - 1
  BY <1>1, DivMod
<1>3. (i + 1) \div Entries \in Nat
  <2> DEFINE j == i + 1
  <2>1. j \in Nat
    BY <1>1
  <2> HIDE DEF j
  <2>2. j \div Entries \in Nat
    BY <2>1, <1>1, DivMod
  <2> QED BY <2>2 DEF j
<1> HIDE DEF a, b
<1>4. CASE b + 1 < Entries
  <2> DEFINE j == i + 1  c == b + 1
  <2>1. j \in Nat /\ j = a * Entries + c /\ c \in 0 .. Entries - 1 /\ a \in Nat
    BY <1>1, <1>2, <1>4
  <2> HIDE DEF j, c
  <2>2. j \div Entries = a /\ j % Entries = c
    BY <2>1, <1>1, DivUnique
  <2>3. j % Entries # 0
    BY <2>2, <1>2 DEF c
  <2>4. j # TableSize
    <3>1. TableSize = Rows * Entries + 0 /\ 0 \in 0 .. Entries - 1
      BY <1>1, LastEntry
    <3>2. TableSize % Entries = 0
      BY <3>1, <1>1, DivUnique
    <3> QED BY <3>2, <2>3
  <2>5. j \in Index
    BY <2>4, <2>1, <1>1, LastEntry DEF j
  <2> QED BY <2>2, <2>3, <2>5, <1>2, <1>3 DEF j, c, a, b
<1>5. CASE ~(b + 1 < Entries)
  <2> DEFINE j == i + 1  c == a + 1
  <2>1. b + 1 = Entries
    BY <1>1, <1>2, <1>5
  <2>2. c * Entries = a * Entries + Entries
    BY <1>1, <1>2
  <2>3. j \in Nat /\ j = c * Entries + 0 /\ 0 \in 0 .. Entries - 1 /\ c \in Nat
    BY <1>1, <1>2, <2>1, <2>2
  <2> HIDE DEF j, c
  <2>4. j \div Entries = c /\ j % Entries = 0
    BY <2>3, <1>1, DivUnique
  <2> QED BY <2>4, <1>2, <1>3 DEF j, c, a, b
<1> QED BY <1>4, <1>5

\* The multiple of an entry in terms of its row and place.
LEMMA MultipleOf ==
  ASSUME CombBuildAssumption, NEW r \in Nat, NEW e \in 0 .. (Entries - 1)
  PROVE  /\ r * Entries + e \in Nat
         /\ Multiples(r * Entries + e) = (e + 1) * 2 ^ (r * RowShift)
         /\ (r * Entries + e) \div Entries = r /\ (r * Entries + e) % Entries = e
<1>1. Entries \in Nat \ {0}
  BY DEF CombBuildAssumption
<1> DEFINE j == r * Entries + e
<1>2. j \in Nat /\ j = r * Entries + e /\ e \in 0 .. Entries - 1
  BY <1>1
<1> HIDE DEF j
<1>3. j \div Entries = r /\ j % Entries = e
  BY <1>1, <1>2, DivUnique
<1>4. Multiples(j) = (e + 1) * 2 ^ (r * RowShift)
  BY <1>3 DEF Multiples
<1> QED BY <1>2, <1>3, <1>4 DEF j

\* Powers of the row: numbers.
LEMMA RowPower ==
  ASSUME CombBuildAssumption, NEW a \in Nat
  PROVE  a * RowShift \in Nat /\ 2 ^ (a * RowShift) \in Nat
<1>1. a * RowShift \in Nat
  BY DEF CombBuildAssumption
<1> DEFINE x == a * RowShift
<1> HIDE DEF x
<1>2. x \in Nat => 2 ^ x \in Nat
  BY PowerStep
<1> QED BY <1>1, <1>2 DEF x

\* Products of vectors are vectors.
LEMMA MultiplyIs ==
  ASSUME CombBuildAssumption, NEW x \in Vector, NEW y \in Vector
  PROVE  Multiply(x, y) \in Vector /\ \A l \in CombLanes : Multiply(x, y)[l] = (x[l] * y[l]) % P
<1>1. ASSUME NEW l \in CombLanes PROVE (x[l] * y[l]) % P \in 0 .. (P - 1)
  <2> DEFINE n == x[l] * y[l]
  <2>1. x[l] \in Nat /\ y[l] \in Nat /\ P \in Nat \ {0}
    BY DEF Vector, CombBuildAssumption
  <2>2. n \in Nat
    BY <2>1
  <2> HIDE DEF n
  <2>3. n % P \in 0 .. P - 1
    BY <2>1, <2>2, DivMod
  <2> QED BY <2>3 DEF n
<1> QED BY <1>1 DEF Multiply, Vector

\* A product that is one stays one when a factor moves to the other side.
LEMMA MoveFactor ==
  ASSUME NEW a \in Nat, NEW b \in Nat, NEW c \in Nat, NEW p \in Nat \ {0}, (a * ((b * c) % p)) % p = 1
  PROVE  (((a * b) % p) * c) % p = 1
<1> DEFINE x == b * c  y == a * b
<1>1. x \in Nat /\ y \in Nat /\ a * x = y * c
  OBVIOUS
<1>2. (a * (x % p)) % p = 1
  OBVIOUS
<1> HIDE DEF x, y
<1>3. (a * (x % p)) % p = (a * x) % p
  BY ZenonT(60), <1>1, ModTimes
<1>4. ((y % p) * c) % p = (y * c) % p
  BY ZenonT(60), <1>1, ModTimes
<1>5. ((y % p) * c) % p = 1
  BY <1>1, <1>2, <1>3, <1>4
<1> QED BY <1>5 DEF y

\* A staged table is exact.
LEMMA StagedExact ==
  ASSUME CombBuildAssumption, BuildInv, stage = "commit", NEW l \in CombLanes
  PROVE  Exact(StagedTable(l), groupKeys[l])
<1>1. groupKeys[l] \notin SmallOrder /\ PointOf[groupKeys[l]] # "none"
  <2>1. l \in DOMAIN groupKeys /\ Buildable(groupKeys)
    BY DEF BuildInv, LanesRight, BuildStages, Projected
  <2> QED BY <2>1 DEF Buildable
<1>2. SUFFICES ASSUME NEW r \in 0 .. (Rows - 1), NEW e \in 0 .. (Entries - 1)
               PROVE  StagedTable(l)[r * Entries + e] =
                        [point |-> [of |-> PointOf[groupKeys[l]], times |-> (e + 1) * 2 ^ (r * RowShift)], scale |-> 1]
  BY <1>1 DEF Exact
<1> DEFINE j == r * Entries + e
<1>3. j \in Nat /\ Multiples(j) = (e + 1) * 2 ^ (r * RowShift)
  <2>1. r \in Nat
    BY DEF CombBuildAssumption
  <2> QED BY <2>1, MultipleOf
<1>4. j < Rows * Entries
  <2>1. Rows \in Nat /\ Entries \in Nat \ {0} /\ r \in Nat /\ e \in Nat /\ r + 1 <= Rows /\ e < Entries /\ r + 1 \in Nat
    BY DEF CombBuildAssumption
  <2>2. (r + 1) * Entries <= Rows * Entries
    BY <2>1, MulMono
  <2>3. (r + 1) * Entries = r * Entries + Entries /\ r * Entries \in Nat
    BY <2>1
  <2> QED BY <2>1, <2>2, <2>3, MulMono
<1>5. j \in Index
  BY <1>3, <1>4, LastEntry
<1> HIDE DEF j
<1>6. StagedRight(j)
  BY <1>5 DEF BuildInv, AffineRight
<1>7. workspace.staged[j].point[l] = [of |-> PointOf[groupKeys[l]], times |-> Multiples(j)]
      /\ workspace.staged[j].scale[l] = 1
  BY <1>6 DEF StagedRight, IsPoint
<1>8. StagedTable(l)[j] = [point |-> [of |-> PointOf[groupKeys[l]], times |-> Multiples(j)], scale |-> 1]
  BY <1>5, <1>7 DEF StagedTable
<1> QED BY <1>3, <1>8 DEF j

\* The first entry is the base itself.
LEMMA FirstEntry ==
  ASSUME CombBuildAssumption
  PROVE  0 \div Entries = 0 /\ Multiples(0) = 1 /\ 2 ^ ((0 \div Entries) * RowShift) = 1
<1>1. 0 * Entries + 0 = 0 /\ 0 * RowShift = 0 /\ 0 \in 0 .. (Entries - 1) /\ 2 ^ 0 = 1
  <2>1. Entries \in Nat \ {0} /\ RowShift \in Nat
    BY DEF CombBuildAssumption
  <2> QED BY <2>1
<1>2. 0 \in Nat
  OBVIOUS
<1>3. /\ Multiples(0 * Entries + 0) = (0 + 1) * 2 ^ (0 * RowShift)
      /\ (0 * Entries + 0) \div Entries = 0
  BY <1>1, <1>2, MultipleOf
<1>4. Multiples(0) = (0 + 1) * 2 ^ 0 /\ 0 \div Entries = 0
  BY ONLY <1>1, <1>3, Zenon
<1>5. (0 + 1) * 2 ^ 0 = 1
  BY <1>1
<1> QED BY ONLY <1>1, <1>4, <1>5, Zenon

\* A workspace is made in its shape.
LEMMA FreshShape == WorkspaceShape(FreshWorkspace)
BY DEF WorkspaceShape, FreshWorkspace

\* A build starts right in whatever workspace it is given.
LEMMA StartStep ==
  ASSUME CombBuildAssumption, NEW input, input = [l \in CombLanes |-> input[l]], Buildable(input),
         NEW w, WorkspaceShape(w), StartBuild(input, w), TablesExact'
  PROVE  BuildInv'
<1>1. /\ stage' = "rows" /\ groupKeys' = input /\ factors' \in Factors /\ index' = 0 /\ doubling' = 0
      /\ workspace' = [w EXCEPT !.rowBase = Bases(input)] /\ multiple' = workspace'.rowBase
  BY DEF StartBuild, SetRowBase
<1>2. /\ workspace'.rowBase = Bases(input) /\ workspace'.projective = w.projective
      /\ workspace'.prefix = w.prefix /\ workspace'.inverseZ = w.inverseZ /\ workspace'.staged = w.staged
      /\ WorkspaceShape(workspace)'
  BY <1>1 DEF WorkspaceShape
<1>3. IsPoint(workspace.rowBase, 1)' /\ IsPoint(multiple, 1)'
  BY <1>1, <1>2 DEF IsPoint, Bases
<1>4. RowsRight'
  BY <1>1, <1>3, FirstEntry DEF RowsRight
<1>5. index' \in Index
  BY <1>1, LastEntry
<1>6. LanesRight'
  BY <1>1 DEF LanesRight
<1> QED BY <1>1, <1>2, <1>4, <1>5, <1>6 DEF BuildInv, DoublingRight, EntriesRight, PrefixesRight, InversesRight,
          AffineRight, BuildStages, Projected

\* Between builds nothing is asked of the workspace.
LEMMA RestStep ==
  ASSUME stage' \in {"idle", "group"}, index' \in Index, WorkspaceShape(workspace)', TablesExact'
  PROVE  BuildInv'
BY DEF BuildInv, LanesRight, RowsRight, DoublingRight, EntriesRight, PrefixesRight, InversesRight, AffineRight,
       BuildStages, Projected

\* What a step of the schedule leaves alone.
LEMMA TablesKept ==
  ASSUME TablesExact, UNCHANGED <<published, map>>
  PROVE  TablesExact'
BY DEF TablesExact, Exact

\* Storing an entry.
LEMMA StoreStep ==
  ASSUME CombBuildAssumption, BuildInv, StoreEntry
  PROVE  BuildInv'
<1> DEFINE v == [point |-> multiple, z |-> factors[index]]
<1>1. /\ stage = "rows" /\ index \in Index /\ WorkspaceShape(workspace) /\ LanesRight /\ RowsRight
      /\ TablesExact' /\ groupKeys' = groupKeys /\ factors' = factors
      /\ workspace' = [workspace EXCEPT !.projective[index] = v]
  <2>1. UNCHANGED <<published, map>> /\ TablesExact
    BY DEF StoreEntry, callerVars, BuildInv
  <2>2. TablesExact'
    BY <2>1, TablesKept
  <2> QED BY <2>2 DEF StoreEntry, BuildInv
<1>2. /\ workspace'.rowBase = workspace.rowBase
      /\ workspace'.projective = [workspace.projective EXCEPT ![index] = v]
      /\ WorkspaceShape(workspace)'
      /\ workspace'.projective[index] = v
      /\ \A i \in Index : i # index => workspace'.projective[i] = workspace.projective[i]
  BY <1>1 DEF WorkspaceShape
<1>3. ASSUME NEW i \in Index, i = index PROVE EntryRight(i)'
  <2>1. IsPoint(multiple, Multiples(index))
    BY <1>1 DEF RowsRight
  <2>2. factors[index] \in Vector
    BY <1>1 DEF LanesRight, BuildStages, CombBuildAssumption, Vector
  <2> QED BY <1>1, <1>2, <1>3, <2>1, <2>2 DEF EntryRight, IsPoint, Multiples
<1>4. ASSUME NEW i \in Index, i # index, EntryRight(i) PROVE EntryRight(i)'
  BY <1>1, <1>2, <1>4 DEF EntryRight, IsPoint, Multiples
<1>5. \A i \in 0 .. index : EntryRight(i)'
  <2>1. SUFFICES ASSUME NEW i \in 0 .. index PROVE EntryRight(i)'
    OBVIOUS
  <2>2. i \in Index
    BY <1>1, LastEntry
  <2>3. i # index => EntryRight(i)
    BY <1>1, LastEntry DEF RowsRight
  <2> QED BY <1>3, <1>4, <2>2, <2>3
<1>6. index \in Nat /\ index < TableSize /\ TableSize \in Nat
  BY <1>1, LastEntry
<1>7. CASE /\ (index + 1) % Entries # 0
           /\ multiple' = Add(multiple, workspace.rowBase)
           /\ index' = index + 1 /\ UNCHANGED stage
  <2> DEFINE unit == 2 ^ ((index \div Entries) * RowShift)
  <2>1. /\ index + 1 \in Index /\ (index + 1) \div Entries = index \div Entries
        /\ (index + 1) % Entries = (index % Entries) + 1
        /\ index \div Entries \in Nat /\ index % Entries \in Nat
    BY <1>1, <1>7, NextEntry
  <2>2. unit \in Nat
    BY <2>1, RowPower
  <2>3. Multiples(index) = ((index % Entries) + 1) * unit /\ Multiples(index + 1) = ((index % Entries) + 1 + 1) * unit
    BY <2>1 DEF Multiples
  <2>4. IsPoint(multiple, Multiples(index)) /\ IsPoint(workspace.rowBase, unit) /\ doubling = 0
    BY <1>1 DEF RowsRight
  <2> HIDE DEF unit
  <2>5. Multiples(index) \in Nat /\ Multiples(index + 1) = Multiples(index) + unit
    BY <2>1, <2>2, <2>3
  <2>6. IsPoint(multiple', Multiples(index + 1))
    BY <1>7, <2>2, <2>4, <2>5, AddIs
  <2>7. RowsRight'
    <3>1. doubling' = 0
      BY <2>4 DEF StoreEntry
    <3>2. IsPoint(multiple, Multiples(index))'
      BY <2>6, <1>1, <1>7 DEF IsPoint, Multiples
    <3>3. IsPoint(workspace.rowBase, 2 ^ ((index \div Entries) * RowShift))'
      BY <2>1, <2>4, <1>1, <1>2, <1>7 DEF IsPoint, unit
    <3>4. \A i \in (0 .. (index - 1))' : EntryRight(i)'
      BY <1>5, <1>6, <1>7
    <3> QED BY <3>1, <3>2, <3>3, <3>4 DEF RowsRight
  <2>8. LanesRight'
    BY <1>1, <1>7 DEF LanesRight, BuildStages
  <2> QED BY <1>1, <1>2, <1>7, <2>1, <2>7, <2>8 DEF BuildInv, DoublingRight, EntriesRight, PrefixesRight, InversesRight,
            AffineRight, BuildStages, Projected
<1>8. CASE /\ (index + 1) % Entries = 0 /\ index + 1 < TableSize
           /\ index' = index + 1 /\ stage' = "double" /\ UNCHANGED multiple
  <2> DEFINE a == (index \div Entries) + 1
  <2>1. (index + 1) \div Entries = a /\ index \div Entries \in Nat
    BY <1>1, <1>8, NextEntry
  <2>2. index + 1 \in Index
    BY <1>6, <1>8, LastEntry
  <2>3. /\ a - 1 = index \div Entries /\ a \in Nat \ {0}
        /\ (index \div Entries) * RowShift + 0 = (index \div Entries) * RowShift
    BY <2>1 DEF CombBuildAssumption
  <2>4. IsPoint(workspace.rowBase, 2 ^ ((index \div Entries) * RowShift)) /\ doubling = 0
    BY <1>1 DEF RowsRight
  <2>5. doubling' = 0
    BY <2>4 DEF StoreEntry
  <2>6. IsPoint(workspace'.rowBase, 2 ^ ((a - 1) * RowShift + 0))
    BY <1>2, <2>3, <2>4
  <2>7. DoublingRight'
    <3>1. doubling' \in 0 .. (RowShift - 1)
      BY <2>5 DEF CombBuildAssumption
    <3>2. (index' % Entries = 0) /\ (index' \div Entries = a) /\ a \in Nat \ {0}
      BY <1>8, <2>1, <2>3
    <3>3. IsPoint(workspace.rowBase, 2 ^ ((index \div Entries - 1) * RowShift + doubling))'
      BY <1>1, <1>8, <2>1, <2>5, <2>6 DEF IsPoint
    <3>4. \A i \in (0 .. (index - 1))' : EntryRight(i)'
      BY <1>5, <1>6, <1>8
    <3> QED BY <3>1, <3>2, <3>3, <3>4 DEF DoublingRight
  <2>8. LanesRight'
    BY <1>1, <1>8 DEF LanesRight, BuildStages
  <2> QED BY <1>1, <1>2, <1>8, <2>2, <2>7, <2>8 DEF BuildInv, RowsRight, EntriesRight, PrefixesRight, InversesRight,
            AffineRight, BuildStages, Projected
<1>9. CASE /\ index + 1 = TableSize
           /\ index' = 0 /\ stage' = "prefix" /\ UNCHANGED multiple
  <2>1. EntriesRight'
    <3>1. \A i \in Index : i \in 0 .. index
      BY <1>6, <1>9, LastEntry
    <3> QED BY <3>1, <1>5 DEF EntriesRight
  <2>2. index' \in Index
    BY <1>9, LastEntry
  <2>3. PrefixesRight'
    BY <1>9 DEF PrefixesRight
  <2>4. LanesRight'
    BY <1>1, <1>9 DEF LanesRight, BuildStages, Projected
  <2> QED BY <1>1, <1>2, <1>9, <2>1, <2>2, <2>3, <2>4 DEF BuildInv, RowsRight, DoublingRight, InversesRight,
            AffineRight, BuildStages, Projected
<1> QED BY <1>7, <1>8, <1>9 DEF StoreEntry

\* Entries stay right while their array and the lanes are left alone.
LEMMA EntriesKept ==
  ASSUME NEW i, EntryRight(i), workspace'.projective = workspace.projective, groupKeys' = groupKeys
  PROVE  EntryRight(i)'
BY DEF EntryRight, IsPoint, Multiples

\* Doubling the row base.
LEMMA DoubleStep ==
  ASSUME CombBuildAssumption, BuildInv, DoubleRowBase
  PROVE  BuildInv'
<1>1. /\ stage = "double" /\ index \in Index /\ WorkspaceShape(workspace) /\ LanesRight /\ DoublingRight
      /\ TablesExact' /\ groupKeys' = groupKeys /\ factors' = factors /\ index' = index
      /\ workspace' = [workspace EXCEPT !.rowBase = Add(@, @)]
  <2>1. UNCHANGED <<published, map>> /\ TablesExact
    BY DEF DoubleRowBase, callerVars, BuildInv
  <2>2. TablesExact'
    BY <2>1, TablesKept
  <2> QED BY <2>2 DEF DoubleRowBase, BuildInv
<1>2. /\ workspace'.rowBase = Add(workspace.rowBase, workspace.rowBase)
      /\ workspace'.projective = workspace.projective
      /\ WorkspaceShape(workspace)'
  BY <1>1 DEF WorkspaceShape
<1>3. /\ doubling \in 0 .. (RowShift - 1)
      /\ index % Entries = 0 /\ index \div Entries \in Nat \ {0}
      /\ IsPoint(workspace.rowBase, 2 ^ ((index \div Entries - 1) * RowShift + doubling))
      /\ \A i \in 0 .. (index - 1) : EntryRight(i)
  BY <1>1 DEF DoublingRight
<1>4. \A i \in 0 .. (index' - 1) : EntryRight(i)'
  BY <1>1, <1>2, <1>3, EntriesKept
<1> DEFINE a == index \div Entries  n == (a - 1) * RowShift + doubling
<1>5. /\ RowShift \in Nat \ {0} /\ n \in Nat
      /\ n + 1 = (a - 1) * RowShift + (doubling + 1)
      /\ doubling + 1 = RowShift => n + 1 = a * RowShift
  <2>1. RowShift \in Nat \ {0} /\ a - 1 \in Nat /\ a \in Nat
    BY <1>3 DEF CombBuildAssumption
  <2>2. (a - 1) * RowShift \in Nat /\ a * RowShift = (a - 1) * RowShift + RowShift
    BY <2>1
  <2> QED BY <1>3, <2>1, <2>2
<1>6. IsPoint(workspace'.rowBase, 2 ^ (n + 1))
  <2> DEFINE unit == 2 ^ n
  <2>1. unit \in Nat /\ 2 ^ (n + 1) = 2 * unit
    <3> HIDE DEF n
    <3> QED BY <1>5, PowerStep
  <2>2. IsPoint(workspace.rowBase, unit)
    BY <1>3
  <2> HIDE DEF unit
  <2>3. IsPoint(workspace'.rowBase, unit + unit)
    BY <1>2, <2>1, <2>2, AddIs
  <2> QED BY <2>1, <2>3
<1> HIDE DEF n
<1>7. CASE doubling + 1 < RowShift /\ doubling' = doubling + 1 /\ UNCHANGED <<stage, multiple>>
  <2>1. DoublingRight'
    <3>1. doubling' \in 0 .. (RowShift - 1)
      BY <1>3, <1>5, <1>7
    <3>2. IsPoint(workspace.rowBase, 2 ^ ((index \div Entries - 1) * RowShift + doubling))'
      BY <1>1, <1>5, <1>6, <1>7 DEF IsPoint
    <3> QED BY <1>1, <1>3, <1>4, <3>1, <3>2 DEF DoublingRight
  <2>2. LanesRight'
    BY <1>1, <1>7 DEF LanesRight, BuildStages
  <2> QED BY <1>1, <1>2, <1>7, <2>1, <2>2 DEF BuildInv, RowsRight, EntriesRight, PrefixesRight, InversesRight,
            AffineRight, BuildStages, Projected
<1>8. CASE doubling + 1 = RowShift /\ doubling' = 0 /\ stage' = "rows" /\ multiple' = workspace'.rowBase
  <2>1. IsPoint(workspace.rowBase, 2 ^ ((index \div Entries) * RowShift))'
    BY <1>1, <1>5, <1>6, <1>8 DEF IsPoint
  <2>2. Multiples(index) = 2 ^ (a * RowShift)
    <3> DEFINE unit == 2 ^ (a * RowShift)
    <3>1. Multiples(index) = (0 + 1) * unit
      BY <1>3 DEF Multiples
    <3>2. unit \in Nat
      BY <1>3, RowPower
    <3> HIDE DEF unit
    <3>3. Multiples(index) = unit
      BY <3>1, <3>2
    <3> QED BY <3>3 DEF unit
  <2>3. IsPoint(multiple, Multiples(index))'
    <3>1. Multiples(index') = 2 ^ (a * RowShift)
      BY <1>1, <2>2
    <3>2. IsPoint(multiple, 2 ^ ((index \div Entries) * RowShift))'
      BY <1>8, <2>1 DEF IsPoint
    <3> QED BY <1>1, <3>1, <3>2 DEF IsPoint
  <2>4. RowsRight'
    BY <1>4, <1>8, <2>1, <2>3 DEF RowsRight
  <2>5. LanesRight'
    BY <1>1, <1>8 DEF LanesRight, BuildStages
  <2> QED BY <1>1, <1>2, <1>8, <2>4, <2>5 DEF BuildInv, DoublingRight, EntriesRight, PrefixesRight, InversesRight,
            AffineRight, BuildStages, Projected
<1> QED BY <1>7, <1>8 DEF DoubleRowBase

\* A product of the prefix chain.
LEMMA PrefixStep ==
  ASSUME CombBuildAssumption, BuildInv, MultiplyPrefix
  PROVE  BuildInv'
<1> DEFINE z == workspace.projective[index].z
           v == IF index = 0 THEN z ELSE Multiply(workspace.prefix[index - 1], z)
<1>1. /\ stage = "prefix" /\ index \in Index /\ WorkspaceShape(workspace) /\ LanesRight
      /\ EntriesRight /\ PrefixesRight
      /\ TablesExact' /\ groupKeys' = groupKeys /\ factors' = factors
      /\ workspace' = [workspace EXCEPT !.prefix[index] = v]
  <2>1. UNCHANGED <<published, map>> /\ TablesExact
    BY DEF MultiplyPrefix, callerVars, BuildInv
  <2>2. TablesExact'
    BY <2>1, TablesKept
  <2> QED BY <2>2 DEF MultiplyPrefix, BuildInv
<1> HIDE DEF v
<1>2. /\ workspace'.projective = workspace.projective
      /\ WorkspaceShape(workspace)'
      /\ workspace'.prefix[index] = v
      /\ \A i \in Index : i # index => workspace'.prefix[i] = workspace.prefix[i]
  BY <1>1 DEF WorkspaceShape
<1>3. EntriesRight' /\ \A i \in Index : EntryRight(i)
  BY <1>1, <1>2, EntriesKept DEF EntriesRight, Projected
<1>4. index \in Nat /\ index < TableSize /\ TableSize \in Nat /\ \A i \in 0 .. index : i \in Index
  BY <1>1, LastEntry
<1>5. \A i \in 0 .. (index - 1) : PrefixRight(i)
  BY <1>1 DEF PrefixesRight
<1>6. \A i \in 0 .. (index - 1) : PrefixRight(i)'
  <2>1. SUFFICES ASSUME NEW i \in 0 .. (index - 1) PROVE PrefixRight(i)'
    OBVIOUS
  <2>2. i \in Index /\ i # index /\ (i # 0 => i - 1 \in Index /\ i - 1 # index)
    BY <1>4, LastEntry
  <2>3. /\ workspace'.prefix[i] = workspace.prefix[i]
        /\ i # 0 => workspace'.prefix[i - 1] = workspace.prefix[i - 1]
    BY <1>2, <2>2
  <2> QED BY <1>2, <1>5, <2>3 DEF PrefixRight, Multiply
<1>7. ASSUME NEW i \in Index, i = index PROVE PrefixRight(i)'
  <2>1. z \in Vector
    BY <1>1, <1>3 DEF EntryRight
  <2>2. index # 0 => /\ workspace.prefix[index - 1] \in Vector
                     /\ workspace'.prefix[index - 1] = workspace.prefix[index - 1]
    <3>1. index # 0 => index - 1 \in 0 .. (index - 1) /\ index - 1 \in Index /\ index - 1 # index
      BY <1>4, LastEntry
    <3> QED BY <3>1, <1>2, <1>5 DEF PrefixRight
  <2>3. v \in Vector
    BY <2>1, <2>2, MultiplyIs DEF v
  <2> QED BY <1>2, <1>7, <2>2, <2>3 DEF PrefixRight, Multiply, v
<1>8. \A i \in 0 .. index : PrefixRight(i)'
  <2>1. SUFFICES ASSUME NEW i \in 0 .. index PROVE PrefixRight(i)'
    OBVIOUS
  <2>2. i \in Index /\ (i = index \/ i \in 0 .. (index - 1))
    BY <1>4
  <2> QED BY <1>6, <1>7, <2>2
<1>9. CASE index + 1 < TableSize /\ index' = index + 1 /\ UNCHANGED stage
  <2>1. index' \in Index
    BY <1>4, <1>9, LastEntry
  <2>2. PrefixesRight'
    BY <1>1, <1>4, <1>8, <1>9 DEF PrefixesRight
  <2>3. LanesRight'
    BY <1>1, <1>9 DEF LanesRight, BuildStages, Projected
  <2> QED BY <1>1, <1>2, <1>3, <1>9, <2>1, <2>2, <2>3 DEF BuildInv, RowsRight, DoublingRight, InversesRight,
            AffineRight, BuildStages, Projected
<1>10. CASE index + 1 = TableSize /\ index' = 0 /\ stage' = "invert"
  <2>1. index' \in Index /\ \A i \in Index : i \in 0 .. index
    BY <1>4, <1>10, LastEntry
  <2>2. PrefixesRight'
    BY <1>8, <1>10, <2>1 DEF PrefixesRight
  <2>3. LanesRight'
    BY <1>1, <1>10 DEF LanesRight, BuildStages, Projected
  <2> QED BY <1>1, <1>2, <1>3, <1>10, <2>1, <2>2, <2>3 DEF BuildInv, RowsRight, DoublingRight, InversesRight,
            AffineRight, BuildStages, Projected
<1> QED BY <1>9, <1>10 DEF MultiplyPrefix

\* Products stay right while their arrays are left alone.
LEMMA PrefixesKept ==
  ASSUME NEW i, PrefixRight(i), workspace'.projective = workspace.projective, workspace'.prefix = workspace.prefix
  PROVE  PrefixRight(i)'
BY DEF PrefixRight, Multiply

\* Inverting the product of all.
LEMMA InvertStep ==
  ASSUME CombBuildAssumption, BuildInv, InvertTotal
  PROVE  BuildInv'
<1>1. /\ stage = "invert" /\ WorkspaceShape(workspace) /\ LanesRight /\ EntriesRight /\ PrefixesRight
      /\ TablesExact' /\ groupKeys' = groupKeys /\ factors' = factors /\ workspace' = workspace
      /\ \A l \in CombLanes : Total[l] # 0
      /\ inverseProduct' = Invert(Total) /\ index' = TableSize - 1 /\ stage' = "reverse"
  <2>1. UNCHANGED <<published, map>> /\ TablesExact
    BY DEF InvertTotal, callerVars, BuildInv
  <2>2. TablesExact'
    BY <2>1, TablesKept
  <2> QED BY <2>2 DEF InvertTotal, BuildInv
<1>2. WorkspaceShape(workspace)' /\ workspace'.projective = workspace.projective /\ workspace'.prefix = workspace.prefix
  BY <1>1 DEF WorkspaceShape
<1>3. EntriesRight'
  BY <1>1, <1>2, EntriesKept DEF EntriesRight, Projected
<1>4. Total = workspace.prefix[index'] /\ Total \in Vector /\ index' \in Index
  <2>1. PrefixRight(TableSize - 1) /\ TableSize - 1 \in Index
    BY <1>1, LastEntry DEF PrefixesRight
  <2> QED BY <1>1, <2>1 DEF PrefixRight, Total
<1> HIDE DEF Total
<1>5. ASSUME NEW l \in CombLanes
      PROVE  inverseProduct'[l] \in Field /\ (inverseProduct'[l] * Total[l]) % P = 1
  <2>1. Total[l] \in Field
    BY <1>1, <1>4 DEF Vector, Field, CombBuildAssumption
  <2>2. \E y \in 1 .. (P - 1) : (Total[l] * y) % P = 1
    BY <2>1 DEF CombBuildAssumption, Field
  <2>3. inverseProduct'[l] = CHOOSE y \in 1 .. (P - 1) : (Total[l] * y) % P = 1
    BY <1>1 DEF Invert
  <2>4. inverseProduct'[l] \in 1 .. (P - 1) /\ (Total[l] * inverseProduct'[l]) % P = 1
    BY <2>2, <2>3, Zenon
  <2>5. Total[l] * inverseProduct'[l] = inverseProduct'[l] * Total[l]
    BY <2>1, <2>4 DEF Field, CombBuildAssumption
  <2> QED BY <2>4, <2>5 DEF Field
<1>6. inverseProduct' \in Vector
  <2>1. \A l \in CombLanes : inverseProduct'[l] \in 0 .. (P - 1)
    BY <1>5 DEF Field, CombBuildAssumption
  <2>2. inverseProduct' = [l \in CombLanes |-> inverseProduct'[l]]
    BY <1>1 DEF Invert
  <2> QED BY <2>1, <2>2 DEF Vector
<1>7. InversesRight'
  <2>1. \A l \in CombLanes : (inverseProduct'[l] * workspace'.prefix[index'][l]) % P = 1
    BY <1>2, <1>4, <1>5
  <2>2. \A i \in (index' + 1) .. (TableSize - 1) : FALSE
    BY <1>1, LastEntry
  <2> QED BY <1>1, <1>6, <2>1, <2>2 DEF InversesRight
<1>8. PrefixesRight'
  BY <1>1, <1>2, PrefixesKept DEF PrefixesRight
<1>9. LanesRight'
  BY <1>1 DEF LanesRight, BuildStages, Projected
<1> QED BY <1>1, <1>2, <1>3, <1>4, <1>7, <1>8, <1>9 DEF BuildInv, RowsRight, DoublingRight,
          AffineRight, BuildStages, Projected

\* The inverse of one entry.
LEMMA ReverseStep ==
  ASSUME CombBuildAssumption, BuildInv, InvertEntry
  PROVE  BuildInv'
<1> DEFINE z == workspace.projective[index].z  before == workspace.prefix[index - 1]
           v == IF index > 0 THEN Multiply(inverseProduct, before) ELSE inverseProduct
<1>1. /\ stage = "reverse" /\ index \in Index /\ WorkspaceShape(workspace) /\ LanesRight
      /\ EntriesRight /\ PrefixesRight /\ InversesRight
      /\ TablesExact' /\ groupKeys' = groupKeys /\ factors' = factors
  <2>1. UNCHANGED <<published, map>> /\ TablesExact
    BY DEF InvertEntry, callerVars, BuildInv
  <2>2. TablesExact'
    BY <2>1, TablesKept
  <2> QED BY <2>2 DEF InvertEntry, BuildInv
<1>2. index \in Nat /\ index < TableSize /\ TableSize \in Nat
  BY <1>1, LastEntry
<1>3. workspace' = [workspace EXCEPT !.inverseZ[index] = v]
  BY <1>2 DEF InvertEntry
<1> HIDE DEF v
<1>4. /\ workspace'.projective = workspace.projective /\ workspace'.prefix = workspace.prefix
      /\ WorkspaceShape(workspace)'
      /\ workspace'.inverseZ[index] = v
      /\ \A i \in Index : i # index => workspace'.inverseZ[i] = workspace.inverseZ[i]
  BY <1>1, <1>3 DEF WorkspaceShape
<1>5. EntriesRight' /\ \A i \in Index : EntryRight(i)
  <2>1. \A i \in Index : EntryRight(i)
    BY <1>1 DEF EntriesRight, Projected
  <2>2. \A i \in Index : EntryRight(i)'
    BY <1>1, <1>4, <2>1, EntriesKept
  <2> QED BY <2>1, <2>2 DEF EntriesRight
<1>6. \A i \in Index : PrefixRight(i) /\ PrefixRight(i)'
  <2>1. \A i \in Index : PrefixRight(i)
    BY <1>1 DEF PrefixesRight
  <2> QED BY <1>4, <2>1, PrefixesKept
<1>7. /\ inverseProduct \in Vector /\ z \in Vector
      /\ \A l \in CombLanes : (inverseProduct[l] * workspace.prefix[index][l]) % P = 1
      /\ \A i \in (index + 1) .. (TableSize - 1) : InverseRight(i)
  BY <1>1, <1>5 DEF InversesRight, EntryRight
<1>8. index > 0 => before \in Vector /\ workspace.prefix[index] = Multiply(before, z)
  <2>1. index > 0 => index - 1 \in Index /\ index # 0
    BY <1>2, LastEntry
  <2> QED BY <1>1, <1>6, <2>1 DEF PrefixRight
<1> HIDE DEF z, before
<1>9. v \in Vector /\ \A l \in CombLanes : (v[l] * z[l]) % P = 1
  <2>1. CASE index > 0
    <3>1. v = Multiply(inverseProduct, before) /\ v \in Vector
      BY <1>7, <1>8, <2>1, MultiplyIs DEF v
    <3>2. ASSUME NEW l \in CombLanes PROVE (v[l] * z[l]) % P = 1
      <4>1. v[l] = (inverseProduct[l] * before[l]) % P
        BY <1>7, <1>8, <2>1, <3>1, MultiplyIs
      <4>2. workspace.prefix[index][l] = (before[l] * z[l]) % P
        BY <1>7, <1>8, <2>1, MultiplyIs
      <4>3. inverseProduct[l] \in Nat /\ before[l] \in Nat /\ z[l] \in Nat /\ P \in Nat \ {0}
        BY <1>7, <1>8, <2>1 DEF Vector, CombBuildAssumption
      <4>4. (inverseProduct[l] * ((before[l] * z[l]) % P)) % P = 1
        BY <1>7, <4>2
      <4>5. (((inverseProduct[l] * before[l]) % P) * z[l]) % P = 1
        BY <4>3, <4>4, MoveFactor
      <4> QED BY <4>1, <4>5
    <3> QED BY <3>1, <3>2
  <2>2. CASE index = 0
    <3>1. v = inverseProduct
      BY <2>2 DEF v
    <3>2. workspace.prefix[index] = z
      BY <1>1, <1>6, <2>2 DEF PrefixRight, z
    <3> QED BY <1>7, <3>1, <3>2
  <2> QED BY <1>2, <2>1, <2>2
<1>10. ASSUME NEW i \in Index, i = index PROVE InverseRight(i)'
  BY <1>4, <1>9, <1>10 DEF InverseRight, z
<1>11. \A i \in index .. (TableSize - 1) : InverseRight(i)'
  <2>1. SUFFICES ASSUME NEW i \in index .. (TableSize - 1), i # index PROVE InverseRight(i)'
    BY <1>1, <1>10
  <2>2. i \in (index + 1) .. (TableSize - 1) /\ i \in Index
    BY <1>2, <2>1, LastEntry
  <2>3. InverseRight(i)
    BY <1>7, <2>2
  <2> QED BY <1>4, <2>1, <2>2, <2>3 DEF InverseRight
<1>12. CASE /\ index > 0 /\ inverseProduct' = Multiply(inverseProduct, workspace.projective[index].z)
            /\ index' = index - 1 /\ UNCHANGED stage
  <2>1. index' \in Index /\ index' + 1 = index
    BY <1>2, <1>12, LastEntry
  <2>2. inverseProduct' \in Vector /\ inverseProduct' = Multiply(inverseProduct, z)
    BY <1>7, <1>12, MultiplyIs DEF z
  <2>3. ASSUME NEW l \in CombLanes PROVE (inverseProduct'[l] * workspace'.prefix[index'][l]) % P = 1
    <3>1. inverseProduct'[l] = (inverseProduct[l] * z[l]) % P
      BY <1>7, <2>2, MultiplyIs
    <3>2. workspace.prefix[index][l] = (before[l] * z[l]) % P
      BY <1>7, <1>8, <1>12, MultiplyIs
    <3>3. inverseProduct[l] \in Nat /\ before[l] \in Nat /\ z[l] \in Nat /\ P \in Nat \ {0}
      BY <1>7, <1>8, <1>12 DEF Vector, CombBuildAssumption
    <3>4. (inverseProduct[l] * ((z[l] * before[l]) % P)) % P = 1
      <4>1. before[l] * z[l] = z[l] * before[l]
        BY <3>3
      <4> QED BY <1>7, <3>2, <4>1
    <3>5. (((inverseProduct[l] * z[l]) % P) * before[l]) % P = 1
      BY <3>3, <3>4, MoveFactor
    <3>6. workspace'.prefix[index'] = before
      BY <1>4, <1>12 DEF before
    <3> QED BY <3>1, <3>5, <3>6
  <2>4. InversesRight'
    BY <1>1, <1>11, <1>12, <2>1, <2>2, <2>3 DEF InversesRight
  <2>5. PrefixesRight'
    BY <1>1, <1>6, <1>12 DEF PrefixesRight
  <2>6. LanesRight'
    BY <1>1, <1>12 DEF LanesRight, BuildStages, Projected
  <2> QED BY <1>1, <1>4, <1>5, <1>12, <2>1, <2>4, <2>5, <2>6 DEF BuildInv, RowsRight, DoublingRight,
            AffineRight, BuildStages, Projected
<1>13. CASE index = 0 /\ stage' = "affine" /\ UNCHANGED <<index, inverseProduct>>
  <2>1. \A i \in Index : i \in index .. (TableSize - 1)
    BY <1>2, <1>13, LastEntry
  <2>2. InversesRight'
    BY <1>11, <1>13, <2>1 DEF InversesRight
  <2>3. LanesRight' /\ PrefixesRight'
    BY <1>1, <1>13 DEF LanesRight, PrefixesRight, BuildStages, Projected
  <2>4. AffineRight'
    BY <1>13 DEF AffineRight
  <2> QED BY <1>1, <1>4, <1>5, <1>13, <2>2, <2>3, <2>4 DEF BuildInv, RowsRight, DoublingRight, BuildStages, Projected
<1> QED BY <1>12, <1>13 DEF InvertEntry

\* The affine coordinates of one entry.
LEMMA ConvertStep ==
  ASSUME CombBuildAssumption, BuildInv, ConvertEntry
  PROVE  BuildInv'
<1> DEFINE entry == workspace.projective[index]
           scale == Multiply(entry.z, workspace.inverseZ[index])
           v == [point |-> entry.point, scale |-> scale]
<1>1. /\ stage = "affine" /\ index \in Index /\ WorkspaceShape(workspace) /\ LanesRight
      /\ EntriesRight /\ InversesRight /\ AffineRight
      /\ TablesExact' /\ groupKeys' = groupKeys /\ factors' = factors
      /\ workspace' = [workspace EXCEPT !.staged[index] = v]
  <2>1. UNCHANGED <<published, map>> /\ TablesExact
    BY DEF ConvertEntry, callerVars, BuildInv
  <2>2. TablesExact'
    BY <2>1, TablesKept
  <2> QED BY <2>2 DEF ConvertEntry, BuildInv
<1>2. index \in Nat /\ index < TableSize /\ TableSize \in Nat
  BY <1>1, LastEntry
<1>3. EntryRight(index) /\ InverseRight(index)
  BY <1>1 DEF EntriesRight, InversesRight, Projected
<1>4. scale = [l \in CombLanes |-> 1]
  <2> DEFINE x == entry.z  y == workspace.inverseZ[index]
  <2>1. x \in Vector /\ y \in Vector /\ \A l \in CombLanes : (y[l] * x[l]) % P = 1
    BY <1>3 DEF EntryRight, InverseRight
  <2> HIDE DEF x, y
  <2>2. \A l \in CombLanes : (x[l] * y[l]) % P = 1
    <3>1. SUFFICES ASSUME NEW l \in CombLanes PROVE (x[l] * y[l]) % P = 1
      OBVIOUS
    <3>2. x[l] \in Nat /\ y[l] \in Nat
      BY <2>1 DEF Vector, CombBuildAssumption
    <3>3. x[l] * y[l] = y[l] * x[l]
      BY <3>2
    <3> QED BY <2>1, <3>3
  <2>3. Multiply(x, y) = [l \in CombLanes |-> 1]
    BY <2>2 DEF Multiply
  <2> QED BY <2>3 DEF x, y
<1>5. v.point = workspace.projective[index].point /\ v.scale = [l \in CombLanes |-> 1]
  BY <1>4
<1> HIDE DEF v
<1>6. /\ workspace'.projective = workspace.projective /\ workspace'.inverseZ = workspace.inverseZ
      /\ WorkspaceShape(workspace)'
      /\ workspace'.staged[index] = v
      /\ \A i \in Index : i # index => workspace'.staged[i] = workspace.staged[i]
  BY <1>1 DEF WorkspaceShape
<1>7. EntriesRight' /\ \A i \in Index : InverseRight(i)'
  <2>1. \A i \in Index : EntryRight(i) /\ InverseRight(i)
    BY <1>1 DEF EntriesRight, InversesRight, Projected
  <2>2. \A i \in Index : EntryRight(i)'
    BY <1>1, <1>6, <2>1, EntriesKept
  <2>3. \A i \in Index : InverseRight(i)'
    BY <1>6, <2>1 DEF InverseRight
  <2> QED BY <2>2, <2>3 DEF EntriesRight
<1>8. ASSUME NEW i \in Index, i = index PROVE StagedRight(i)'
  <2>1. /\ workspace'.staged[i].point = workspace.projective[i].point
        /\ workspace'.staged[i].scale = [l \in CombLanes |-> 1]
    BY <1>5, <1>6, <1>8
  <2>2. IsPoint(workspace.projective[i].point, Multiples(i))
    BY <1>3, <1>8 DEF EntryRight
  <2> QED BY <1>1, <2>1, <2>2 DEF StagedRight, IsPoint, Multiples
<1>9. \A i \in 0 .. index : StagedRight(i)'
  <2>1. SUFFICES ASSUME NEW i \in 0 .. index, i # index PROVE StagedRight(i)'
    BY <1>1, <1>8
  <2>2. i \in 0 .. (index - 1) /\ i \in Index
    BY <1>2, <2>1, LastEntry
  <2>3. StagedRight(i) /\ workspace'.staged[i] = workspace.staged[i]
    BY <1>1, <1>6, <2>1, <2>2 DEF AffineRight
  <2> QED BY <1>1, <2>3 DEF StagedRight, IsPoint, Multiples
<1>10. CASE index + 1 < TableSize /\ index' = index + 1 /\ UNCHANGED stage
  <2>1. index' \in Index
    BY <1>2, <1>10, LastEntry
  <2>2. AffineRight'
    BY <1>1, <1>2, <1>9, <1>10 DEF AffineRight
  <2>3. LanesRight' /\ InversesRight'
    BY <1>1, <1>7, <1>10 DEF LanesRight, InversesRight, BuildStages, Projected
  <2> QED BY <1>1, <1>6, <1>7, <1>10, <2>1, <2>2, <2>3 DEF BuildInv, RowsRight, DoublingRight, PrefixesRight,
            BuildStages, Projected
<1>11. CASE index + 1 = TableSize /\ index' = 0 /\ stage' = "commit"
  <2>1. index' \in Index /\ \A i \in Index : i \in 0 .. index
    BY <1>2, <1>11, LastEntry
  <2>2. AffineRight'
    BY <1>9, <1>11, <2>1 DEF AffineRight
  <2>3. LanesRight' /\ InversesRight'
    BY <1>1, <1>7, <1>11 DEF LanesRight, InversesRight, BuildStages, Projected
  <2> QED BY <1>1, <1>6, <1>7, <1>11, <2>1, <2>2, <2>3 DEF BuildInv, RowsRight, DoublingRight, PrefixesRight,
            BuildStages, Projected
<1> QED BY <1>10, <1>11 DEF ConvertEntry

\* A group build starts in the workspace at hand or in a new one.
LEMMA StartBuildStep ==
  ASSUME CombBuildAssumption, BuildInv, BuildWarmCombKeysA6R9X4
  PROVE  BuildInv'
<1>1. PICK input \in Builds, w \in {workspace, FreshWorkspace} : Buildable(input) /\ StartBuild(input, w)
  BY DEF BuildWarmCombKeysA6R9X4
<1>2. input = [l \in CombLanes |-> input[l]]
  BY CombKeysAssumption
<1>3. WorkspaceShape(w)
  BY FreshShape DEF BuildInv
<1>4. TablesExact'
  <2>1. TablesExact /\ UNCHANGED <<published, map>>
    BY DEF BuildInv, BuildWarmCombKeysA6R9X4
  <2> QED BY <2>1, TablesKept
<1> QED BY <1>1, <1>2, <1>3, <1>4, StartStep

\* A verifier starts on its next group, or skips it.
LEMMA PrepareStep ==
  ASSUME CombBuildAssumption, BuildInv, PrepareGroup
  PROVE  BuildInv'
<1>1. TablesExact'
  <2>1. TablesExact /\ UNCHANGED <<published, map>>
    BY DEF BuildInv, PrepareGroup, callerVars
  <2> QED BY <2>1, TablesKept
<1>2. CASE StartBuild(KeyGroup(next), workspace)
  <2>1. Buildable(KeyGroup(next)) /\ WorkspaceShape(workspace)
    BY DEF PrepareGroup, BuildInv
  <2>2. KeyGroup(next) = [l \in CombLanes |-> KeyGroup(next)[l]]
    BY DEF KeyGroup
  <2> QED BY <1>1, <1>2, <2>1, <2>2, StartStep
<1>3. CASE UNCHANGED <<workspace, stage, localVars>>
  <2>1. stage' = "group" /\ index' = index /\ workspace' = workspace
    BY <1>3 DEF PrepareGroup, localVars
  <2>2. index' \in Index /\ WorkspaceShape(workspace)'
    BY <2>1 DEF BuildInv, WorkspaceShape
  <2> QED BY <1>1, <2>1, <2>2, RestStep
<1> QED BY <1>2, <1>3 DEF PrepareGroup

\* Publishing the tables of a group.
LEMMA CommitKeysStep ==
  ASSUME CombBuildAssumption, BuildInv, CommitKeys
  PROVE  BuildInv'
<1>1. \A l \in CombLanes : Exact(StagedTable(l), groupKeys[l])
  BY StagedExact DEF CommitKeys
<1>2. TablesExact'
  <2>1. \A key \in published' : Exact(key.table, key.raw)
    <3>1. SUFFICES ASSUME NEW key \in published', key \notin published PROVE Exact(key.table, key.raw)
      BY DEF BuildInv, TablesExact
    <3>2. PICK l \in CombLanes : key = [raw |-> groupKeys[l], table |-> StagedTable(l)]
      BY <3>1 DEF CommitKeys
    <3> HIDE DEF StagedTable, Exact
    <3>3. key.raw = groupKeys[l] /\ key.table = StagedTable(l)
      BY <3>2
    <3> QED BY <1>1, <3>3
  <2>2. map' = map
    BY DEF CommitKeys
  <2> QED BY <2>1, <2>2 DEF TablesExact, BuildInv, Exact
<1>3. stage' = "idle" /\ index' \in Index
  BY LastEntry DEF CommitKeys, EndBuild, EndJob
<1>4. WorkspaceShape(workspace)'
  BY DEF CommitKeys, BuildInv, WorkspaceShape
<1> QED BY <1>2, <1>3, <1>4, RestStep

\* Keeping the tables of a verifier's group.
LEMMA CommitGroupStep ==
  ASSUME CombBuildAssumption, BuildInv, CommitGroup
  PROVE  BuildInv'
<1>1. \A l \in CombLanes : Exact(StagedTable(l), groupKeys[l])
  BY StagedExact DEF CommitGroup
<1>2. TablesExact'
  <2>1. SUFFICES ASSUME NEW r \in DOMAIN map' PROVE Exact(map'[r], r)
    <3>1. published' = published
      BY DEF CommitGroup
    <3> QED BY <3>1 DEF TablesExact, BuildInv, Exact
  <2>2. /\ r \in DOMAIN map \cup {groupKeys[l] : l \in CombLanes}
        /\ map'[r] = IF r \in DOMAIN map THEN map[r] ELSE StagedTable(FirstLane(r))
    BY DEF CommitGroup
  <2>3. CASE r \in DOMAIN map
    BY <2>2, <2>3 DEF BuildInv, TablesExact
  <2>4. CASE r \notin DOMAIN map
    <3>1. FirstLane(r) \in CombLanes /\ groupKeys[FirstLane(r)] = r
      <4> DEFINE S == {l \in CombLanes : groupKeys[l] = r}
      <4>1. S \in SUBSET Nat /\ S # {}
        BY <2>2, <2>4 DEF CombLanes
      <4> HIDE DEF S
      <4>2. \E m \in S : \A k \in S : m <= k
        BY <4>1, LeastNat
      <4>3. Min(S) \in S
        BY <4>2 DEF Min
      <4> QED BY <4>3 DEF FirstLane, S
    <3> HIDE DEF FirstLane, StagedTable, Exact
    <3>2. Exact(StagedTable(FirstLane(r)), groupKeys[FirstLane(r)])
      BY <1>1, <3>1
    <3> QED BY <2>2, <2>4, <3>1, <3>2
  <2> QED BY <2>3, <2>4
<1>3. stage' = "group" /\ index' \in Index
  BY LastEntry DEF CommitGroup, EndBuild
<1>4. WorkspaceShape(workspace)'
  BY DEF CommitGroup, BuildInv, WorkspaceShape
<1> QED BY <1>2, <1>3, <1>4, RestStep

\* The start and the end of a verifier's preparation, and failures anywhere.
LEMMA JobStep ==
  ASSUME CombBuildAssumption, BuildInv, newVerifier \/ VerifierPrepared \/ BuildFails
  PROVE  BuildInv'
<1>1. stage' \in {"idle", "group"} /\ index' \in Index
  BY LastEntry DEF newVerifier, VerifierPrepared, BuildFails, EndBuild, EndJob, localVars, BuildInv
<1>2. WorkspaceShape(workspace)'
  <2>1. workspace' = workspace \/ workspace' = FreshWorkspace
    BY DEF newVerifier, VerifierPrepared, BuildFails
  <2>2. WorkspaceShape(workspace) /\ WorkspaceShape(FreshWorkspace)
    BY FreshShape DEF BuildInv
  <2> QED BY <2>1, <2>2 DEF WorkspaceShape
<1>3. TablesExact'
  <2>1. published' = published /\ (map' = map \/ map' = NoTables)
    BY DEF newVerifier, VerifierPrepared, BuildFails
  <2>2. DOMAIN NoTables = {}
    BY DEF NoTables
  <2> QED BY <2>1, <2>2 DEF BuildInv, TablesExact, Exact
<1> QED BY <1>1, <1>2, <1>3, RestStep

\* Whatever builds failed halfway or succeeded in the workspace before, the tables
\* of all published keys and prepared verifiers are exactly the multiples of their
\* keys (partial_comb_build.go).
THEOREM TablesAlwaysExact == ASSUME CombBuildAssumption PROVE BuildSpec => []TablesExact
<1>1. BuildInit => BuildInv
  <2>1. SUFFICES ASSUME BuildInit PROVE BuildInv
    OBVIOUS
  <2>2. TablesExact
    BY <2>1 DEF BuildInit, TablesExact, NoTables
  <2>3. WorkspaceShape(workspace)
    BY <2>1, FreshShape DEF BuildInit
  <2>4. index \in Index
    BY <2>1, LastEntry DEF BuildInit
  <2>5. stage = "idle"
    BY <2>1 DEF BuildInit
  <2> QED BY <2>2, <2>3, <2>4, <2>5 DEF BuildInv, LanesRight, RowsRight, DoublingRight, EntriesRight, PrefixesRight,
            InversesRight, AffineRight, BuildStages, Projected
<1>2. BuildInv /\ [BuildNext]_buildVars => BuildInv'
  <2>1. SUFFICES ASSUME BuildInv, [BuildNext]_buildVars PROVE BuildInv'
    OBVIOUS
  <2>2. CASE UNCHANGED buildVars
    <3>1. /\ published' = published /\ map' = map /\ workspace' = workspace /\ stage' = stage
          /\ groupKeys' = groupKeys /\ factors' = factors /\ index' = index /\ doubling' = doubling
          /\ multiple' = multiple /\ inverseProduct' = inverseProduct
      BY <2>2 DEF buildVars, callerVars, localVars
    <3>2. /\ TablesExact' /\ stage' \in {"idle", "group"} \cup BuildStages
          /\ index' \in Index /\ WorkspaceShape(workspace)'
      <4>1. TablesExact'
        BY <2>1, <3>1, TablesKept DEF BuildInv
      <4>2. WorkspaceShape(workspace)'
        BY <2>1, <3>1 DEF BuildInv, WorkspaceShape
      <4> QED BY <2>1, <3>1, <4>1, <4>2 DEF BuildInv
    <3>3. /\ \A i : EntryRight(i) => EntryRight(i)'
          /\ \A i : PrefixRight(i) => PrefixRight(i)'
          /\ \A i : InverseRight(i) => InverseRight(i)'
          /\ \A i : StagedRight(i) => StagedRight(i)'
      BY <3>1, EntriesKept, PrefixesKept DEF InverseRight, StagedRight, IsPoint, Multiples
    <3>4. LanesRight' /\ RowsRight' /\ DoublingRight'
      BY <2>1, <3>1, <3>3 DEF BuildInv, LanesRight, RowsRight, DoublingRight, IsPoint, Multiples
    <3>5. EntriesRight' /\ PrefixesRight' /\ InversesRight' /\ AffineRight'
      BY <2>1, <3>1, <3>3 DEF BuildInv, EntriesRight, PrefixesRight, InversesRight, AffineRight
    <3> QED BY <3>2, <3>4, <3>5 DEF BuildInv
  <2> QED BY <2>1, <2>2, StartBuildStep, CommitKeysStep, JobStep, PrepareStep, CommitGroupStep, StoreStep, DoubleStep,
            PrefixStep, InvertStep, ReverseStep, ConvertStep DEF BuildNext
<1>3. BuildInv => TablesExact
  BY DEF BuildInv
<1> QED BY <1>1, <1>2, <1>3, PTL DEF BuildSpec

-----------------------------------------------------------------------------
\* The verifier over the tables.

\* The verdicts the contract asks for, and those a caller can see.
WarmVerdicts(r) == [i \in DOMAIN r |-> WarmAccepts(r[i])]
WarmShown == IF step \in {"returned", "failed"} THEN answer ELSE [i \in {} |-> FALSE]

WarmContract == INSTANCE BatchContract WITH
  Batches <- WarmRequests, Correct <- WarmVerdicts, Failed <- WarmFailed,
  phase <- warmPhase, request <- WarmRequest, verdicts <- WarmShown

\* Where a call may be.
WarmLabels == {"idle", "called", "groups", "verified", "returned", "failed"}

\* A key that may have a table.
Usable(r) == r \in Raws /\ r \notin SmallOrder /\ PointOf[r] # "none"

\* Key objects are of usable keys; a complete verifier has been prepared for some.
KeysRight ==
  /\ \A r \in keys : Usable(r)
  /\ form = "complete" => pubs \in Inputs

\* A call's items come with key objects that hold nothing or the table of their
\* own bytes.
ItemsRight ==
  /\ IsArrayOf(items, Cardinality(DOMAIN items))
  /\ \A i \in DOMAIN items :
       /\ items[i].pub \in Raws /\ items[i].held \in BOOLEAN
       /\ items[i].key = Empty \/ \E r \in Raws : items[i].key = KeyObject(r)

\* What a live lane must hold when its group is evaluated: its own table,
\* signature and challenge.
Own(g, l) ==
  LET item == items[g * CombX4 + l]
  IN [table |-> item.key.table, s |-> item.sig, k |-> [pub |-> item.pub, sig |-> item.sig]]

\* The scratch has the shape it was allocated in.
WorkerShape ==
  /\ worker = [wide |-> worker.wide, points |-> worker.points, active |-> worker.active, encoded |-> worker.encoded]
  /\ worker.points = [g \in 0 .. (MaxGroups - 1) |-> worker.points[g]]
  /\ worker.active = [g \in 0 .. (MaxGroups - 1) |-> worker.active[g]]

\* The groups done hold their own points, whatever lies in the others.
GroupsDone(n) ==
  \A g \in 0 .. (n - 1) :
    worker.active[g] = Live(g) /\ \A l \in Live(g) : worker.points[g][l] = Own(g, l)

\* A call that runs has a width of whole groups.
GroupsRight ==
  step = "groups" =>
    /\ WholeGroups(items)
    /\ group \in Nat /\ group <= ItemCount \div CombX4 /\ GroupsDone(group)

\* A call that has not cleared its slice shows what the slice held, in the
\* backend nothing; cleared, it shows nothing; one that failed shows which of
\* the two it was; one that returned answers for each item as that item deserves.
AnswerRight ==
  /\ step = "idle" => items = NoItems
  /\ step = "called" =>
       /\ group = 0 /\ answer = [i \in DOMAIN items |-> items[i].held]
       /\ form = "backend" => \A i \in DOMAIN items : ~items[i].held
  /\ step = "groups" => answer = NoneAccepted
  /\ step = "failed" => answer = WarmFailed(WarmRequest)
  /\ step = "verified" => verdicts = WarmVerdicts(WarmRequest)
  /\ step = "returned" => answer = WarmVerdicts(WarmRequest)

\* The inductive invariant of a call.
WarmInv == KeysRight /\ step \in WarmLabels /\ ItemsRight /\ WorkerShape /\ GroupsRight /\ AnswerRight

\* A live lane of a group that is done encodes to its own R exactly if its item
\* is accepted on its own.
LEMMA EncodeDecides ==
  ASSUME NEW item, item.pub \in Raws, KeyBound(item), SignatureRules(item.sig),
         NEW r \in Raws, item.key = KeyObject(r),
         NEW at, at = [table |-> item.key.table, s |-> item.sig, k |-> [pub |-> item.pub, sig |-> item.sig]]
  PROVE  (Encode(at) = item.sig) <=> (item.sig.point = PointOf[item.pub] /\ item.sig.raw = item.pub)
<1>1. r = item.pub /\ item.key.table = PointOf[r] /\ item.sig.rule = "ok"
  BY DEF KeyBound, SignatureRules, KeyObject
<1>2. at.table = PointOf[r] /\ at.s = item.sig /\ at.k = [pub |-> item.pub, sig |-> item.sig]
  BY <1>1
<1>3. at # Identity
  <2>1. Identity.s.rule = "zero"
    BY DEF Identity, NoR
  <2> QED BY <1>1, <1>2, <2>1
<1>4. (at.k = [pub |-> at.s.raw, sig |-> at.s]) <=> item.pub = item.sig.raw
  <2>1. item.pub = item.sig.raw => at.k = [pub |-> at.s.raw, sig |-> at.s]
    BY <1>2
  <2>2. at.k = [pub |-> at.s.raw, sig |-> at.s] => at.k.pub = at.s.raw
    OBVIOUS
  <2>3. at.k.pub = item.pub
    BY <1>2
  <2> QED BY <1>2, <2>1, <2>2, <2>3
<1>5. NoR("other") # item.sig
  <2>1. NoR("other").rule = "other"
    BY DEF NoR
  <2> QED BY <1>1, <2>1
<1>6. Encode(at) = IF PointOf[r] = item.sig.point /\ item.pub = item.sig.raw THEN item.sig ELSE NoR("other")
  BY <1>2, <1>3, <1>4 DEF Encode
<1> QED BY <1>1, <1>5, <1>6

\* The verdict that is read from the encodings of all groups is the item's own.
LEMMA AcceptedIsOwn ==
  ASSUME ItemsRight, WorkerShape, NEW n \in Nat, GroupsDone(n), n <= MaxGroups,
         NEW i \in DOMAIN items, i < n * CombX4
  PROVE  Accepted(i, EncodeGroups(n)) = WarmAccepts(WarmRequest[i])
<1> DEFINE g == i \div CombX4  l == i % CombX4
<1>1. i \in Nat /\ CombX4 \in Nat \ {0} /\ MaxGroups \in Nat
  BY CombKeysAssumption DEF ItemsRight, IsArrayOf
<1>2. i = g * CombX4 + l /\ l \in 0 .. CombX4 - 1 /\ g \in Nat
  BY <1>1, DivMod
<1> HIDE DEF g, l
<1>3. g < n
  <2>1. CASE n <= g
    <3>1. n * CombX4 <= g * CombX4 /\ g * CombX4 \in Nat /\ n * CombX4 \in Nat
      BY <2>1, <1>1, <1>2, MulMono
    <3> QED BY <3>1, <1>2
  <2> QED BY <2>1, <1>2
<1>4. g \in 0 .. (n - 1) /\ g \in 0 .. (MaxGroups - 1) /\ l \in CombLanes
  BY <1>1, <1>2, <1>3 DEF CombLanes
<1>5. worker.active[g] = Live(g) /\ (l \in Live(g) => worker.points[g][l] = Own(g, l))
  BY <1>4 DEF GroupsDone
<1>6. l \in Live(g) <=> KeyBound(items[i]) /\ SignatureRules(items[i].sig)
  BY <1>2, <1>4 DEF Live
<1>7. EncodeGroups(n)[g][l] = IF l \in Live(g) THEN Encode(Own(g, l)) ELSE worker.encoded[g][l]
  BY <1>3, <1>4, <1>5 DEF EncodeGroups
<1>8. Accepted(i, EncodeGroups(n)) <=> l \in Live(g) /\ Encode(Own(g, l)) = items[i].sig
  BY <1>5, <1>7 DEF Accepted, g, l
<1> DEFINE item == items[i]
<1>9. Own(g, l) = [table |-> item.key.table, s |-> item.sig, k |-> [pub |-> item.pub, sig |-> item.sig]]
  BY <1>2 DEF Own
<1>10. WarmRequest[i] = [pub |-> item.pub, key |-> item.key.raw, sig |-> item.sig, held |-> item.held]
  BY DEF WarmRequest, WithKeys
<1>11. item.pub \in Raws /\ (item.key = Empty \/ \E r \in Raws : item.key = KeyObject(r))
  BY DEF ItemsRight
<1> DEFINE w == WarmRequest[i]
<1>12. w.pub = item.pub /\ w.key = item.key.raw /\ w.sig = item.sig
  BY <1>10
<1> HIDE DEF w, item
<1>13. WarmAccepts(w) <=> item.key.raw = item.pub /\ SignatureRules(item.sig)
                          /\ item.sig.point = PointOf[item.pub] /\ item.sig.raw = item.pub
  BY <1>12 DEF WarmAccepts
<1>14. CASE item.key = Empty
  <2>1. item.key.raw = "none" /\ ~KeyBound(item)
    BY <1>14 DEF Empty, KeyBound
  <2>2. item.key.raw # item.pub
    BY <2>1, <1>11, CombKeysAssumption
  <2>3. ~WarmAccepts(w) /\ ~Accepted(i, EncodeGroups(n))
    BY <2>1, <2>2, <1>6, <1>8, <1>13 DEF item
  <2> QED BY <2>3 DEF w, WarmAccepts, Accepted
<1>15. CASE item.key # Empty
  <2>1. PICK r \in Raws : item.key = KeyObject(r)
    BY <1>11, <1>15
  <2>2. KeyBound(item) <=> item.key.raw = item.pub
    BY <1>15 DEF KeyBound
  <2>3. KeyBound(item) /\ SignatureRules(item.sig) =>
          (Encode(Own(g, l)) = item.sig <=> item.sig.point = PointOf[item.pub] /\ item.sig.raw = item.pub)
    BY <2>1, <1>9, <1>11, EncodeDecides
  <2>4. Accepted(i, EncodeGroups(n)) <=> WarmAccepts(w)
    BY <2>2, <2>3, <1>6, <1>8, <1>13 DEF item
  <2>5. Accepted(i, EncodeGroups(n)) \in BOOLEAN /\ WarmAccepts(w) \in BOOLEAN
    BY DEF Accepted, WarmAccepts
  <2> QED BY <2>4, <2>5 DEF w
<1> QED BY <1>14, <1>15

\* What a caller can see, and what the call keeps, stays with its variables.
LEMMA SameCall ==
  ASSUME WarmInv, KeysRight', UNCHANGED <<worker, step, items, group, verdicts, answer>>,
         step = "called" => UNCHANGED form
  PROVE  WarmInv' /\ UNCHANGED WarmContract!contractVars
<1>1. ItemsRight' /\ WorkerShape' /\ (step \in WarmLabels)'
  BY DEF WarmInv, ItemsRight, WorkerShape, WarmLabels, IsArrayOf, KeyObject
<1>2. GroupsRight'
  BY DEF WarmInv, GroupsRight, GroupsDone, Live, Own, ItemCount, KeyBound, SignatureRules, WholeGroups
<1>3. AnswerRight'
  BY DEF WarmInv, AnswerRight, NoneAccepted, WarmVerdicts, WarmFailed, WholeGroups, WarmRequest, WithKeys,
     WarmAccepts, SignatureRules
<1>4. UNCHANGED WarmContract!contractVars
  BY DEF WarmContract!contractVars, warmPhase, WarmRequest, WithKeys, WarmShown
<1> QED BY <1>1, <1>2, <1>3, <1>4 DEF WarmInv

\* The width of a call in groups fits the scratch.
LEMMA GroupsFit ==
  ASSUME ItemsRight, WholeGroups(items)
  PROVE  /\ ItemCount \in Nat /\ ItemCount \div CombX4 \in Nat /\ ItemCount \div CombX4 <= MaxGroups
         /\ ItemCount = (ItemCount \div CombX4) * CombX4
<1> DEFINE w == ItemCount \div CombX4  n == ItemCount
<1>1. n \in Nat /\ CombX4 \in Nat \ {0} /\ MaxGroups \in Nat
  BY CombKeysAssumption DEF ItemsRight, IsArrayOf, ItemCount
<1>0. n % CombX4 = 0 /\ n <= MaxGroups * CombX4
  BY DEF WholeGroups, ItemCount
<1>2. n = w * CombX4 + (n % CombX4) /\ w \in Nat
  <2> HIDE DEF n
  <2>1. n = (n \div CombX4) * CombX4 + (n % CombX4) /\ n \div CombX4 \in Nat
    BY <1>1, DivMod
  <2> QED BY <2>1 DEF n
<1> HIDE DEF w
<1>3. w * CombX4 \in Nat
  BY <1>1, <1>2
<1>4. n = w * CombX4
  BY <1>0, <1>1, <1>2, <1>3
<1>5. w <= MaxGroups
  <2>1. CASE MaxGroups < w
    <3>1. MaxGroups + 1 <= w /\ MaxGroups + 1 \in Nat
      BY <2>1, <1>1, <1>2
    <3>2. (MaxGroups + 1) * CombX4 <= w * CombX4
      BY <3>1, <1>1, <1>2, MulMono
    <3>3. (MaxGroups + 1) * CombX4 = MaxGroups * CombX4 + CombX4 /\ MaxGroups * CombX4 \in Nat
      BY <1>1
    <3> QED BY <3>2, <3>3, <1>0, <1>1, <1>3, <1>4
  <2> QED BY <2>1, <1>1, <1>2
<1> QED BY <1>1, <1>2, <1>4, <1>5 DEF w

\* Nothing is called at first.
LEMMA WarmInitInv == WarmInit => WarmInv /\ WarmContract!Init
<1> SUFFICES ASSUME WarmInit PROVE WarmInv /\ WarmContract!Init
  OBVIOUS
<1>1. KeysRight
  BY DEF WarmInit, KeysRight
<1>2. step = "idle" /\ items = [i \in {} |-> FALSE] /\ worker = FreshWorker
  BY DEF WarmInit, NoItems
<1>3. ItemsRight
  <2>1. DOMAIN items = {}
    BY <1>2
  <2>2. Cardinality({}) = 0
    BY FS_EmptySet
  <2> QED BY <2>1, <2>2 DEF ItemsRight, IsArrayOf
<1>4. WorkerShape
  BY <1>2 DEF WorkerShape, FreshWorker
<1>5. AnswerRight /\ GroupsRight /\ step \in WarmLabels
  BY <1>2 DEF AnswerRight, GroupsRight, WarmLabels, NoItems
<1>6. WarmContract!Init
  <2>1. WarmRequest = [i \in {} |-> FALSE]
    <3>1. DOMAIN items = {}
      BY <1>2
    <3> QED BY <3>1 DEF WarmRequest, WithKeys
  <2> QED BY <2>1, <1>2 DEF WarmContract!Init, WarmContract!NoVerdicts, warmPhase, WarmShown
<1> QED BY <1>1, <1>3, <1>4, <1>5, <1>6 DEF WarmInv

\* The key object a call gets holds nothing or the table of its own bytes.
LEMMA KeyAtRight ==
  ASSUME KeysRight, NEW b \in CombBatches, form = "complete" => DOMAIN b = DOMAIN pubs, NEW i \in DOMAIN b
  PROVE  KeyAtHand(b, i) = Empty \/ \E r \in Raws : KeyAtHand(b, i) = KeyObject(r)
<1>1. CASE form = "complete"
  <2>1. pubs[i] \in Raws
    BY <1>1, CombKeysAssumption DEF KeysRight
  <2> QED BY <1>1, <2>1 DEF KeyAtHand
<1>2. CASE form # "complete"
  BY <1>2 DEF KeyAtHand, KeysRight, Usable
<1> QED BY <1>1, <1>2

\* The call is one of those the contract knows.
LEMMA RequestKnown ==
  ASSUME KeysRight, NEW b \in CombBatches, form = "complete" => DOMAIN b = DOMAIN pubs
  PROVE  WithKeys(b, [i \in DOMAIN b |-> KeyAtHand(b, i).raw]) \in WarmRequests
<1>1. CASE form = "complete"
  <2>1. pubs \in Inputs /\ DOMAIN b = DOMAIN pubs
    BY <1>1 DEF KeysRight
  <2>2. \A i \in DOMAIN b : KeyAtHand(b, i).raw = pubs[i]
    BY <1>1 DEF KeyAtHand, KeyObject
  <2>3. WithKeys(b, [i \in DOMAIN b |-> KeyAtHand(b, i).raw]) = WithKeys(b, pubs)
    BY <2>2 DEF WithKeys
  <2> DEFINE call == <<b, pubs>>
  <2>4. call \in {c \in CombBatches \X Inputs : DOMAIN c[1] = DOMAIN c[2]}
    BY <2>1
  <2>5. WithKeys(b, pubs) = WithKeys(call[1], call[2])
    OBVIOUS
  <2> HIDE DEF call
  <2> QED BY SMTT(30), <2>3, <2>4, <2>5 DEF WarmRequests
<1>2. CASE form # "complete"
  <2> DEFINE K(i) == IF b[i].key \in keys THEN b[i].key ELSE "none"
  <2>1. keys \in SUBSET {r \in Raws : Buildable(<<r>>)}
    <3>1. ASSUME NEW r \in keys PROVE r \in Raws /\ Buildable(<<r>>)
      <4>1. Usable(r)
        BY DEF KeysRight
      <4> QED BY <4>1 DEF Buildable, Usable
    <3> QED BY <3>1
  <2>2. ASSUME NEW i \in DOMAIN b PROVE KeyAtHand(b, i).raw = K(i)
    BY <1>2 DEF KeyAtHand, KeyObject, Empty
  <2>3. WithKeys(b, [i \in DOMAIN b |-> KeyAtHand(b, i).raw]) = WithKeys(b, [i \in DOMAIN b |-> K(i)])
    BY <2>2 DEF WithKeys
  <2>4. WithKeys(b, [i \in DOMAIN b |-> K(i)]) \in WarmRequests
    <3> DEFINE W(c, s) == WithKeys(c, [i \in DOMAIN c |-> IF c[i].key \in s THEN c[i].key ELSE "none"])
               Sets == SUBSET {r \in Raws : Buildable(<<r>>)}
    <3>1. {W(c, s) : c \in CombBatches, s \in Sets} \subseteq WarmRequests
      BY DEF WarmRequests
    <3>2. WithKeys(b, [i \in DOMAIN b |-> K(i)]) = W(b, keys)
      OBVIOUS
    <3> HIDE DEF W, Sets
    <3>3. keys \in Sets
      BY <2>1 DEF Sets
    <3> QED BY <3>1, <3>2, <3>3
  <2> QED BY <2>3, <2>4
<1> QED BY <1>1, <1>2

\* A call arrives with the slice of its caller as that left it.
LEMMA WarmCallStep ==
  ASSUME WarmInv, CallVerify
  PROVE  WarmInv' /\ WarmContract!Call
<1>1. PICK b \in CombBatches :
        /\ form = "complete" => DOMAIN b = DOMAIN pubs
        /\ form = "backend" => \A i \in DOMAIN b : ~b[i].held
        /\ items' = Given(b) /\ answer' = [i \in DOMAIN b |-> b[i].held]
  BY DEF CallVerify
<1>2. step = "idle" /\ step' = "called" /\ group' = 0 /\ UNCHANGED <<keys, form, pubs, worker>>
  BY DEF CallVerify
<1>3. /\ DOMAIN items' = DOMAIN b
      /\ \A i \in DOMAIN b : /\ items'[i].pub = b[i].pub /\ items'[i].held = b[i].held
                             /\ items'[i].key = KeyAtHand(b, i)
  BY <1>1 DEF Given
<1>4. ItemsRight'
  <2>1. IsArrayOf(items', Cardinality(DOMAIN items'))
    BY <1>3, WarmCombAssumption DEF IsArrayOf
  <2>2. ASSUME NEW i \in DOMAIN items'
        PROVE  /\ items'[i].pub \in Raws /\ items'[i].held \in BOOLEAN
               /\ items'[i].key = Empty \/ \E r \in Raws : items'[i].key = KeyObject(r)
    <3>1. items'[i].pub \in Raws /\ items'[i].held \in BOOLEAN
      BY <1>3, WarmCombAssumption
    <3>2. KeyAtHand(b, i) = Empty \/ \E r \in Raws : KeyAtHand(b, i) = KeyObject(r)
      BY <1>1, <1>3, KeyAtRight DEF WarmInv
    <3> QED BY <1>3, <3>1, <3>2
  <2> QED BY <2>1, <2>2 DEF ItemsRight, KeyObject
<1>5. KeysRight' /\ WorkerShape' /\ GroupsRight'
  BY <1>2 DEF WarmInv, KeysRight, Usable, WorkerShape, GroupsRight
<1>6. AnswerRight'
  <2>1. answer' = [i \in DOMAIN items' |-> items'[i].held]
    BY <1>1, <1>3
  <2>2. form' = "backend" => \A i \in DOMAIN items' : ~items'[i].held
    BY <1>1, <1>2, <1>3
  <2> QED BY <1>2, <2>1, <2>2 DEF AnswerRight
<1>7. WarmRequest' = WithKeys(b, [i \in DOMAIN b |-> KeyAtHand(b, i).raw])
  <2>1. \A i \in DOMAIN b :
          items'[i] = [pub |-> b[i].pub, sig |-> b[i].sig, held |-> b[i].held, key |-> KeyAtHand(b, i)]
    BY <1>1 DEF Given
  <2> QED BY <1>3, <2>1 DEF WarmRequest, WithKeys
<1>8. WarmRequest' \in WarmRequests
  BY <1>1, <1>7, RequestKnown DEF WarmInv
<1>9. WarmContract!Call
  BY <1>2, <1>8 DEF WarmContract!Call, WarmContract!NoVerdicts, warmPhase, WarmShown
<1> QED BY <1>2, <1>4, <1>5, <1>6, <1>9 DEF WarmInv, WarmLabels

\* A step inside the call does not show.
LEMMA WarmHidden ==
  ASSUME step \in {"called", "groups", "verified"}, step' \in {"called", "groups", "verified"}, UNCHANGED items
  PROVE  UNCHANGED WarmContract!contractVars
BY DEF WarmContract!contractVars, warmPhase, WarmRequest, WithKeys, WarmShown

\* An admitted call starts with a cleared slice: the backend's was clear.
LEMMA WarmStartStep ==
  ASSUME WarmInv, VerifyBatch
  PROVE  WarmInv' /\ UNCHANGED WarmContract!contractVars
<1>1. /\ step = "called" /\ step' = "groups" /\ Admitted /\ WholeGroups(items) /\ group = 0
      /\ verdicts' = NoneAccepted
      /\ answer' = IF form = "backend" THEN answer ELSE NoneAccepted
      /\ UNCHANGED <<keys, form, pubs, worker, items, group>>
  BY DEF VerifyBatch, Admitted, WarmInv, AnswerRight
<1>2. answer' = NoneAccepted
  <2>1. CASE form = "backend"
    <3>1. answer = [i \in DOMAIN items |-> items[i].held] /\ \A i \in DOMAIN items : ~items[i].held
      BY <1>1, <2>1 DEF WarmInv, AnswerRight
    <3>2. \A i \in DOMAIN items : items[i].held = FALSE
      BY <3>1 DEF WarmInv, ItemsRight
    <3> QED BY <1>1, <2>1, <3>1, <3>2 DEF NoneAccepted
  <2> QED BY <1>1, <2>1
<1>3. GroupsRight'
  <2>1. ItemCount \div CombX4 \in Nat
    BY <1>1, GroupsFit DEF WarmInv
  <2>2. ItemCount' = ItemCount /\ WholeGroups(items') /\ group' = 0
    BY <1>1 DEF ItemCount, WholeGroups
  <2>3. GroupsDone(group)'
    <3>1. 0 .. (group' - 1) = {}
      BY <2>2
    <3> QED BY <3>1 DEF GroupsDone
  <2>4. (ItemCount \div CombX4)' = ItemCount \div CombX4
    BY <2>2
  <2> DEFINE n == ItemCount \div CombX4
  <2> HIDE DEF n
  <2>5. n \in Nat /\ (ItemCount \div CombX4)' = n
    BY <2>1, <2>4 DEF n
  <2>6. group' <= (ItemCount \div CombX4)' /\ group' \in Nat
    BY <2>2, <2>5
  <2> QED BY <2>2, <2>3, <2>6 DEF GroupsRight
<1>4. KeysRight' /\ ItemsRight' /\ WorkerShape' /\ AnswerRight' /\ step' \in WarmLabels
  BY <1>1, <1>2 DEF WarmInv, KeysRight, Usable, ItemsRight, IsArrayOf, KeyObject, WorkerShape, AnswerRight,
     NoneAccepted, WarmLabels
<1> QED BY <1>1, <1>3, <1>4, WarmHidden DEF WarmInv

\* A call that fails shows what its slice holds then.
LEMMA WarmFail ==
  ASSUME WarmInv, WorkerShape', step \in {"called", "groups"}, step' = "failed",
         answer = WarmFailed(WarmRequest), UNCHANGED <<keys, form, pubs, items, answer>>
  PROVE  WarmInv' /\ WarmContract!Fail
<1>1. WarmRequest' = WarmRequest
  BY DEF WarmRequest, WithKeys
<1>2. answer' = WarmFailed(WarmRequest)'
  <2>1. WarmFailed(WarmRequest)' = WarmFailed(WarmRequest')
    BY DEF WarmFailed, WholeGroups
  <2> QED BY <2>1, <1>1
<1>3. KeysRight' /\ ItemsRight' /\ AnswerRight' /\ GroupsRight'
  BY <1>2 DEF WarmInv, KeysRight, Usable, ItemsRight, IsArrayOf, KeyObject, AnswerRight, GroupsRight
<1>4. WarmContract!Fail
  BY <1>1 DEF WarmContract!Fail, warmPhase, WarmShown
<1> QED BY <1>3, <1>4 DEF WarmInv, WarmLabels

\* After the width check the slice is clear.
LEMMA ClearedSlice ==
  ASSUME WarmInv, step = "groups"
  PROVE  answer = WarmFailed(WarmRequest)
<1>1. answer = NoneAccepted /\ WholeGroups(items)
  BY DEF WarmInv, AnswerRight, GroupsRight
<1>2. DOMAIN WarmRequest = DOMAIN items
  BY DEF WarmRequest, WithKeys
<1>3. WholeGroups(WarmRequest)
  BY <1>1, <1>2 DEF WholeGroups
<1> QED BY <1>1, <1>2, <1>3 DEF WarmFailed, NoneAccepted

\* A group of a worker whose shape is right.
LEMMA WorkerNext ==
  ASSUME WorkerShape, NEW g \in 0 .. (MaxGroups - 1), NEW w, NEW p, NEW a, NEW e,
         worker' = [worker EXCEPT !.wide = w, !.points[g] = p, !.active[g] = a, !.encoded[g] = e]
  PROVE  /\ WorkerShape'
         /\ worker'.points[g] = p /\ worker'.active[g] = a
         /\ \A h \in 0 .. (MaxGroups - 1) :
              h # g => worker'.points[h] = worker.points[h] /\ worker'.active[h] = worker.active[h]
<1>1. worker' = [wide |-> w, points |-> [worker.points EXCEPT ![g] = p],
                 active |-> [worker.active EXCEPT ![g] = a], encoded |-> [worker.encoded EXCEPT ![g] = e]]
  BY DEF WorkerShape
<1> DEFINE Q == [worker.points EXCEPT ![g] = p]
           A == [worker.active EXCEPT ![g] = a]
<1>2. worker'.points = Q /\ worker'.active = A
  BY <1>1
<1>3. /\ Q = [h \in 0 .. (MaxGroups - 1) |-> IF h = g THEN p ELSE worker.points[h]]
      /\ A = [h \in 0 .. (MaxGroups - 1) |-> IF h = g THEN a ELSE worker.active[h]]
  BY DEF WorkerShape
<1> HIDE DEF Q, A
<1>4. worker' = [wide |-> worker'.wide, points |-> worker'.points,
                 active |-> worker'.active, encoded |-> worker'.encoded]
  BY <1>1
<1>5. /\ worker'.points = [h \in 0 .. (MaxGroups - 1) |-> worker'.points[h]]
      /\ worker'.active = [h \in 0 .. (MaxGroups - 1) |-> worker'.active[h]]
  BY <1>2, <1>3
<1> QED BY <1>2, <1>3, <1>4, <1>5 DEF WorkerShape

\* The group at hand has a place in the scratch.
LEMMA GroupWithin ==
  ASSUME WarmInv, step = "groups", group < ItemCount \div CombX4
  PROVE  group \in Nat /\ group \in 0 .. (MaxGroups - 1) /\ ItemCount \div CombX4 \in Nat
<1>1. /\ group \in Nat /\ ItemCount \div CombX4 \in Nat /\ ItemCount \div CombX4 <= MaxGroups
  BY GroupsFit DEF WarmInv, GroupsRight
<1>2. MaxGroups \in Nat
  BY CombKeysAssumption
<1> DEFINE n == ItemCount \div CombX4
<1> HIDE DEF n
<1>3. group < n /\ n \in Nat /\ n <= MaxGroups
  BY <1>1 DEF n
<1> QED BY <1>1, <1>2, <1>3

\* The live lanes of a group are evaluated from their own tables, signatures and
\* challenges, whatever the scratch held before.
LEMMA WarmGroupStep ==
  ASSUME WarmInv, VerifyGroup
  PROVE  WarmInv' /\ UNCHANGED WarmContract!contractVars
<1> DEFINE challenges == Hashed(group)
           none == [l \in CombLanes |-> NoR("zero")]
<1>1. /\ step = "groups" /\ group < ItemCount \div CombX4
      /\ worker' = [worker EXCEPT !.wide = challenges, !.points[group] = Evaluated(group, challenges),
                                  !.active[group] = Live(group), !.encoded[group] = none]
      /\ group' = group + 1 /\ UNCHANGED <<keys, form, pubs, step, items, verdicts, answer>>
  BY DEF VerifyGroup
<1>2. group \in Nat /\ group \in 0 .. (MaxGroups - 1) /\ ItemCount \div CombX4 \in Nat
  BY <1>1, GroupWithin
<1> HIDE DEF none, challenges
<1>3. /\ WorkerShape'
      /\ worker'.points[group] = Evaluated(group, challenges) /\ worker'.active[group] = Live(group)
      /\ \A h \in 0 .. (MaxGroups - 1) :
           h # group => worker'.points[h] = worker.points[h] /\ worker'.active[h] = worker.active[h]
  BY <1>1, <1>2, WorkerNext DEF WarmInv
<1>4. ASSUME NEW l \in Live(group)
      PROVE  Evaluated(group, challenges)[l] = Own(group, l)
  <2>1. l \in CombLanes
    BY DEF Live
  <2>2. challenges[l] = [pub |-> items[group * CombX4 + l].pub, sig |-> items[group * CombX4 + l].sig]
    BY <2>1 DEF challenges, Hashed
  <2> QED BY <2>1, <2>2 DEF Evaluated, Own
<1>5. \A g, l : Own(g, l)' = Own(g, l) /\ Live(g)' = Live(g)
  BY <1>1 DEF Own, Live, KeyBound, SignatureRules
<1>6. GroupsDone(group)
  BY <1>1 DEF WarmInv, GroupsRight
<1>7. GroupsDone(group)'
  <2>1. SUFFICES ASSUME NEW g \in 0 .. (group' - 1)
                 PROVE  /\ worker'.active[g] = Live(g)'
                        /\ \A l \in Live(g)' : worker'.points[g][l] = Own(g, l)'
    BY DEF GroupsDone
  <2>2. CASE g = group
    BY <2>2, <1>3, <1>4, <1>5
  <2>3. CASE g # group
    <3>1. g \in 0 .. (group - 1) /\ g \in 0 .. (MaxGroups - 1)
      BY <2>3, <1>1, <1>2, CombKeysAssumption
    <3>2. worker.active[g] = Live(g) /\ \A l \in Live(g) : worker.points[g][l] = Own(g, l)
      BY <3>1, <1>6 DEF GroupsDone
    <3> QED BY <2>3, <3>1, <3>2, <1>3, <1>5
  <2> QED BY <2>2, <2>3
<1>8. GroupsRight'
  <2>1. ItemCount' = ItemCount
    BY <1>1 DEF ItemCount
  <2>2. WholeGroups(items')
    BY <1>1 DEF WarmInv, GroupsRight, WholeGroups
  <2>3. group' \in Nat /\ group' <= ItemCount \div CombX4
    <3> DEFINE n == ItemCount \div CombX4
    <3> HIDE DEF n
    <3>1. group < n /\ n \in Nat
      BY <1>1, <1>2 DEF n
    <3>2. group' <= n
      BY <3>1, <1>1, <1>2
    <3> QED BY <3>2, <1>1, <1>2 DEF n
  <2> QED BY <2>1, <2>2, <2>3, <1>7 DEF GroupsRight
<1>9. KeysRight' /\ ItemsRight' /\ AnswerRight' /\ step' \in WarmLabels
  BY <1>1 DEF WarmInv, KeysRight, Usable, ItemsRight, IsArrayOf, KeyObject, AnswerRight, NoneAccepted, WarmLabels
<1> QED BY <1>1, <1>3, <1>8, <1>9, WarmHidden DEF WarmInv

\* A failure resets the lanes of its group.
LEMMA GroupFailsStep ==
  ASSUME WarmInv, GroupFails
  PROVE  WarmInv' /\ WarmContract!Fail
<1> DEFINE challenges == Hashed(group)
           none == [l \in CombLanes |-> NoR("zero")]
           identities == [l \in CombLanes |-> Identity]
<1>1. /\ step = "groups" /\ group < ItemCount \div CombX4 /\ step' = "failed"
      /\ worker' = [worker EXCEPT !.wide = challenges, !.points[group] = identities,
                                  !.active[group] = {}, !.encoded[group] = none]
      /\ UNCHANGED <<keys, form, pubs, items, answer>>
  BY DEF GroupFails
<1>2. group \in 0 .. (MaxGroups - 1)
  BY <1>1, GroupWithin
<1> HIDE DEF none, challenges, identities
<1>3. WorkerShape'
  BY <1>1, <1>2, WorkerNext DEF WarmInv
<1> QED BY <1>1, <1>3, ClearedSlice, WarmFail

\* A refused width leaves the slice as it was; a refused segment of the backend
\* leaves it clear.
LEMMA RefuseStep ==
  ASSUME WarmInv, Refuse
  PROVE  WarmInv' /\ WarmContract!Fail
<1>1. /\ step = "called" /\ step' = "failed" /\ (~Admitted \/ form = "backend")
      /\ UNCHANGED <<keys, form, pubs, worker, items, answer>>
      /\ answer = [i \in DOMAIN items |-> items[i].held]
      /\ form = "backend" => \A i \in DOMAIN items : ~items[i].held
  BY DEF Refuse, WarmInv, AnswerRight
<1>2. WorkerShape'
  BY <1>1 DEF WarmInv, WorkerShape
<1>3. /\ DOMAIN WarmRequest = DOMAIN items
      /\ \A i \in DOMAIN items : WarmRequest[i].held = items[i].held
  BY DEF WarmRequest, WithKeys
<1>4. WholeGroups(WarmRequest) <=> WholeGroups(items)
  BY <1>3 DEF WholeGroups
<1>5. \A i \in DOMAIN items : items[i].held = (~WholeGroups(WarmRequest) /\ WarmRequest[i].held)
  BY <1>1, <1>3, <1>4 DEF Admitted, WarmInv, ItemsRight
<1>6. answer = WarmFailed(WarmRequest)
  BY <1>1, <1>3, <1>5 DEF WarmFailed
<1> QED BY <1>1, <1>2, <1>6, WarmFail

\* A failed encoding leaves the slice clear.
LEMMA EncodeFailsStep ==
  ASSUME WarmInv, EncodeFails
  PROVE  WarmInv' /\ WarmContract!Fail
<1>1. step = "groups" /\ step' = "failed" /\ UNCHANGED <<keys, form, pubs, worker, items, answer>>
  BY DEF EncodeFails
<1>2. WorkerShape'
  BY <1>1 DEF WarmInv, WorkerShape
<1> QED BY <1>1, <1>2, ClearedSlice, WarmFail

\* The verdicts of all groups are read at once, each from its own lane.
LEMMA EncodeStep ==
  ASSUME WarmInv, EncodeAndCompare
  PROVE  WarmInv' /\ UNCHANGED WarmContract!contractVars
<1> DEFINE encoded == EncodeGroups(group)
<1>1. /\ step = "groups" /\ group = ItemCount \div CombX4 /\ step' = "verified"
      /\ worker' = [worker EXCEPT !.encoded = encoded]
      /\ verdicts' = [i \in DOMAIN items |-> Accepted(i, encoded)]
      /\ UNCHANGED <<keys, form, pubs, items, group>>
  BY DEF EncodeAndCompare
<1>2. /\ group \in Nat /\ group <= MaxGroups /\ ItemCount = group * CombX4 /\ GroupsDone(group)
  BY <1>1, GroupsFit DEF WarmInv, GroupsRight
<1>3. ASSUME NEW i \in DOMAIN items
      PROVE  Accepted(i, encoded) = WarmAccepts(WarmRequest[i])
  <2> DEFINE bound == group * CombX4
  <2>1. i < bound
    <3>1. DOMAIN items = 0 .. (ItemCount - 1) /\ ItemCount \in Nat /\ ItemCount = bound
      BY <1>2 DEF WarmInv, ItemsRight, IsArrayOf, ItemCount
    <3> HIDE DEF bound
    <3> QED BY <3>1
  <2> QED BY <2>1, <1>2, AcceptedIsOwn DEF WarmInv
<1>4. verdicts' = WarmVerdicts(WarmRequest)
  <2>1. DOMAIN WarmRequest = DOMAIN items
    BY DEF WarmRequest, WithKeys
  <2> HIDE DEF encoded
  <2> QED BY <2>1, <1>1, <1>3 DEF WarmVerdicts
<1>5. WarmRequest' = WarmRequest
  BY <1>1 DEF WarmRequest, WithKeys
<1>6. verdicts' = WarmVerdicts(WarmRequest)'
  <2>1. WarmVerdicts(WarmRequest)' = WarmVerdicts(WarmRequest')
    BY DEF WarmVerdicts, WarmAccepts, SignatureRules
  <2> QED BY <2>1, <1>4, <1>5
<1>7. WorkerShape'
  <2> HIDE DEF encoded
  <2>1. worker' = [wide |-> worker.wide, points |-> worker.points,
                   active |-> worker.active, encoded |-> encoded]
    BY <1>1 DEF WarmInv, WorkerShape
  <2>2. worker'.points = worker.points /\ worker'.active = worker.active
    BY <2>1
  <2>3. worker' = [wide |-> worker'.wide, points |-> worker'.points,
                   active |-> worker'.active, encoded |-> worker'.encoded]
    BY <2>1
  <2> QED BY <2>2, <2>3 DEF WarmInv, WorkerShape
<1>8. KeysRight' /\ ItemsRight' /\ AnswerRight' /\ GroupsRight' /\ step' \in WarmLabels
  BY <1>1, <1>6 DEF WarmInv, KeysRight, Usable, ItemsRight, IsArrayOf, KeyObject, AnswerRight, GroupsRight, WarmLabels
<1> QED BY <1>1, <1>7, <1>8, WarmHidden DEF WarmInv

\* The caller gets all verdicts at once.
LEMMA ReturnVerdictsStep ==
  ASSUME WarmInv, ReturnVerdicts
  PROVE  WarmInv' /\ WarmContract!Return
<1>1. /\ step = "verified" /\ step' = "returned" /\ answer' = verdicts
      /\ UNCHANGED <<keys, form, pubs, worker, items>> /\ verdicts = WarmVerdicts(WarmRequest)
  BY DEF ReturnVerdicts, WarmInv, AnswerRight
<1>2. WarmRequest' = WarmRequest
  BY <1>1 DEF WarmRequest, WithKeys
<1>3. answer' = WarmVerdicts(WarmRequest)'
  <2>1. WarmVerdicts(WarmRequest)' = WarmVerdicts(WarmRequest')
    BY DEF WarmVerdicts, WarmAccepts, SignatureRules
  <2> QED BY <2>1, <1>1, <1>2
<1>4. WarmContract!Return
  BY <1>1, <1>2 DEF WarmContract!Return, warmPhase, WarmShown
<1>5. KeysRight' /\ WorkerShape' /\ ItemsRight' /\ GroupsRight' /\ AnswerRight' /\ step' \in WarmLabels
  BY <1>1, <1>3 DEF WarmInv, KeysRight, Usable, WorkerShape, ItemsRight, IsArrayOf, KeyObject, GroupsRight, AnswerRight,
     WarmLabels
<1> QED BY <1>4, <1>5 DEF WarmInv

\* The worker is used again, or a new one takes its place.
LEMMA NextUseStep ==
  ASSUME WarmInv, NextUse
  PROVE  WarmInv' /\ WarmContract!Consume
<1>1. /\ step \in {"returned", "failed"} /\ step' = "idle" /\ items' = NoItems
      /\ worker' = FreshWorker \/ worker' = worker
      /\ UNCHANGED <<keys, form, pubs>>
  BY DEF NextUse
<1>2. DOMAIN items' = {}
  BY <1>1 DEF NoItems
<1>3. ItemsRight'
  <2>1. Cardinality({}) = 0
    BY FS_EmptySet
  <2> QED BY <2>1, <1>2 DEF ItemsRight, IsArrayOf
<1>4. WorkerShape'
  <2>1. CASE worker' = FreshWorker
    BY <2>1 DEF WorkerShape, FreshWorker
  <2>2. CASE worker' = worker
    BY <2>2 DEF WarmInv, WorkerShape
  <2> QED BY <1>1, <2>1, <2>2
<1>5. WarmRequest' = WarmContract!NoVerdicts
  <2>1. WarmRequest' = [i \in {} |-> FALSE]
    BY <1>2 DEF WarmRequest, WithKeys
  <2> QED BY <2>1 DEF WarmContract!NoVerdicts
<1>6. WarmContract!Consume
  BY <1>1, <1>5 DEF WarmContract!Consume, WarmContract!NoVerdicts, warmPhase, WarmShown
<1>7. KeysRight' /\ GroupsRight' /\ AnswerRight' /\ step' \in WarmLabels
  BY <1>1 DEF WarmInv, KeysRight, Usable, GroupsRight, AnswerRight, WarmLabels
<1> QED BY <1>3, <1>4, <1>6, <1>7 DEF WarmInv

\* New key objects and a new verifier leave a call as it is.
LEMMA NewKeysStep ==
  ASSUME WarmInv, (\E ks \in Builds : buildWarmPrecompGroup(ks)) \/ (\E ks \in Inputs : CompleteVerifier(ks))
  PROVE  WarmInv' /\ UNCHANGED WarmContract!contractVars
<1>1. CASE \E ks \in Builds : buildWarmPrecompGroup(ks)
  <2>1. PICK ks \in Builds : buildWarmPrecompGroup(ks)
    BY <1>1
  <2>2. /\ Buildable(ks) /\ keys' = keys \cup {ks[l] : l \in CombLanes}
        /\ UNCHANGED <<form, pubs, worker, step, items, group, verdicts, answer>>
    BY <2>1 DEF buildWarmPrecompGroup
  <2>3. ks \in [CombLanes -> Raws]
    BY CombKeysAssumption
  <2>4. \A r \in {ks[l] : l \in CombLanes} : Usable(r)
    BY <2>2, <2>3 DEF Buildable, Usable
  <2>5. KeysRight'
    BY <2>2, <2>4 DEF WarmInv, KeysRight, Usable
  <2> QED BY <2>2, <2>5, SameCall
<1>2. CASE \E ks \in Inputs : CompleteVerifier(ks)
  <2>1. PICK ks \in Inputs : CompleteVerifier(ks)
    BY <1>2
  <2>2. /\ step = "idle" /\ pubs' = ks
        /\ UNCHANGED <<keys, worker, step, items, group, verdicts, answer>>
    BY <2>1 DEF CompleteVerifier
  <2>3. KeysRight'
    BY <2>2 DEF WarmInv, KeysRight, Usable
  <2> QED BY <2>2, <2>3, SameCall
<1> QED BY <1>1, <1>2

\* The verifier over per-key tables, in its three forms, answers for each item
\* as that item alone deserves, with the key object of exactly its key bytes, or
\* fails; then it answers FALSE for all, except that a width it refuses leaves
\* the slice of its caller as it was.  No neighbour, no earlier group or call
\* and no scratch left by a failure shows, and no key object made beside it.
THEOREM WarmImplementsContract == WarmSpec => WarmContract!Spec
<1>1. WarmInit => WarmInv /\ WarmContract!Init
  BY WarmInitInv
<1>2. WarmInv /\ [WarmNext]_warmVars => WarmInv' /\ [WarmContract!Next]_(WarmContract!contractVars)
  <2> SUFFICES ASSUME WarmInv, [WarmNext]_warmVars
               PROVE  WarmInv' /\ [WarmContract!Next]_(WarmContract!contractVars)
    OBVIOUS
  <2>1. CASE UNCHANGED warmVars
    <3>1. UNCHANGED <<keys, form, pubs, worker, step, items, group, verdicts, answer>>
      BY <2>1 DEF warmVars
    <3>2. KeysRight'
      BY <3>1 DEF WarmInv, KeysRight, Usable
    <3> QED BY <3>1, <3>2, SameCall
  <2>2. CASE (\E ks \in Builds : buildWarmPrecompGroup(ks)) \/ (\E ks \in Inputs : CompleteVerifier(ks))
    BY <2>2, NewKeysStep
  <2>3. CASE CallVerify \/ ReturnVerdicts \/ NextUse
    BY <2>3, WarmCallStep, ReturnVerdictsStep, NextUseStep DEF WarmContract!Next
  <2>4. CASE Refuse \/ GroupFails \/ EncodeFails
    BY <2>4, RefuseStep, GroupFailsStep, EncodeFailsStep DEF WarmContract!Next
  <2>5. CASE VerifyBatch \/ VerifyGroup \/ EncodeAndCompare
    BY <2>5, WarmStartStep, WarmGroupStep, EncodeStep
  <2> QED
    BY <2>1, <2>2, <2>3, <2>4, <2>5 DEF WarmNext
<1> QED
  BY <1>1, <1>2, PTL DEF WarmSpec, WarmContract!Spec
=============================================================================
