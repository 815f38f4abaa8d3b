----------------------------- MODULE RequestProofs ---------------------------
(***************************************************************************)
(* Theorems about the parts a request goes through: the entry points, for  *)
(* any inputs, batch lengths, lane width and number of profile changes;    *)
(* the preparation of groups of any length, one after another through one  *)
(* Batch; the multi-buffer hash, for any messages cut into any segments,   *)
(* any block length and number of lanes; and the byte rules, for strings   *)
(* of any length.  The constants are assumed to satisfy EntryAssumption,   *)
(* SigPrepAssumption, MultiHashAssumption and EncodingAssumption.          *)
(***************************************************************************)
EXTENDS Entry, SigPrep, Encoding, MultiHash, DataInduction

-----------------------------------------------------------------------------
\* The entry points.

\* Where a call may be, and how it came in.
Labels == {"idle", "profile", "verify", "fallback", "done"}
Entries == SingleEntries \cup BatchEntries
Running == {"profile", "verify", "fallback"}
Deciding == {"verify", "fallback", "done"}

\* The state of the package and of the call.
TypeOK ==
  /\ backend \in Backends /\ pair \in BOOLEAN
  /\ defaultProfile \in Profiles /\ seen \subseteq Profiles
  /\ pc \in Labels /\ entry \in Entries /\ profile \in Profiles
  /\ items \in Seq(Input) /\ index \in Nat /\ ok \in Seq(BOOLEAN)

\* The profiles a call may answer for.
Allowed == IF entry \in StrictEntries THEN {"DalekStrict"} ELSE seen

\* A running call has seen the present default, and from its read on it works
\* with one profile it may answer for.
ProfileKept ==
  /\ pc \in Running => defaultProfile \in seen
  /\ pc \in Deciding => profile \in Allowed

\* The verdicts so far are those of the call's profile; a fault and a new call
\* start with none.
VerdictsSoFar ==
  /\ Len(ok) = index /\ index <= Len(items)
  /\ pc \in {"idle", "profile"} => index = 0
  /\ pc = "done" => index = Len(items)
  /\ pc \in Deciding => \A i \in 1 .. index : ok[i] <=> Accepts(profile, items[i])

\* The inductive invariant.
EntryInv == TypeOK /\ ProfileKept /\ VerdictsSoFar

-----------------------------------------------------------------------------
\* Every path decides the same.

\* The byte rules and the comparison of any pipeline that applies both.
LEMMA RulesAgree ==
  ASSUME NEW p \in Profiles, NEW x \in Input
  PROVE  /\ ~rejectedByProfile(p, x) /\ genericVerify(p, x) <=> Accepts(p, x)
         /\ pipelineVerify(p, x) <=> Accepts(p, x)
         /\ ~rejectedByProfile(p, x) /\ verifyR43Pipeline(p, x) <=> Accepts(p, x)
BY DEF Profiles, Input, rejectedByProfile, rejectedByStrict, genericVerify, pipelineVerify,
     verifyR43Pipeline, Admitted, rules, Decodes, ReEncodes, Accepts

\* crypto/ed25519 behind the strict pre-pass accepts what the strict profile
\* promises.
LEMMA StdlibAgrees ==
  ASSUME NEW p \in Profiles, NEW x \in Input
  PROVE  ~rejectedByProfile(p, x) /\ stdlibVerify(x) <=> Accepts(p, x)
BY DEF Profiles, Input, rejectedByProfile, rejectedByStrict, stdlibVerify, Decodes, ReEncodes, Accepts

\* The packed verifier is strict; the other profile goes to the generic one.
LEMMA PackedAgrees ==
  ASSUME NEW p \in Profiles, NEW x \in Input
  PROVE  /\ p = "DalekStrict" => (packedVerify(x) <=> Accepts(p, x))
         /\ r51VerifyOne(p, x) <=> Accepts(p, x)
<1>1. packedVerify(x) <=> Accepts("DalekStrict", x)
  BY DEF Input, packedVerify, packedStrictBytePrechecksX4, Decodes, Accepts
<1>2. genericOne(p, x) <=> Accepts(p, x)
  BY RulesAgree DEF genericOne
<1>3. Accepts(p, x) => x.pub # "nil"
  BY DEF Accepts
<1> QED
  BY <1>1, <1>2, <1>3 DEF Profiles, r51VerifyOne

\* A raw batch of the r51 backend decides every item by its profile, whichever
\* of the three paths its position gives it.
LEMMA RawBatchAgrees ==
  ASSUME NEW p \in Profiles, NEW x \in Input, NEW i, NEW n
  PROVE  r51RawVerify(p, x, i, n) <=> Accepts(p, x)
BY RulesAgree, PackedAgrees DEF r51RawVerify, Profiles

\* Whichever backend is active and whichever entry point was called, an item is
\* accepted exactly as the profile promises; a key that Precompute refuses is
\* one that no profile accepts.
LEMMA PathsAgree ==
  ASSUME TypeOK, NEW p \in Profiles, NEW x \in Input, NEW i
  PROVE  /\ ~NoKey(x) /\ Direct(p, x, i) <=> Accepts(p, x)
         /\ ~NoKey(x) /\ genericOne(p, x) <=> Accepts(p, x)
<1>1. Accepts(p, x) => ~NoKey(x)
  BY DEF Accepts, NoKey
<1>2. genericOne(p, x) <=> Accepts(p, x)
  BY RulesAgree DEF genericOne
<1>3. r51VerifyOne(p, x) => ~(x.pub = "nil")
  BY DEF r51VerifyOne
<1>4. Accepts(p, x) => ~rejectedByProfile(p, x)
  BY DEF Accepts, rejectedByProfile, rejectedByStrict
<1>5. Shared(p, x) <=> Accepts(p, x)
  BY <1>4, RulesAgree, StdlibAgrees, PackedAgrees DEF Shared, TypeOK, Backends
<1>6. Direct(p, x, i) <=> Accepts(p, x)
  BY <1>5, PackedAgrees, RawBatchAgrees DEF Direct
<1> QED
  BY <1>1, <1>2, <1>6

-----------------------------------------------------------------------------
\* Steps.

\* The invariant holds before the first call.
LEMMA EntryInit == Init => EntryInv
BY DEF Init, EntryInv, TypeOK, ProfileKept, VerdictsSoFar, Backends, Profiles, Labels, Entries,
   SingleEntries, BatchEntries, Running, Deciding

\* A call starts with the default it finds and no verdict.
LEMMA CallStep ==
  ASSUME EntryInv, Call
  PROVE  EntryInv'
<1>1. items' \in Seq(Input) /\ entry' \in Entries
  <2>1. ASSUME NEW x \in Singles
        PROVE  <<x>> \in Seq(Input)
    BY EntryAssumption
  <2> QED
    BY <2>1, EntryAssumption DEF Call, Entries
<1>2. /\ pc' = "profile" /\ index' = 0 /\ ok' = <<>> /\ seen' = {defaultProfile}
      /\ UNCHANGED <<backend, pair, defaultProfile, profile>>
  BY DEF Call
<1>3. TypeOK'
  BY <1>1, <1>2 DEF EntryInv, TypeOK, Labels
<1> QED
  BY <1>1, <1>2, <1>3 DEF EntryInv, ProfileKept, VerdictsSoFar, Running, Deciding

\* The profile is read once: the present default, or the strict one.
LEMMA ReadStep ==
  ASSUME EntryInv, ReadProfile
  PROVE  EntryInv'
<1>1. TypeOK'
  BY DEF EntryInv, TypeOK, ReadProfile, ProfileArgument, Labels, Profiles
<1>2. ProfileKept'
  BY DEF EntryInv, ProfileKept, ReadProfile, ProfileArgument, Allowed, Running, Deciding
<1>3. VerdictsSoFar'
  BY DEF EntryInv, TypeOK, VerdictsSoFar, ReadProfile, Deciding
<1> QED
  BY <1>1, <1>2, <1>3 DEF EntryInv

\* An item gets the verdict of the call's profile on every path.
LEMMA VerifyStep ==
  ASSUME EntryInv, VerifyItem
  PROVE  EntryInv'
<1> DEFINE x == items[index + 1]
           verdict == ~NoKey(x) /\ IF pc = "fallback" THEN genericOne(profile, x)
                                   ELSE Direct(profile, x, index + 1)
<1>1. /\ pc \in {"verify", "fallback"} /\ index < Len(items) /\ index' = index + 1
      /\ ok' = Append(ok, verdict)
      /\ UNCHANGED <<backend, pair, defaultProfile, pc, entry, items, profile, seen>>
  BY DEF VerifyItem, ItemProfile
<1>2. TypeOK /\ x \in Input
  BY <1>1 DEF EntryInv, TypeOK
<1>3. verdict <=> Accepts(profile, x)
  BY <1>2, PathsAgree DEF TypeOK
<1>4. verdict \in BOOLEAN
  BY DEF NoKey, genericOne, Direct, Shared, r51RawVerify, r51VerifyOne, packedVerify, pipelineVerify,
       rejectedByProfile, genericVerify, stdlibVerify, verifyR43Pipeline
<1> HIDE DEF x, verdict
<1>5. TypeOK'
  BY <1>1, <1>2, <1>4 DEF TypeOK
<1>6. ProfileKept'
  BY <1>1 DEF EntryInv, ProfileKept, Allowed
<1>7. VerdictsSoFar'
  <2>1. Len(ok) = index /\ \A i \in 1 .. index : ok[i] <=> Accepts(profile, items[i])
    BY <1>1 DEF EntryInv, VerdictsSoFar, Deciding
  <2>2. ASSUME NEW i \in 1 .. (index + 1)
        PROVE  ok'[i] <=> Accepts(profile, items[i])
    <3>1. CASE i = index + 1
      BY <1>1, <1>2, <1>3, <1>4, <2>1, <3>1 DEF TypeOK, x
    <3>2. CASE i \in 1 .. index
      BY <1>1, <1>2, <1>4, <2>1, <3>2 DEF TypeOK
    <3> QED
      BY <1>2, <3>1, <3>2 DEF TypeOK
  <2> QED
    BY <1>1, <1>2, <2>1, <2>2, <1>4 DEF VerdictsSoFar, TypeOK, Accepts
<1> QED
  BY <1>5, <1>6, <1>7 DEF EntryInv

\* After a fault the generic backend decides all items again, under the profile
\* the call has read.
LEMMA FaultStep ==
  ASSUME EntryInv, Fault
  PROVE  EntryInv'
<1>1. TypeOK' /\ ProfileKept'
  BY DEF EntryInv, TypeOK, ProfileKept, Fault, Allowed, Labels, Running, Deciding
<1>2. VerdictsSoFar'
  BY DEF EntryInv, TypeOK, VerdictsSoFar, Fault
<1> QED
  BY <1>1, <1>2 DEF EntryInv

\* The call is done when every item has its verdict.
LEMMA ReturnStep ==
  ASSUME EntryInv, Return
  PROVE  EntryInv'
<1>1. TypeOK' /\ ProfileKept'
  BY DEF EntryInv, TypeOK, ProfileKept, Return, Allowed, Labels, Running, Deciding
<1>2. VerdictsSoFar'
  BY DEF EntryInv, TypeOK, VerdictsSoFar, Return, Deciding, Accepts
<1> QED
  BY <1>1, <1>2 DEF EntryInv

\* The caller takes the verdicts.
LEMMA ConsumeStep ==
  ASSUME EntryInv, Consume
  PROVE  EntryInv'
BY DEF EntryInv, TypeOK, ProfileKept, VerdictsSoFar, Consume, Labels, Profiles, Entries, SingleEntries,
   Running, Deciding

\* A new default is one more profile a running call may answer for; the profile
\* it has read stays.
LEMMA SetStep ==
  ASSUME EntryInv, SetDefaultProfile
  PROVE  EntryInv'
<1>1. TypeOK' /\ ProfileKept'
  BY DEF EntryInv, TypeOK, ProfileKept, SetDefaultProfile, valid, Allowed, Labels, Running, Deciding
<1>2. VerdictsSoFar'
  BY DEF EntryInv, VerdictsSoFar, SetDefaultProfile, Accepts
<1> QED
  BY <1>1, <1>2 DEF EntryInv

\* Under any entry point and backend a call works with one profile it may
\* answer for, and its verdicts so far are that profile's.
THEOREM EntryInvariant == Spec => []EntryInv
<1>1. Init => EntryInv
  BY EntryInit
<1>2. EntryInv /\ [Next]_vars => EntryInv'
  <2> SUFFICES ASSUME EntryInv, [Next]_vars
               PROVE  EntryInv'
    OBVIOUS
  <2>1. CASE UNCHANGED vars
    BY <2>1 DEF vars, EntryInv, TypeOK, ProfileKept, VerdictsSoFar, Allowed, Accepts
  <2> QED
    BY <2>1, CallStep, ReadStep, VerifyStep, FaultStep, ReturnStep, ConsumeStep, SetStep DEF Next
<1> QED
  BY <1>1, <1>2, PTL DEF Spec

\* The verdicts a call returns are those of one profile for all its items, and
\* that profile was the default at some moment of the call, or is DalekStrict
\* for the Strict entry points: for every input, every backend, every batch
\* length and lane width, and wherever a native kernel failed.
THEOREM OneProfileDecides == Spec => []OneProfile
<1>1. EntryInv => OneProfile
  <2> SUFFICES ASSUME EntryInv, pc = "done"
               PROVE  \E p \in Allowed : \A i \in 1 .. Len(items) : ok[i] <=> Accepts(p, items[i])
    BY DEF OneProfile, Allowed
  <2>1. profile \in Allowed /\ index = Len(items)
    BY DEF EntryInv, ProfileKept, VerdictsSoFar, Deciding
  <2>2. \A i \in 1 .. Len(items) : ok[i] <=> Accepts(profile, items[i])
    BY <2>1 DEF EntryInv, VerdictsSoFar, Deciding
  <2> QED
    BY <2>1, <2>2
<1> QED
  BY <1>1, EntryInvariant, PTL

\* The Strict entry points never accept a small-order key or R or a
\* non-canonical R, whatever SetDefaultProfile stores meanwhile.
THEOREM StrictNeverRelaxed == Spec => []StrictFixed
<1>1. EntryInv => StrictFixed
  <2> SUFFICES ASSUME EntryInv, entry \in StrictEntries, NEW i \in 1 .. Len(ok), ok[i]
               PROVE  items[i].pub # "small" /\ ~items[i].rSmall /\ items[i].rCanonical
    BY DEF StrictFixed
  <2>1. Len(ok) = index /\ index \in Nat /\ index # 0
    BY DEF EntryInv, TypeOK, VerdictsSoFar
  <2>2. pc \in Deciding
    BY <2>1 DEF EntryInv, TypeOK, VerdictsSoFar, Labels, Deciding
  <2>3. profile = "DalekStrict"
    BY <2>2 DEF EntryInv, ProfileKept, Allowed
  <2>4. Accepts(profile, items[i])
    BY <2>1, <2>2 DEF EntryInv, VerdictsSoFar
  <2> QED
    BY <2>3, <2>4 DEF Accepts
<1> QED
  BY <1>1, EntryInvariant, PTL

-----------------------------------------------------------------------------
\* Signature preparation.

\* What the scan of the entries has kept after each of them.
LEMMA KeepRecursion ==
  ASSUME NEW ruleSet, NEW entries, Len(entries) \in Nat
  PROVE  /\ Keep(ruleSet, entries)[0] = <<>>
         /\ \A i \in 1 .. Len(entries) :
              Keep(ruleSet, entries)[i] = IF Admit(ruleSet, entries[i]) THEN Append(Keep(ruleSet, entries)[i - 1], i)
                                      ELSE Keep(ruleSet, entries)[i - 1]
<1> DEFINE n == Len(entries)
           grow == [p \in (1 .. n) \X Seq(Nat) |-> IF Admit(ruleSet, entries[p[1]]) THEN Append(p[2], p[1]) ELSE p[2]]
<1>1. grow \in [(1 .. n) \X Seq(Nat) -> Seq(Nat)]
  <2>1. \A p \in (1 .. n) \X Seq(Nat) : p[1] \in Nat /\ p[2] \in Seq(Nat) OBVIOUS
  <2>2. \A s \in Seq(Nat), e \in Nat : Append(s, e) \in Seq(Nat) OBVIOUS
  <2> QED BY <2>1, <2>2
<1>2. <<>> \in Seq(Nat) OBVIOUS
<1> HIDE DEF grow, n
<1>3. PICK f \in [0 .. n -> Seq(Nat)] : Computed(f, n, <<>>, grow)
  <2>1. n \in Nat BY DEF n
  <2> QED BY <2>1, <1>1, <1>2, Computable
<1>4. f = [i \in 0 .. n |-> IF i = 0 THEN <<>> ELSE IF Admit(ruleSet, entries[i]) THEN Append(f[i-1], i) ELSE f[i-1]]
  <2>1. ASSUME NEW i \in 0 .. n, i # 0
        PROVE  grow[<<i, f[i-1]>>] = IF Admit(ruleSet, entries[i]) THEN Append(f[i-1], i) ELSE f[i-1]
     <3>0. n \in Nat BY DEF n
     <3>1. i - 1 \in 0 .. n /\ i \in 1 .. n BY <2>1, <3>0
     <3>2. <<i, f[i-1]>> \in (1 .. n) \X Seq(Nat) BY SMTT(30), <3>1
     <3> QED BY <3>2 DEF grow
  <2> QED BY <1>3, <2>1 DEF Computed
<1> DEFINE K == Keep(ruleSet, entries)
<1> HIDE DEF K
<1>5. K = [i \in 0 .. n |-> IF i = 0 THEN <<>> ELSE IF Admit(ruleSet, entries[i]) THEN Append(K[i-1], i) ELSE K[i-1]]
  BY <1>4 DEF Keep, K, n
<1>6. \A i \in 1 .. n : K[i] = IF Admit(ruleSet, entries[i]) THEN Append(K[i-1], i) ELSE K[i-1]
  <2>1. \A i \in 1 .. n : i \in 0 .. n /\ i # 0 BY DEF n
  <2> QED BY <1>5, <2>1
<1>7. K[0] = <<>>
  BY <1>5 DEF n
<1> QED BY <1>6, <1>7 DEF K, n

\* kept lists the admitted ones of the first i entries in order.
Lists(kept, ruleSet, entries, i) ==
  /\ kept \in Seq(1 .. i)
  /\ \A j \in 1 .. Len(kept) : Admit(ruleSet, entries[kept[j]])
  /\ \A j, k \in 1 .. Len(kept) : kept[j] = kept[k] => j = k
  /\ \A x \in 1 .. i : Admit(ruleSet, entries[x]) => \E j \in 1 .. Len(kept) : kept[j] = x
  /\ Len(kept) = Cardinality({x \in 1 .. i : Admit(ruleSet, entries[x])})
  /\ Len(kept) <= i

\* One more item is listed if it is admitted.
LEMMA ListsNext ==
  ASSUME NEW ruleSet, NEW entries, NEW i \in Nat, NEW kept, Lists(kept, ruleSet, entries, i)
  PROVE  Lists(IF Admit(ruleSet, entries[i + 1]) THEN Append(kept, i + 1) ELSE kept, ruleSet, entries, i + 1)
<1> DEFINE A(k) == {x \in 1 .. k : Admit(ruleSet, entries[x])}
<1>0. IsFiniteSet(A(i)) /\ Len(kept) \in Nat /\ \A j \in 1 .. Len(kept) : kept[j] \in 1 .. i
  <2>1. IsFiniteSet(1 .. i) /\ A(i) \subseteq 1 .. i
    BY FS_Interval
  <2>2. IsFiniteSet(A(i))
    <3> HIDE DEF A
    <3> QED BY <2>1, FS_Subset
  <2>3. kept \in Seq(1 .. i)
    BY DEF Lists
  <2>4. Len(kept) \in Nat /\ \A j \in 1 .. Len(kept) : kept[j] \in 1 .. i
    BY <2>3
  <2> QED BY <2>2, <2>4
<1>1. CASE Admit(ruleSet, entries[i + 1])
  <2> DEFINE more == Append(kept, i + 1)
  <2>1. more \in Seq(1 .. (i + 1)) /\ Len(more) = Len(kept) + 1 /\ more[Len(kept) + 1] = i + 1
        /\ \A j \in 1 .. Len(kept) : more[j] = kept[j]
    <3>1. kept \in Seq(1 .. (i + 1)) /\ i + 1 \in 1 .. (i + 1)
      <4>1. kept \in Seq(1 .. i) BY DEF Lists
      <4>2. 1 .. i \subseteq 1 .. (i + 1) OBVIOUS
      <4> QED BY <4>1, <4>2
    <3> QED BY <3>1
  <2>2. A(i + 1) = A(i) \cup {i + 1} /\ i + 1 \notin A(i)
    <3>1. \A x : x \in 1 .. (i + 1) <=> x \in 1 .. i \/ x = i + 1 OBVIOUS
    <3> QED BY <3>1, <1>1
  <2>3. Cardinality(A(i + 1)) = Cardinality(A(i)) + 1
    BY <2>2, <1>0, FS_AddElement
  <2> HIDE DEF more
  <2>4. \A j \in 1 .. Len(more) : j \in 1 .. Len(kept) \/ j = Len(kept) + 1
    BY <2>1, <1>0
  <2>5. \A j \in 1 .. Len(more) : Admit(ruleSet, entries[more[j]])
    BY <2>1, <2>4, <1>1 DEF Lists
  <2>6. \A j, k \in 1 .. Len(more) : more[j] = more[k] => j = k
    <3>1. \A j \in 1 .. Len(kept) : more[j] # i + 1 BY SMTT(30), <2>1, <1>0
    <3> QED BY <2>1, <2>4, <3>1 DEF Lists
  <2>7. ASSUME NEW x \in 1 .. (i + 1), Admit(ruleSet, entries[x])
        PROVE  \E j \in 1 .. Len(more) : more[j] = x
    <3>1. CASE x = i + 1
      <4>1. Len(kept) + 1 \in 1 .. Len(more) BY <2>1, <1>0
      <4> QED BY <4>1, <2>1, <3>1
    <3>2. CASE x \in 1 .. i
      <4>1. PICK j \in 1 .. Len(kept) : kept[j] = x BY <3>2, <2>7 DEF Lists
      <4>2. j \in 1 .. Len(more) BY <2>1, <1>0
      <4> QED BY <4>1, <4>2, <2>1
    <3> QED BY <3>1, <3>2
  <2>8. Len(more) = Cardinality(A(i + 1)) /\ Len(more) <= i + 1
    BY <2>1, <2>3, <1>0 DEF Lists
  <2>9. Lists(more, ruleSet, entries, i + 1)
    BY <2>1, <2>5, <2>6, <2>7, <2>8 DEF Lists
  <2> QED BY <2>9, <1>1 DEF more
<1>2. CASE ~Admit(ruleSet, entries[i + 1])
  <2>1. A(i + 1) = A(i)
    <3>1. \A x : x \in 1 .. (i + 1) <=> x \in 1 .. i \/ x = i + 1 OBVIOUS
    <3> QED BY <3>1, <1>2
  <2>2. kept \in Seq(1 .. (i + 1))
    <3>1. kept \in Seq(1 .. i) BY DEF Lists
    <3>2. 1 .. i \subseteq 1 .. (i + 1) OBVIOUS
    <3> QED BY <3>1, <3>2
  <2>3. \A x \in 1 .. (i + 1) : Admit(ruleSet, entries[x]) => x \in 1 .. i
    BY <1>2
  <2>4. \A x \in 1 .. (i + 1) : Admit(ruleSet, entries[x]) => \E j \in 1 .. Len(kept) : kept[j] = x
    BY <2>3 DEF Lists
  <2>5. Len(kept) = Cardinality(A(i + 1)) /\ Len(kept) <= i + 1
    <3>1. Len(kept) = Cardinality(A(i)) /\ Len(kept) <= i
      BY DEF Lists
    <3> HIDE DEF A
    <3> QED BY <3>1, <2>1, <1>0
  <2>6. /\ \A j \in 1 .. Len(kept) : Admit(ruleSet, entries[kept[j]])
        /\ \A j, k \in 1 .. Len(kept) : kept[j] = kept[k] => j = k
    BY DEF Lists
  <2>7. Lists(kept, ruleSet, entries, i + 1)
    BY <2>2, <2>4, <2>5, <2>6 DEF Lists
  <2> QED BY <2>7, <1>2
<1> QED BY <1>1, <1>2

\* Survivors lists the admitted entries.
LEMMA SurvivorsListed ==
  ASSUME NEW ruleSet, NEW entries, Len(entries) \in Nat
  PROVE  Lists(Survivors(ruleSet, entries), ruleSet, entries, Len(entries))
<1> DEFINE K == Keep(ruleSet, entries)
           S == {i \in Nat : i <= Len(entries) => Lists(K[i], ruleSet, entries, i)}
<1>1. 0 \in S
  <2>1. Lists(<<>>, ruleSet, entries, 0)
    <3>1. {x \in 1 .. 0 : Admit(ruleSet, entries[x])} = {} OBVIOUS
    <3>2. Cardinality({x \in 1 .. 0 : Admit(ruleSet, entries[x])}) = 0 BY <3>1, FS_EmptySet
    <3>3. <<>> \in Seq(1 .. 0) /\ Len(<<>>) = 0 OBVIOUS
    <3> QED BY <3>2, <3>3 DEF Lists
  <2> QED BY <2>1, KeepRecursion
<1>2. ASSUME NEW i \in Nat, i \in S PROVE i + 1 \in S
  <2>1. SUFFICES ASSUME i + 1 <= Len(entries) PROVE Lists(K[i + 1], ruleSet, entries, i + 1)
    OBVIOUS
  <2>2. i + 1 \in 1 .. Len(entries) /\ (i + 1) - 1 = i
    BY <2>1
  <2>3. K[i + 1] = IF Admit(ruleSet, entries[i + 1]) THEN Append(K[i], i + 1) ELSE K[i]
    BY <2>2, KeepRecursion
  <2>4. Lists(K[i], ruleSet, entries, i)
    BY <1>2, <2>1
  <2> HIDE DEF K
  <2> QED BY <2>3, <2>4, ListsNext
<1>3. Len(entries) \in S
  <2> HIDE DEF S
  <2> QED BY <1>1, <1>2, SetInduction
<1> QED BY <1>3 DEF Survivors

\* A slice lies within its array.
IsSlice(s) == s = [cells |-> s.cells, len |-> s.len] /\ IsArray(s.cells) /\ s.len \in Nat

\* make yields a slice of the length it is given.
LEMMA MakeSlice ==
  ASSUME NEW zero, NEW n \in Nat
  PROVE  IsSlice(Make(zero, n)) /\ Len(Make(zero, n).cells) = n
<1> DEFINE f == [i \in 1 .. n |-> zero]
<1>1. f = [i \in 1 .. n |-> f[i]]
  OBVIOUS
<1>2. IsArray(f) /\ Len(f) = n
  <2> HIDE DEF f
  <2> QED BY <1>1, ArrayLength
<1> QED BY <1>2 DEF Make, Slice, IsSlice

\* resize yields one with room for n.
LEMMA ResizeSlice ==
  ASSUME NEW s, IsSlice(s), NEW zero, NEW n \in Nat
  PROVE  IsSlice(resize(s, zero, n)) /\ Len(resize(s, zero, n).cells) >= n
<1>1. CASE Len(s.cells) >= n
  <2>1. resize(s, zero, n) = [cells |-> s.cells, len |-> n]
    BY <1>1 DEF resize, Slice
  <2>2. resize(s, zero, n).cells = s.cells /\ resize(s, zero, n).len = n
    BY <2>1
  <2> QED BY <2>1, <2>2, <1>1 DEF IsSlice
<1>2. CASE ~(Len(s.cells) >= n)
  <2>1. resize(s, zero, n) = Make(zero, n)
    BY <1>2 DEF resize
  <2> QED BY <2>1, MakeSlice
<1> QED BY <1>1, <1>2

\* So does the resize that clears.
LEMMA FreshSlice ==
  ASSUME NEW s, IsSlice(s), NEW zero, NEW n \in Nat
  PROVE  IsSlice(Fresh(s, zero, n)) /\ Len(Fresh(s, zero, n).cells) >= n
<1> DEFINE t == resize(s, zero, n)
           f == [i \in DOMAIN t.cells |-> IF i <= t.len THEN zero ELSE t.cells[i]]
<1>1. IsSlice(t) /\ Len(t.cells) >= n
  BY ResizeSlice
<1>2. Len(t.cells) \in Nat /\ DOMAIN t.cells = 1 .. Len(t.cells) /\ t.len \in Nat
  BY <1>1 DEF IsSlice, IsArray
<1>3. f = [i \in 1 .. Len(t.cells) |-> f[i]]
  BY <1>2
<1>4. IsArray(f) /\ Len(f) = Len(t.cells)
  <2> HIDE DEF f, t
  <2> QED BY <1>2, <1>3, ArrayLength
<1>5. Fresh(s, zero, n) = [cells |-> f, len |-> t.len]
  BY DEF Fresh, Cleared, Slice
<1> QED BY <1>1, <1>2, <1>4, <1>5 DEF IsSlice

\* append to an emptied slice: the values come first, behind them the array
\* keeps what it held.
LEMMA AppendedSlice ==
  ASSUME NEW s, IsSlice(s), NEW values, IsArray(values)
  PROVE  /\ IsSlice(Appended(s, values)) /\ Appended(s, values).len = Len(values)
         /\ Len(Appended(s, values).cells) >= Len(values)
         /\ \A i \in 1 .. Len(values) : Appended(s, values).cells[i] = values[i]
         /\ \A i \in 1 .. Len(Appended(s, values).cells) :
              i > Len(values) => i \in 1 .. Len(s.cells) /\ Appended(s, values).cells[i] = s.cells[i]
<1> DEFINE n == Len(values)
           m == IF n > Len(s.cells) THEN n ELSE Len(s.cells)
           f == [i \in 1 .. m |-> IF i <= n THEN values[i] ELSE s.cells[i]]
<1>1. n \in Nat /\ Len(s.cells) \in Nat /\ m \in Nat /\ m >= n
  BY DEF IsSlice, IsArray
<1>2. Appended(s, values) = [cells |-> f, len |-> n]
  BY DEF Appended, Slice
<1>3. IsArray(f) /\ Len(f) = m
  <2>1. f = [i \in 1 .. m |-> f[i]] OBVIOUS
  <2> HIDE DEF f, m
  <2> QED BY <2>1, <1>1, ArrayLength
<1>4. \A i \in 1 .. n : f[i] = values[i]
  BY <1>1
<1>5. \A i \in 1 .. m : i > n => i \in 1 .. Len(s.cells) /\ f[i] = s.cells[i]
  BY <1>1
<1> HIDE DEF f, m, n
<1>6. IsSlice(Appended(s, values))
  BY <1>1, <1>2, <1>3 DEF IsSlice
<1> QED BY <1>1, <1>2, <1>3, <1>4, <1>5, <1>6 DEF n

-----------------------------------------------------------------------------
\* The Batch between two calls.

\* Every array the segment store has had is clear, but for the entries of the
\* last Prepare in the present one, which hold segments of its group.
StoresClean ==
  /\ IsArray(stores) /\ Len(stores) >= 1
  /\ \A g \in 1 .. Len(stores) : IsArray(stores[g])
  /\ filled \in Nat
  /\ \A g \in 1 .. Len(stores), i \in Nat :
       i \in 1 .. Len(stores[g]) =>
         \/ stores[g][i] = NoSegments
         \/ /\ g = Len(stores) /\ i <= filled
            /\ stores[g][i] \in {ChallengeSegments(group[j]) : j \in 1 .. Len(group)}

\* A header points into one of these arrays.
HeadersValid == \A i \in 1 .. Len(segments.cells) : segments.cells[i][1] \in 1 .. Len(stores)

\* The scratch of the Batch consists of slices.
SlicesValid ==
  /\ IsSlice(prepared) /\ IsSlice(live) /\ IsSlice(segments) /\ IsSlice(digests) /\ IsSlice(lanes)

\* The inductive invariant.
BatchInv == SlicesValid /\ StoresClean /\ HeadersValid /\ GroupExact

\* It leaves nothing of an earlier group within reach.
LEMMA PinnedNothing ==
  ASSUME BatchInv
  PROVE  NothingPinned
<1> DEFINE reached == {Len(stores)} \cup {segments.cells[i][1] : i \in DOMAIN segments.cells}
           held == (UNION {{stores[g][i] : i \in DOMAIN stores[g]} : g \in reached}) \ {NoSegments}
<1>1. reached \subseteq 1 .. Len(stores)
  <2>1. DOMAIN segments.cells = 1 .. Len(segments.cells)
    BY DEF BatchInv, SlicesValid, IsSlice, IsArray
  <2>2. Len(stores) \in 1 .. Len(stores)
    BY DEF BatchInv, StoresClean, IsArray
  <2> QED BY <2>1, <2>2 DEF BatchInv, HeadersValid
<1>2. SUFFICES ASSUME NEW x \in held
               PROVE  x \in {ChallengeSegments(group[i]) : i \in 1 .. Len(group)}
  BY DEF NothingPinned
<1>3. PICK g \in reached : \E i \in DOMAIN stores[g] : x = stores[g][i] /\ x # NoSegments
  <2>1. x \in UNION {{stores[g][i] : i \in DOMAIN stores[g]} : g \in reached} /\ x # NoSegments
    OBVIOUS
  <2> DEFINE Held(g) == {stores[g][i] : i \in DOMAIN stores[g]}
  <2>2. x \in UNION {Held(g) : g \in reached}
    BY <2>1
  <2> HIDE DEF reached, held
  <2>3. PICK g \in reached : x \in Held(g)
    <3> HIDE DEF Held
    <3> QED BY <2>2
  <2> QED BY <2>1, <2>3
<1>4. g \in 1 .. Len(stores)
  BY <1>1
<1>5. PICK i \in DOMAIN stores[g] : x = stores[g][i] /\ x # NoSegments
  BY <1>3
<1>6. i \in 1 .. Len(stores[g]) /\ i \in Nat
  BY <1>4 DEF BatchInv, StoresClean, IsArray
<1> HIDE DEF reached, held
<1> QED BY <1>4, <1>5, <1>6 DEF BatchInv, StoresClean

\* A new Batch has it.
LEMMA PrepInitInv ==
  ASSUME PrepInit
  PROVE  BatchInv
<1>1. \A zero : IsSlice(Make(zero, 0))
  BY MakeSlice
<1>2. SlicesValid
  BY <1>1 DEF PrepInit, SlicesValid
<1>3. IsArray(<<>>) /\ Len(<<>>) = 0
  BY DEF IsArray
<1>4. IsArray(<<<<>>>>) /\ Len(<<<<>>>>) = 1 /\ <<<<>>>>[1] = <<>>
  BY DEF IsArray
<1>5. StoresClean
  BY <1>3, <1>4 DEF StoresClean, PrepInit
<1>6. HeadersValid
  <2>1. Len(segments.cells) = 0
    BY MakeSlice DEF PrepInit
  <2> QED BY <2>1 DEF HeadersValid
<1>7. GroupExact
  <2>1. {i \in 1 .. Len(<<>>) : Admit(rulesUsed, group[i])} = {}
    OBVIOUS
  <2> QED BY <2>1, FS_EmptySet DEF GroupExact, PrepInit
<1> QED BY <1>2, <1>5, <1>6, <1>7 DEF BatchInv

\* What clearing the filled prefix leaves.
LEMMA ReleaseClears ==
  ASSUME SlicesValid, StoresClean, NEW n
  PROVE  /\ IsArray(Released(n)) /\ Len(Released(n)) = Len(stores)
         /\ \A g \in 1 .. Len(stores) : /\ IsArray(Released(n)[g])
                                        /\ \A i \in 1 .. Len(Released(n)[g]) : Released(n)[g][i] = NoSegments
<1> DEFINE last == Len(stores)
           old == stores[last]
           new == [i \in DOMAIN old |-> IF i <= filled THEN NoSegments ELSE old[i]]
           R == [stores EXCEPT ![last] = new]
<1>1. Released(n) = R
  BY DEF Released
<1>2. last \in 1 .. Len(stores) /\ DOMAIN stores = 1 .. Len(stores) /\ Len(stores) \in Nat
  BY DEF StoresClean, IsArray
<1>3. IsArray(old) /\ Len(old) \in Nat /\ DOMAIN old = 1 .. Len(old)
  BY <1>2 DEF StoresClean, IsArray
<1>4. IsArray(new) /\ Len(new) = Len(old)
  <2>1. new = [i \in 1 .. Len(old) |-> new[i]]
    BY <1>3
  <2> HIDE DEF new
  <2> QED BY <2>1, <1>3, ArrayLength
<1>5. \A i \in 1 .. Len(new) : new[i] = NoSegments
  <2>1. ASSUME NEW i \in 1 .. Len(new) PROVE new[i] = NoSegments
    <3>1. i \in DOMAIN old /\ i \in 1 .. Len(old) /\ i \in Nat
      BY SMTT(30), <1>3, <1>4
    <3>2. i <= filled \/ old[i] = NoSegments
      BY <3>1, <1>2 DEF StoresClean
    <3> QED BY <3>1, <3>2
  <2> QED BY <2>1
<1> HIDE DEF new
<1>6. R = [g \in 1 .. last |-> R[g]] /\ R[last] = new /\ \A g \in 1 .. last : g # last => R[g] = stores[g]
  BY <1>2
<1> HIDE DEF R
<1>7. IsArray(R) /\ Len(R) = Len(stores)
  BY <1>2, <1>6, ArrayLength
<1>8. ASSUME NEW g \in 1 .. Len(stores), g # last
      PROVE  IsArray(R[g]) /\ \A i \in 1 .. Len(R[g]) : R[g][i] = NoSegments
  <2>1. \A i \in 1 .. Len(stores[g]) : i \in Nat
    BY <1>8 DEF StoresClean, IsArray
  <2> QED BY <2>1, <1>6, <1>8 DEF StoresClean
<1> QED BY <1>1, <1>4, <1>5, <1>6, <1>7, <1>8

\* Reset resizes everything, and releases what the segment store held.
LEMMA ResetInv ==
  ASSUME BatchInv, NEW n \in 0 .. MaxGroup, Reset(n), MaxGroup \in Nat
  PROVE  BatchInv'
<1> n \in Nat
  OBVIOUS
<1>1. SlicesValid'
  <2>1. IsSlice(prepared)' /\ IsSlice(live)'
    BY FreshSlice DEF BatchInv, SlicesValid, Reset, IsSlice
  <2>2. \A s : IsSlice(s) => IsSlice(Slice(s.cells, 0))
    BY DEF IsSlice, Slice
  <2>3. IsSlice(segments)' /\ IsSlice(digests)' /\ IsSlice(lanes)'
    BY <2>2 DEF BatchInv, SlicesValid, Reset
  <2> QED BY <2>1, <2>3 DEF SlicesValid
<1>2. StoresClean'
  <2>1. stores' = Released(n) /\ filled' = 0
    BY DEF Reset
  <2>2. SlicesValid /\ StoresClean
    BY DEF BatchInv
  <2> QED BY SMTT(30), <2>1, <2>2, ReleaseClears DEF StoresClean
<1>3. HeadersValid'
  <2>1. segments'.cells = segments.cells /\ Len(stores') = Len(stores)
    BY ReleaseClears DEF BatchInv, Reset, Slice
  <2> QED BY <2>1 DEF BatchInv, HeadersValid
<1>4. GroupExact'
  <2>1. group' = <<>> /\ count' = 0
    BY DEF Reset
  <2>2. {i \in 1 .. Len(group') : Admit(rulesUsed', group'[i])} = {} /\ 1 .. Len(group') = {}
    BY <2>1
  <2> QED BY <2>1, <2>2, FS_EmptySet DEF GroupExact
<1> QED BY <1>1, <1>2, <1>3, <1>4 DEF BatchInv

-----------------------------------------------------------------------------
\* Prepare.

\* The segment store after it: clear but for the first c entries of the present
\* array, which hold the segments of the survivors.
LEMMA PrepareStores ==
  ASSUME BatchInv, MaxGroup \in Nat,
         NEW ruleSet, NEW entries \in Groups, Prepare(ruleSet, entries)
  PROVE  LET kept == Survivors(ruleSet, entries)  g == Len(stores')
         IN /\ StoresClean'
            /\ Len(stores) <= g
            /\ Len(kept) <= Len(stores'[g])
            /\ \A i \in 1 .. Len(kept) : stores'[g][i] = ChallengeSegments(entries[kept[i]])
<1> DEFINE n == Len(entries)
           kept == Survivors(ruleSet, entries)
           c == Len(kept)
           released == Released(n)
           grown == Len(released[Len(released)]) < n
           base == IF grown THEN Append(released, [i \in 1 .. n |-> NoSegments]) ELSE released
           g == Len(base)
           top == [i \in DOMAIN base[g] |-> IF i <= c THEN ChallengeSegments(entries[kept[i]]) ELSE base[g][i]]
<1>1. n \in Nat /\ Lists(kept, ruleSet, entries, n)
  <2>1. n \in Nat
    BY DEF Groups
  <2> QED BY <2>1, SurvivorsListed
<1>2. c \in Nat /\ c <= n /\ \A i \in 1 .. c : kept[i] \in 1 .. n
  <2>1. kept \in Seq(1 .. n) /\ c <= n
    BY <1>1 DEF Lists
  <2> HIDE DEF kept
  <2> QED BY <2>1
<1>3. /\ IsArray(released) /\ Len(released) = Len(stores)
      /\ \A h \in 1 .. Len(stores) : /\ IsArray(released[h])
                                    /\ \A i \in 1 .. Len(released[h]) : released[h][i] = NoSegments
  BY ReleaseClears DEF BatchInv
<1>4. Len(stores) \in Nat /\ Len(stores) >= 1
  BY DEF BatchInv, StoresClean, IsArray
<1>5. /\ IsArray(base) /\ g \in Nat /\ g >= Len(stores)
      /\ \A h \in 1 .. g : IsArray(base[h]) /\ \A i \in 1 .. Len(base[h]) : base[h][i] = NoSegments
      /\ n <= Len(base[g])
  <2> HIDE DEF n, released
  <2>1. CASE grown
    <3> DEFINE empty == [i \in 1 .. n |-> NoSegments]
    <3>1. IsArray(empty) /\ Len(empty) = n /\ \A i \in 1 .. n : empty[i] = NoSegments
      <4>1. empty = [i \in 1 .. n |-> empty[i]] /\ \A i \in 1 .. n : empty[i] = NoSegments
        OBVIOUS
      <4> HIDE DEF empty
      <4> QED BY <4>1, <1>1, ArrayLength
    <3> HIDE DEF empty
    <3>2. base = Append(released, empty)
      BY <2>1 DEF empty
    <3>3. IsArray(base) /\ g = Len(stores) + 1 /\ base[g] = empty
          /\ \A h \in 1 .. Len(stores) : base[h] = released[h]
      <4> HIDE DEF base
      <4> QED BY <3>2, <1>3, ArrayAppend
    <3> HIDE DEF base, g
    <3>4. \A h \in 1 .. g : h = g \/ h \in 1 .. Len(stores)
      BY <3>3, <1>4
    <3> QED BY <3>1, <3>3, <3>4, <1>3, <1>4, <1>1
  <2>2. CASE ~grown
    <3>1. base = released
      BY <2>2
    <3>2. ~(Len(released[Len(released)]) < n)
      BY <2>2
    <3>3. Len(released) \in 1 .. Len(stores) /\ Len(released[Len(released)]) \in Nat
      BY SMTT(30), <1>3, <1>4 DEF IsArray
    <3> HIDE DEF base, grown
    <3> QED BY <3>1, <3>2, <3>3, <1>3, <1>4, <1>1
  <2> QED BY <2>1, <2>2
<1>6. stores' = [base EXCEPT ![g] = top] /\ filled' = c /\ group' = entries
  BY DEF Prepare
<1> HIDE DEF n, kept, c, released, base, g
<1>7. g \in 1 .. g /\ Len(base) = g /\ DOMAIN base = 1 .. g /\ DOMAIN base[g] = 1 .. Len(base[g]) /\ Len(base[g]) \in Nat
  BY <1>4, <1>5 DEF g, IsArray
<1>8. /\ IsArray(top) /\ Len(top) = Len(base[g])
      /\ \A i \in 1 .. c : top[i] = ChallengeSegments(entries[kept[i]])
      /\ \A i \in 1 .. Len(top) : i <= c \/ top[i] = NoSegments
  <2>1. top = [i \in 1 .. Len(base[g]) |-> top[i]]
    BY <1>7
  <2>2. IsArray(top) /\ Len(top) = Len(base[g])
    <3> HIDE DEF top
    <3> QED BY <2>1, <1>7, ArrayLength
  <2>3. ASSUME NEW i \in 1 .. c PROVE top[i] = ChallengeSegments(entries[kept[i]])
    BY <1>1, <1>2, <1>5, <1>7
  <2>4. \A i \in 1 .. Len(base[g]) : i <= c \/ top[i] = NoSegments
    BY <1>2, <1>5, <1>7
  <2> HIDE DEF top
  <2> QED BY <2>2, <2>3, <2>4
<1> HIDE DEF top
<1>9. /\ stores' = [h \in 1 .. g |-> stores'[h]]
      /\ stores'[g] = top
      /\ \A h \in 1 .. g : h # g => stores'[h] = base[h]
  BY <1>6, <1>7
<1>10. IsArray(stores') /\ Len(stores') = g
  BY <1>5, <1>9, ArrayLength
<1>11. StoresClean'
  <2>1. \A h \in 1 .. Len(stores') : IsArray(stores'[h])
    BY <1>5, <1>8, <1>9, <1>10
  <2>2. ASSUME NEW h \in 1 .. Len(stores'), NEW i \in Nat, i \in 1 .. Len(stores'[h])
        PROVE  \/ stores'[h][i] = NoSegments
               \/ /\ h = Len(stores') /\ i <= filled'
                  /\ stores'[h][i] \in {ChallengeSegments(group'[j]) : j \in 1 .. Len(group')}
    <3>1. CASE h # g
      BY <2>2, <3>1, <1>5, <1>9, <1>10
    <3>2. CASE h = g /\ ~(i <= c)
      BY <2>2, <3>2, <1>8, <1>9
    <3>3. CASE h = g /\ i <= c
      <4>1. i \in 1 .. c
        BY <2>2, <3>3, <1>2
      <4>2. kept[i] \in 1 .. n /\ top[i] = ChallengeSegments(entries[kept[i]])
        BY <4>1, <1>2, <1>8
      <4> QED BY <4>2, <3>3, <1>6, <1>9, <1>10 DEF n
    <3> QED BY <3>1, <3>2, <3>3
  <2> QED BY <2>1, <2>2, <1>2, <1>4, <1>5, <1>6, <1>10 DEF StoresClean
<1>12. Len(stores') = g /\ Len(stores) <= g /\ c <= Len(top) /\ stores'[g] = top
  BY <1>1, <1>2, <1>4, <1>5, <1>7, <1>8, <1>9, <1>10
<1>13. \A i \in 1 .. c : stores'[g][i] = ChallengeSegments(entries[kept[i]])
  BY <1>8, <1>12
<1> QED BY <1>11, <1>12, <1>13 DEF kept, c

\* Fresh zeroes the length it gives.
LEMMA FreshZero ==
  ASSUME NEW s, IsSlice(s), NEW zero, NEW n \in Nat
  PROVE  \A i \in 1 .. n : Fresh(s, zero, n).cells[i] = zero
<1> DEFINE t == resize(s, zero, n)
           f == [i \in DOMAIN t.cells |-> IF i <= t.len THEN zero ELSE t.cells[i]]
<1>1. Fresh(s, zero, n) = [cells |-> f, len |-> t.len]
  BY DEF Fresh, Cleared, Slice
<1>2. IsSlice(t) /\ Len(t.cells) >= n
  BY ResizeSlice
<1>3. t.len = n
  BY DEF resize, Make, Slice
<1>4. \A i \in 1 .. n : i \in DOMAIN t.cells
  BY <1>2 DEF IsSlice, IsArray
<1>5. \A i \in 1 .. n : f[i] = zero
  <2> HIDE DEF t
  <2> QED BY <1>3, <1>4
<1> HIDE DEF f
<1> QED BY <1>1, <1>5

\* The two tables a Prepare writes back, and the index it leaves in them.
LEMMA PrepareInv ==
  ASSUME BatchInv, MaxGroup \in Nat,
         NEW ruleSet, NEW entries \in Groups, Prepare(ruleSet, entries)
  PROVE  BatchInv'
<1> DEFINE n == Len(entries)
           kept == Survivors(ruleSet, entries)
           c == Len(kept)
           g == Len(stores')
           pointers == [i \in 1 .. c |-> <<g, i>>]
           blank == Fresh(prepared, ZeroPrepared, n)
           asleep == Fresh(live, FALSE, n)
           d == resize(digests, Unset, c)
           results == [i \in DOMAIN d.cells |->
                         IF i <= c THEN Digest(stores'[segments'.cells[i][1]][segments'.cells[i][2]])
                         ELSE d.cells[i]]
           parsed == [i \in 1 .. n |-> IF Admit(ruleSet, entries[i]) THEN Parse(entries[i]) ELSE ZeroPrepared]
           keys == [i \in 1 .. n |->
                      IF \E j \in 1 .. c : lanes'.cells[j] = i
                      THEN [parsed[i] EXCEPT !.k = Reduce(digests'.cells[CHOOSE j \in 1 .. c : lanes'.cells[j] = i])]
                      ELSE blank.cells[i]]
           lives == [i \in 1 .. n |-> Admit(ruleSet, entries[i]) \/ asleep.cells[i]]
<1>1. n \in Nat /\ Lists(kept, ruleSet, entries, n)
  <2>1. n \in Nat
    BY DEF Groups
  <2> QED BY <2>1, SurvivorsListed
<1>2. c \in Nat /\ IsArray(kept) /\ \A i \in 1 .. c : kept[i] \in 1 .. n
  <2>1. kept \in Seq(1 .. n)
    BY <1>1 DEF Lists
  <2> HIDE DEF kept
  <2> QED BY SMTT(30), <2>1 DEF IsArray
<1>3. /\ StoresClean' /\ Len(stores) <= g /\ c <= Len(stores'[g])
      /\ \A i \in 1 .. c : stores'[g][i] = ChallengeSegments(entries[kept[i]])
  BY PrepareStores
<1>4. /\ prepared' = Appended(blank, keys) /\ live' = Appended(asleep, lives)
      /\ segments' = Appended(segments, pointers) /\ lanes' = Appended(lanes, kept)
      /\ digests' = IF c = 0 THEN Slice(digests.cells, 0) ELSE Slice(results, c)
      /\ group' = entries /\ rulesUsed' = ruleSet /\ count' = c
  <2> DEFINE released == Released(n)
             grown == Len(released[Len(released)]) < n
             base == IF grown THEN Append(released, [i \in 1 .. n |-> NoSegments]) ELSE released
             b == Len(base)
  <2>1. b = g
    <3>1. stores' = [base EXCEPT ![b] = [i \in DOMAIN @ |-> IF i <= c THEN ChallengeSegments(entries[kept[i]]) ELSE @[i]]]
      BY DEF Prepare
    <3>2. IsArray(released)
      BY ReleaseClears DEF BatchInv
    <3>3. IsArray(base)
      <4> HIDE DEF released
      <4> QED BY <3>2, ArrayAppend
    <3> HIDE DEF base
    <3>4. stores' = [i \in 1 .. b |-> stores'[i]] /\ b \in Nat
      BY <3>1, <3>3 DEF IsArray
    <3> QED BY SMTT(30), <3>4, ArrayLength
  <2> HIDE DEF g
  <2>2. segments' = Appended(segments, pointers) /\ lanes' = Appended(lanes, kept)
    BY <2>1 DEF Prepare
  <2>3. group' = entries /\ rulesUsed' = ruleSet /\ count' = c
    BY ZenonT(60) DEF Prepare
  <2>4. live' = Appended(asleep, lives)
    BY DEF Prepare
  <2>5. digests' = IF c = 0 THEN Slice(digests.cells, 0) ELSE Slice(results, c)
    <3> DEFINE store == [base EXCEPT ![b] = [i \in DOMAIN @ |-> IF i <= c THEN ChallengeSegments(entries[kept[i]]) ELSE @[i]]]
               headers == Appended(segments, [i \in 1 .. c |-> <<b, i>>])
               R(st, he) == [i \in DOMAIN d.cells |->
                               IF i <= c THEN Digest(st[he.cells[i][1]][he.cells[i][2]]) ELSE d.cells[i]]
    <3>1. stores' = store /\ segments' = headers
      BY ZenonT(60) DEF Prepare
    <3>2. digests' = IF c = 0 THEN Slice(digests.cells, 0) ELSE Slice(R(store, headers), c)
      BY DEF Prepare
    <3>3. results = R(stores', segments')
      BY SMTT(30)
    <3> HIDE DEF R, store, headers, results
    <3> QED BY SMTT(30), <3>1, <3>2, <3>3
  <2>6. prepared' = Appended(blank, keys)
    BY DEF Prepare
  <2> QED BY <2>2, <2>3, <2>4, <2>5, <2>6
<1>5. SlicesValid
  BY DEF BatchInv
<1>6. IsSlice(blank) /\ IsSlice(asleep) /\ IsArray(keys) /\ Len(keys) = n /\ IsArray(lives) /\ Len(lives) = n
  <2>1. keys = [i \in 1 .. n |-> keys[i]] /\ lives = [i \in 1 .. n |-> lives[i]]
    OBVIOUS
  <2>2. IsArray(keys) /\ Len(keys) = n /\ IsArray(lives) /\ Len(lives) = n
    <3> HIDE DEF keys, lives, n
    <3> QED BY <2>1, <1>1, ArrayLength
  <2> QED BY <2>2, <1>1, <1>5, FreshSlice DEF SlicesValid
<1>7. IsArray(pointers) /\ Len(pointers) = c /\ \A i \in 1 .. c : pointers[i] = <<g, i>>
  <2>1. pointers = [i \in 1 .. c |-> pointers[i]] /\ \A i \in 1 .. c : pointers[i] = <<g, i>>
    OBVIOUS
  <2> HIDE DEF pointers, c
  <2> QED BY <2>1, <1>2, ArrayLength
<1>8. g \in Nat /\ g >= 1
  BY <1>3 DEF StoresClean, IsArray
<1>9. \A i \in 1 .. n : blank.cells[i] = ZeroPrepared /\ asleep.cells[i] = FALSE
  <2>1. IsSlice(prepared) /\ IsSlice(live)
    BY <1>5 DEF SlicesValid
  <2>2. \A i \in 1 .. n : blank.cells[i] = ZeroPrepared
    <3> HIDE DEF n
    <3> QED BY <1>1, <2>1, FreshZero
  <2>3. \A i \in 1 .. n : asleep.cells[i] = FALSE
    <3> DEFINE off == FALSE
    <3>1. asleep = Fresh(live, off, n)
      OBVIOUS
    <3> HIDE DEF n, off, asleep
    <3>2. \A i \in 1 .. n : Fresh(live, off, n).cells[i] = off
      BY <1>1, <2>1, FreshZero
    <3>3. \A i \in 1 .. n : asleep.cells[i] = off
      BY <3>1, <3>2
    <3> QED BY <3>3, Zenon DEF off
  <2> QED BY <2>2, <2>3
<1>10. /\ \A i \in 1 .. n : keys[i] = IF \E j \in 1 .. c : lanes'.cells[j] = i
                      THEN [parsed[i] EXCEPT !.k = Reduce(digests'.cells[CHOOSE j \in 1 .. c : lanes'.cells[j] = i])]
                      ELSE blank.cells[i]
       /\ \A i \in 1 .. n : lives[i] = (Admit(ruleSet, entries[i]) \/ asleep.cells[i])
       /\ \A i \in 1 .. n : parsed[i] = IF Admit(ruleSet, entries[i]) THEN Parse(entries[i]) ELSE ZeroPrepared
  OBVIOUS
<1>11. \A i \in 1 .. n : lives[i] = Admit(ruleSet, entries[i])
  <2>1. \A i \in 1 .. n : (Admit(ruleSet, entries[i]) \/ FALSE) = Admit(ruleSet, entries[i])
    BY DEF Admit
  <2> HIDE DEF lives, asleep, n
  <2> QED BY <2>1, <1>9, <1>10
<1>12. IsSlice(d) /\ Len(d.cells) >= c
  BY SMTT(30), <1>2, <1>5, ResizeSlice DEF SlicesValid
<1>13. /\ IsArray(results)
       /\ \A i \in 1 .. c : results[i] = Digest(stores'[segments'.cells[i][1]][segments'.cells[i][2]])
  <2>1. DOMAIN d.cells = 1 .. Len(d.cells) /\ Len(d.cells) \in Nat
    BY <1>12 DEF IsSlice, IsArray
  <2>2. results = [i \in 1 .. Len(d.cells) |-> results[i]]
    BY <2>1
  <2>3. IsArray(results)
    <3> HIDE DEF results, d
    <3> QED BY <2>1, <2>2, ArrayLength
  <2>4. \A i \in 1 .. c : i \in DOMAIN d.cells /\ i <= c
    <3> HIDE DEF d, c
    <3> QED BY <2>1, <1>2, <1>12
  <2>5. \A i \in 1 .. c : results[i] = Digest(stores'[segments'.cells[i][1]][segments'.cells[i][2]])
    <3> HIDE DEF d, c
    <3> QED BY <2>4
  <2> QED BY <2>3, <2>5
<1> HIDE DEF n, kept, c, g, pointers, blank, asleep, d, results, parsed, keys, lives
<1>14. SlicesValid'
  <2>1. IsSlice(prepared') /\ IsSlice(live') /\ IsSlice(segments') /\ IsSlice(lanes')
    BY <1>2, <1>4, <1>5, <1>6, <1>7, AppendedSlice DEF SlicesValid, c
  <2>2. IsSlice(Slice(digests.cells, 0)) /\ IsSlice(Slice(results, c))
    BY <1>2, <1>5, <1>13 DEF SlicesValid, IsSlice, Slice
  <2> QED BY <2>1, <2>2, <1>4 DEF SlicesValid
<1>15. /\ \A i \in 1 .. c : segments'.cells[i] = <<g, i>> /\ lanes'.cells[i] = kept[i]
       /\ \A i \in 1 .. Len(segments'.cells) :
            i > c => i \in 1 .. Len(segments.cells) /\ segments'.cells[i] = segments.cells[i]
       /\ \A i \in 1 .. n : prepared'.cells[i] = keys[i] /\ live'.cells[i] = lives[i]
  <2>1. /\ \A i \in 1 .. c : segments'.cells[i] = <<g, i>>
        /\ \A i \in 1 .. Len(segments'.cells) :
            i > c => i \in 1 .. Len(segments.cells) /\ segments'.cells[i] = segments.cells[i]
    <3>1. IsSlice(segments)
      BY <1>5 DEF SlicesValid
    <3> DEFINE a == Appended(segments, pointers)
    <3>2. /\ \A i \in 1 .. Len(pointers) : a.cells[i] = pointers[i]
          /\ \A i \in 1 .. Len(a.cells) :
               i > Len(pointers) => i \in 1 .. Len(segments.cells) /\ a.cells[i] = segments.cells[i]
      <4>1. IsArray(pointers)
        BY <1>7
      <4> QED BY ONLY <3>1, <4>1, AppendedSlice
    <3>3. segments' = a
      BY <1>4
    <3> HIDE DEF a
    <3> QED BY <1>7, <3>2, <3>3
  <2>2. \A i \in 1 .. c : lanes'.cells[i] = kept[i]
    BY <1>2, <1>4, <1>5, AppendedSlice DEF SlicesValid, c
  <2>3. \A i \in 1 .. n : prepared'.cells[i] = keys[i] /\ live'.cells[i] = lives[i]
    BY <1>4, <1>6, AppendedSlice
  <2> QED BY <2>1, <2>2, <2>3
<1>16. HeadersValid'
  <2>1. SUFFICES ASSUME NEW i \in 1 .. Len(segments'.cells)
                 PROVE  segments'.cells[i][1] \in 1 .. g
    BY DEF HeadersValid, g
  <2>2. i \in Nat /\ i >= 1
    OBVIOUS
  <2>3. CASE i <= c
    <3>1. i \in 1 .. c
      BY <2>2, <2>3, <1>2
    <3> QED BY <3>1, <1>15, <1>8
  <2>4. CASE i > c
    <3>1. i \in 1 .. Len(segments.cells) /\ segments'.cells[i] = segments.cells[i]
      BY <2>4, <1>15
    <3>2. segments.cells[i][1] \in 1 .. Len(stores)
      BY <3>1 DEF BatchInv, HeadersValid
    <3> QED BY <3>1, <3>2, <1>3, <1>8
  <2> QED BY <2>2, <2>3, <2>4, <1>2
<1>17. \A j \in 1 .. c : digests'.cells[j] = Digest(ChallengeSegments(entries[kept[j]]))
  <2>1. SUFFICES ASSUME NEW j \in 1 .. c
                 PROVE  digests'.cells[j] = Digest(ChallengeSegments(entries[kept[j]]))
    OBVIOUS
  <2>2. c # 0
    BY <1>2
  <2>3. digests'.cells = results
    BY <2>2, <1>4 DEF Slice
  <2>4. stores'[segments'.cells[j][1]][segments'.cells[j][2]] = ChallengeSegments(entries[kept[j]])
    BY <1>3, <1>15 DEF g, c, kept
  <2> QED BY <2>3, <2>4, <1>13
<1>18. ASSUME NEW i \in 1 .. n, Admit(ruleSet, entries[i])
       PROVE  keys[i] = [r |-> entries[i].r, s |-> entries[i].s,
                         k |-> Reduce(Digest(<<entries[i].r, entries[i].a, entries[i].m>>))]
  <2>1. \E j \in 1 .. c : kept[j] = i
    BY <1>1, <1>18 DEF Lists, c
  <2> DEFINE j == CHOOSE j \in 1 .. c : lanes'.cells[j] = i
  <2>2. \E j0 \in 1 .. c : lanes'.cells[j0] = i
    BY <2>1, <1>15
  <2>3. j \in 1 .. c /\ lanes'.cells[j] = i
    BY <2>2
  <2>4. keys[i] = [parsed[i] EXCEPT !.k = Reduce(digests'.cells[j])]
    BY <1>10, <2>2
  <2> HIDE DEF j
  <2>5. kept[j] = i
    BY <2>3, <1>15
  <2>6. digests'.cells[j] = Digest(<<entries[i].r, entries[i].a, entries[i].m>>)
    BY <2>3, <2>5, <1>17 DEF ChallengeSegments
  <2>7. parsed[i] = [r |-> entries[i].r, s |-> entries[i].s, k |-> Unset]
    BY <1>10, <1>18 DEF Parse
  <2> QED BY <2>4, <2>6, <2>7
<1>19. ASSUME NEW i \in 1 .. n, ~Admit(ruleSet, entries[i])
       PROVE  keys[i] = ZeroPrepared
  <2>1. \A j \in 1 .. c : kept[j] # i
    BY <1>1, <1>19 DEF Lists, c
  <2>2. ~\E j \in 1 .. c : lanes'.cells[j] = i
    BY <2>1, <1>15
  <2> QED BY <2>2, <1>9, <1>10
<1>20. GroupExact'
  <2>1. count' = Cardinality({i \in 1 .. n : Admit(ruleSet, entries[i])})
    BY <1>1, <1>4 DEF Lists, c
  <2>2. \A i \in 1 .. n :
       /\ live'.cells[i] = Admit(ruleSet, entries[i])
       /\ prepared'.cells[i] = IF live'.cells[i]
                              THEN [r |-> entries[i].r, s |-> entries[i].s,
                                    k |-> Reduce(Digest(<<entries[i].r, entries[i].a, entries[i].m>>))]
                              ELSE ZeroPrepared
    <3>1. \A i \in 1 .. n : live'.cells[i] = Admit(ruleSet, entries[i])
      BY <1>11, <1>15
    <3> QED BY <3>1, <1>15, <1>18, <1>19
  <2> QED BY <2>1, <2>2, <1>4 DEF GroupExact, n
<1> QED BY <1>3, <1>14, <1>16, <1>20 DEF BatchInv

\* Every call keeps the invariant.
LEMMA PrepStepInv ==
  ASSUME BatchInv, [PrepNext]_prepVars
  PROVE  BatchInv'
<1>1. MaxGroup \in Nat
  BY SigPrepAssumption
<1>2. CASE \E n \in 0 .. MaxGroup : Reset(n)
  BY <1>1, <1>2, ResetInv
<1>3. CASE \E ruleSet \in RuleSets, entries \in Groups : Prepare(ruleSet, entries)
  BY <1>1, <1>3, PrepareInv
<1>4. CASE UNCHANGED prepVars
  BY <1>4 DEF prepVars, BatchInv, SlicesValid, StoresClean, HeadersValid, GroupExact
<1> QED BY <1>2, <1>3, <1>4 DEF PrepNext

\* The scratch of a Batch always fits the group prepared last.
THEOREM BatchAlways == PrepSpec => []BatchInv
<1>1. PrepInit => BatchInv
  BY PrepInitInv
<1>2. BatchInv /\ [PrepNext]_prepVars => BatchInv'
  BY PrepStepInv
<1> QED BY <1>1, <1>2, PTL DEF PrepSpec

\* After Prepare exactly the items the rules admit are live, in order, and each
\* goes on with its own signature and challenge and into its own group and lane,
\* for groups of any length and any sequence of Resets and earlier groups.
THEOREM GroupAlwaysExact == PrepSpec => []GroupExact
<1>1. BatchInv => GroupExact
  BY DEF BatchInv
<1> QED BY <1>1, BatchAlways, PTL

\* No array the Batch reaches, those it outgrew included, holds a segment of an
\* earlier group.
THEOREM NothingAlwaysPinned == PrepSpec => []NothingPinned
<1>1. BatchInv => NothingPinned
  BY PinnedNothing
<1> QED BY <1>1, BatchAlways, PTL

-----------------------------------------------------------------------------
\* Messages.

\* The running ends of the segments are natural numbers, the last is the length.
LEMMA EndsAreNaturals ==
  ASSUME NEW m, batch[m] \in Seq(Nat)
  PROVE  /\ SegmentEnds(m) \in [0 .. Len(batch[m]) -> Nat]
         /\ Total(m) \in Nat
         /\ SegmentEnds(m)[0] = 0
         /\ \A p \in 1 .. Len(batch[m]) : SegmentEnds(m)[p] = SegmentEnds(m)[p - 1] + batch[m][p]
<1> DEFINE s == batch[m]
           n == Len(s)
           grow == [p \in (1 .. n) \X Nat |-> p[2] + s[p[1]]]
<1>1. n \in Nat /\ \A i \in 1 .. n : s[i] \in Nat
  OBVIOUS
<1>2. grow \in [(1 .. n) \X Nat -> Nat]
  <2>1. \A p \in (1 .. n) \X Nat : p[1] \in 1 .. n /\ p[2] \in Nat
    OBVIOUS
  <2> QED BY <2>1, <1>1
<1>3. \A p \in (1 .. n) \X Nat : grow[p] = p[2] + s[p[1]]
  OBVIOUS
<1> HIDE DEF grow, n
<1>4. PICK f \in [0 .. n -> Nat] : Computed(f, n, 0, grow)
  BY <1>1, <1>2, Computable
<1>5. f = [p \in 0 .. n |-> IF p = 0 THEN 0 ELSE f[p - 1] + s[p]]
  <2>1. ASSUME NEW p \in 0 .. n, p # 0
        PROVE  grow[<<p, f[p - 1]>>] = f[p - 1] + s[p]
    <3>1. p - 1 \in 0 .. n /\ p \in 1 .. n
      BY <1>1, <2>1
    <3>2. <<p, f[p - 1]>> \in (1 .. n) \X Nat
      BY <3>1
    <3> QED BY <3>2, <1>3
  <2> QED BY <1>4, <2>1 DEF Computed
<1> DEFINE E == SegmentEnds(m)
<1> HIDE DEF E
<1>6. E = [p \in 0 .. n |-> IF p = 0 THEN 0 ELSE E[p - 1] + s[p]]
  BY <1>5 DEF SegmentEnds, E, n
<1> DEFINE S == {p \in Nat : p <= n => E[p] \in Nat}
<1>7. 0 \in S
  BY <1>1, <1>6
<1>8. ASSUME NEW p \in Nat, p \in S PROVE p + 1 \in S
  <2>1. SUFFICES ASSUME p + 1 <= n PROVE E[p + 1] \in Nat
    OBVIOUS
  <2>2. p + 1 \in 0 .. n /\ p + 1 # 0 /\ p + 1 \in 1 .. n /\ (p + 1) - 1 = p
    BY <1>1, <2>1
  <2>3. E[p + 1] = E[p] + s[p + 1]
    BY <1>6, <2>2
  <2> QED BY SMTT(30), <1>1, <1>8, <2>1, <2>2, <2>3
<1>9. \A p \in Nat : p \in S
  <2> HIDE DEF S
  <2> QED BY <1>7, <1>8, SetInduction
<1>10. \A p \in 0 .. n : E[p] \in Nat
  BY <1>1, <1>9
<1>11. E \in [0 .. n -> Nat]
  BY <1>6, <1>10
<1>12. E[0] = 0 /\ \A p \in 1 .. n : E[p] = E[p - 1] + s[p]
  <2>1. \A p \in 1 .. n : p \in 0 .. n /\ p # 0
    BY <1>1
  <2>2. 0 \in 0 .. n
    BY <1>1
  <2> QED BY <1>6, <2>1, <2>2
<1> QED BY <1>1, <1>10, <1>11, <1>12 DEF E, n, Total

\* A byte that takeDirectBlock finds contiguous lies within the message.
LEMMA DirectWithin ==
  ASSUME NEW m, batch[m] \in Seq(Nat), NEW position \in Nat
  PROVE  SegmentEnd(m, position) \in Nat /\ SegmentEnd(m, position) <= Total(m)
<1> DEFINE E == SegmentEnds(m)
           ends == {E[p] : p \in {q \in 0 .. Len(batch[m]) : E[q] > position}} \cup {Total(m)}
<1>1. E \in [0 .. Len(batch[m]) -> Nat] /\ Total(m) \in Nat
  BY EndsAreNaturals
<1>2. ends \in SUBSET Nat /\ Total(m) \in ends
  BY <1>1
<1>3. SegmentEnd(m, position) = Min(ends)
  BY DEF SegmentEnd
<1> HIDE DEF ends
<1>4. \E x \in ends : \A y \in ends : x <= y
  BY <1>2, LeastNat
<1>5. Min(ends) \in ends /\ \A y \in ends : Min(ends) <= y
  BY <1>4 DEF Min
<1> QED BY <1>2, <1>3, <1>5

\* The two arguments of a Min.
LEMMA MinOfTwo ==
  ASSUME NEW x \in Nat, NEW y \in Nat
  PROVE  Min({x, y}) = IF x <= y THEN x ELSE y
<1>1. CASE x <= y
  <2>1. \E z \in {x, y} : \A w \in {x, y} : z <= w
    BY <1>1
  <2>2. Min({x, y}) \in {x, y} /\ \A w \in {x, y} : Min({x, y}) <= w
    BY <2>1 DEF Min
  <2> QED BY <1>1, <2>2
<1>2. CASE ~(x <= y)
  <2>1. y <= x /\ x # y
    BY <1>2
  <2>2. \E z \in {x, y} : \A w \in {x, y} : z <= w
    BY <2>1
  <2>3. Min({x, y}) \in {x, y} /\ \A w \in {x, y} : Min({x, y}) <= w
    BY <2>2 DEF Min
  <2> QED BY <1>2, <2>1, <2>3
<1> QED BY <1>1, <1>2

-----------------------------------------------------------------------------
\* Padding.

\* Block b of the padded message.
PaddedBlock(m, b) ==
  [i \in 1 .. Block |->
     LET p == (b - 1) * Block + i
     IN IF p <= Total(m) THEN Byte(m, p)
        ELSE IF p = Total(m) + 1 THEN Pad
        ELSE IF b = blocks(m) /\ i > Block - LengthField THEN LengthByte(i, Total(m))
        ELSE ZeroByte]

\* The initial value and the first k blocks.
Prefix(m, k) == [j \in 1 .. k + 1 |-> IF j = 1 THEN "iv" ELSE PaddedBlock(m, j - 1)]

\* What the proofs use of the constants.
Constants ==
  /\ Block \in Nat /\ Block >= 4 /\ Half \in Nat /\ Block = 4 * Half
  /\ LengthField \in Nat /\ LengthField >= 1 /\ LengthField < Block

\* The assumption says so.
LEMMA ConstantsHold == Constants
BY MultiHashAssumption DEF Constants

\* The number of blocks, as quotient and remainder give it.
LEMMA BlockCount ==
  ASSUME NEW m, Total(m) \in Nat
  PROVE  \E q \in Nat, r \in 0 .. Block - 1 :
           /\ Total(m) = q * Block + r
           /\ blocks(m) = IF r >= Block - LengthField THEN q + 2 ELSE q + 1
<1> DEFINE q == Total(m) \div Block  r == Total(m) % Block
<1>1. Block \in Nat \ {0} /\ LengthField \in Nat
  BY ConstantsHold DEF Constants
<1>2. q \in Nat /\ r \in 0 .. Block - 1 /\ Total(m) = q * Block + r
  BY <1>1, DivMod
<1>3. blocks(m) = q + (IF r >= Block - LengthField THEN 2 ELSE 1)
  BY DEF blocks
<1> HIDE DEF q, r
<1>4. blocks(m) = IF r >= Block - LengthField THEN q + 2 ELSE q + 1
  BY <1>1, <1>2, <1>3
<1> QED BY <1>2, <1>4

\* It is the least number of blocks that holds the message, 0x80 and the length.
LEMMA BlocksAreLeast ==
  ASSUME NEW m, Total(m) \in Nat
  PROVE  /\ blocks(m) \in Nat /\ blocks(m) >= 1
         /\ Min({k \in 1 .. Total(m) + 2 : k * Block >= Total(m) + 1 + LengthField}) = blocks(m)
<1> DEFINE B == blocks(m)
           fits == {k \in 1 .. Total(m) + 2 : k * Block >= Total(m) + 1 + LengthField}
<1>1. Constants
  BY ConstantsHold
<1>2. PICK q \in Nat, r \in 0 .. Block - 1 :
           /\ Total(m) = q * Block + r
           /\ B = IF r >= Block - LengthField THEN q + 2 ELSE q + 1
  BY BlockCount
<1>3. q <= q * Block
  BY <1>1 DEF Constants
<1> HIDE DEF B
<1>4. B \in Nat /\ B >= 1 /\ B <= Total(m) + 2
  <2>1. r \in Nat /\ q * Block \in Nat /\ Total(m) >= q * Block
    BY <1>1, <1>2 DEF Constants
  <2>2. q <= Total(m)
    <3> DEFINE w == q * Block
    <3> HIDE DEF w
    <3>1. w \in Nat /\ Total(m) >= w /\ q <= w
      BY <2>1, <1>3 DEF w
    <3> QED BY <3>1
  <2>3. B = q + 2 \/ B = q + 1
    BY <1>2
  <2> QED BY <2>2, <2>3
<1>5. B * Block >= Total(m) + 1 + LengthField
  <2>1. CASE r >= Block - LengthField
    <3>1. B * Block = q * Block + 2 * Block
      BY <1>1, <1>2, <2>1 DEF Constants
    <3> QED BY <3>1, <1>1, <1>2 DEF Constants
  <2>2. CASE ~(r >= Block - LengthField)
    <3>1. B * Block = q * Block + Block
      BY <1>1, <1>2, <2>2 DEF Constants
    <3> QED BY <3>1, <2>2, <1>1, <1>2 DEF Constants
  <2> QED BY <2>1, <2>2
<1>6. ASSUME NEW k \in fits PROVE B <= k
  <2>1. k \in Nat /\ k * Block >= Total(m) + 1 + LengthField
    BY <1>4
  <2>2. SUFFICES ASSUME k <= B - 1 PROVE FALSE
    BY <2>1, <1>4
  <2>3. B - 1 \in Nat
    BY <1>4
  <2>4. k * Block <= (B - 1) * Block
    <3> DEFINE a == B - 1
    <3> HIDE DEF a
    <3>1. k <= a /\ a \in Nat
      BY <2>2, <2>3 DEF a
    <3>2. k * Block <= a * Block
      BY <3>1, <2>1, <1>1, MulMono DEF Constants
    <3> QED BY <3>2 DEF a
  <2>5. CASE r >= Block - LengthField
    <3>1. (B - 1) * Block = q * Block + Block
      BY <1>1, <1>2, <2>5 DEF Constants
    <3> QED BY <3>1, <2>1, <2>4, <2>5, <1>1, <1>2 DEF Constants
  <2>6. CASE ~(r >= Block - LengthField)
    <3>1. (B - 1) * Block = q * Block
      BY <1>1, <1>2, <2>6 DEF Constants
    <3> QED BY <3>1, <2>1, <2>4, <2>6, <1>1, <1>2 DEF Constants
  <2> QED BY <2>5, <2>6
<1>7. B \in fits
  BY <1>4, <1>5
<1>8. Min(fits) = B
  <2>1. \A k \in fits : k \in Nat
    BY <1>4
  <2> HIDE DEF fits
  <2>2. \E x \in fits : \A y \in fits : x <= y
    BY <1>6, <1>7
  <2>3. Min(fits) \in fits /\ \A y \in fits : Min(fits) <= y
    BY <2>2 DEF Min
  <2> DEFINE least == Min(fits)
  <2> HIDE DEF least
  <2>4. least \in fits /\ least <= B
    BY <2>3, <1>7 DEF least
  <2>5. least \in Nat /\ B <= least
    BY <2>4, <2>1, <1>6
  <2>6. least = B
    BY <2>4, <2>5, <1>4
  <2> QED BY <2>6 DEF least
<1> QED BY <1>4, <1>8 DEF B

-----------------------------------------------------------------------------
\* The blocks a lane is fed.

\* Where the k-th block starts in a message that ends in its block q.
LEMMA BlockStart ==
  ASSUME NEW m, Total(m) \in Nat, NEW k \in Nat
  PROVE  /\ k * Block \in Nat /\ (k + 1) * Block = k * Block + Block /\ (k + 1) - 1 = k
         /\ k + 1 = blocks(m) /\ Total(m) >= k * Block => Total(m) - k * Block < Block - LengthField
         /\ k + 1 < blocks(m) /\ Total(m) < k * Block => FALSE
         /\ k + 1 = blocks(m) => Total(m) < k * Block + Block
<1>1. Constants
  BY ConstantsHold
<1>2. PICK q \in Nat, r \in 0 .. Block - 1 :
           /\ Total(m) = q * Block + r
           /\ blocks(m) = IF r >= Block - LengthField THEN q + 2 ELSE q + 1
  BY BlockCount
<1>3. k * Block \in Nat /\ (k + 1) * Block = k * Block + Block /\ (k + 1) - 1 = k
  BY <1>1 DEF Constants
<1>4. ASSUME k + 1 = blocks(m)
      PROVE  /\ Total(m) >= k * Block => Total(m) - k * Block < Block - LengthField
             /\ Total(m) < k * Block + Block
  <2>1. CASE r >= Block - LengthField
    <3>1. k * Block = q * Block + Block
      <4>1. k = q + 1
        BY <1>2, <1>4, <2>1
      <4> QED BY <4>1, <1>1 DEF Constants
    <3> QED BY <3>1, <1>1, <1>2 DEF Constants
  <2>2. CASE ~(r >= Block - LengthField)
    <3>1. k = q
      BY <1>2, <1>4, <2>2
    <3> QED BY <3>1, <2>2, <1>1, <1>2 DEF Constants
  <2> QED BY <2>1, <2>2
<1>5. ASSUME k + 1 < blocks(m), Total(m) < k * Block
      PROVE  FALSE
  <2>1. k <= q
    BY <1>2, <1>5
  <2>2. k * Block <= q * Block /\ q * Block \in Nat
    BY <2>1, <1>1, MulMono DEF Constants
  <2> QED BY <2>2, <1>1, <1>2, <1>3, <1>5 DEF Constants
<1> QED BY <1>3, <1>4, <1>5

\* A cursor after k blocks of message m.
CursorAfter(m, k) ==
  [position |-> IF Total(m) < k * Block THEN Total(m) ELSE k * Block,
   paddingWritten |-> Total(m) < k * Block]

\* fill gives the next block of the padded message.
LEMMA FillNext ==
  ASSUME NEW m, Total(m) \in Nat, blockIndex \in Nat, blockIndex < blocks(m)
  PROVE  fill(m, CursorAfter(m, blockIndex)) =
           [block |-> PaddedBlock(m, blockIndex + 1), cursor |-> CursorAfter(m, blockIndex + 1)]
<1> DEFINE k == blockIndex
           K == k * Block
           T == Total(m)
           c == CursorAfter(m, k)
           n == Min({Block, T - c.position})
           body == [i \in 1 .. Block |->
                      IF i <= n THEN Byte(m, c.position + i)
                      ELSE IF i = n + 1 /\ ~c.paddingWritten THEN Pad ELSE ZeroByte]
           fed == IF k + 1 = blocks(m) THEN LengthOf(m, body) ELSE body
<1>1. Constants /\ blocks(m) \in Nat
  BY ConstantsHold, BlocksAreLeast
<1>2. /\ K \in Nat /\ (k + 1) * Block = K + Block /\ (k + 1) - 1 = k
      /\ k + 1 = blocks(m) /\ T >= K => T - K < Block - LengthField
      /\ k + 1 < blocks(m) /\ T < K => FALSE
      /\ k + 1 = blocks(m) => T < K + Block
  BY BlockStart
<1>3. fill(m, c) = [block |-> fed,
                    cursor |-> [position |-> c.position + n, paddingWritten |-> c.paddingWritten \/ n < Block]]
  BY DEF fill
<1>4. /\ T < K => c.position = T /\ c.paddingWritten
      /\ ~(T < K) => c.position = K /\ ~c.paddingWritten
  BY DEF CursorAfter
<1>5. n = IF T < K THEN 0 ELSE IF Block <= T - K THEN Block ELSE T - K
  <2> HIDE DEF K, T, c
  <2>1. c.position \in Nat /\ T - c.position \in Nat /\ Block \in Nat /\ Block > 0
    BY <1>1, <1>2, <1>4 DEF Constants, T
  <2>2. n = IF Block <= T - c.position THEN Block ELSE T - c.position
    BY <2>1, MinOfTwo
  <2> QED BY <2>1, <2>2, <1>2, <1>4
<1>6. CursorAfter(m, k + 1) = [position |-> c.position + n, paddingWritten |-> c.paddingWritten \/ n < Block]
  <2>1. CursorAfter(m, k + 1) = [position |-> IF T < K + Block THEN T ELSE K + Block, paddingWritten |-> T < K + Block]
    BY <1>2 DEF CursorAfter
  <2>2. (IF T < K + Block THEN T ELSE K + Block) = c.position + n
    <3> HIDE DEF K, c, n
    <3> QED BY <1>1, <1>2, <1>4, <1>5 DEF Constants
  <2>3. (T < K + Block) = (c.paddingWritten \/ n < Block)
    <3> HIDE DEF K, c, n, T
    <3>1. T \in Nat /\ K \in Nat /\ Block \in Nat /\ Block > 0
      BY <1>1, <1>2 DEF T, Constants
    <3>2. CASE T < K
      <4>1. T < K + Block /\ c.paddingWritten
        BY <3>1, <3>2, <1>4
      <4> QED BY <4>1
    <3>3. CASE ~(T < K)
      <4>1. ~c.paddingWritten
        BY <3>3, <1>4
      <4>2. n < Block <=> T < K + Block
        BY <3>1, <3>3, <1>5
      <4> QED BY <4>1, <4>2
    <3> QED BY <3>2, <3>3
  <2> QED BY <2>1, <2>2, <2>3
<1>7. fed = PaddedBlock(m, k + 1)
  <2> DEFINE P(i) == IF K + i <= T THEN Byte(m, K + i)
                     ELSE IF K + i = T + 1 THEN Pad
                     ELSE IF k + 1 = blocks(m) /\ i > Block - LengthField THEN LengthByte(i, T)
                     ELSE ZeroByte
             F(i) == IF i <= n THEN Byte(m, c.position + i)
                     ELSE IF i = n + 1 /\ ~c.paddingWritten THEN Pad ELSE ZeroByte
  <2>1. PaddedBlock(m, k + 1) = [i \in 1 .. Block |-> P(i)]
    BY <1>2 DEF PaddedBlock
  <2>2. body = [i \in 1 .. Block |-> F(i)]
    OBVIOUS
  <2>3. LengthOf(m, body) = [i \in 1 .. Block |-> IF i > Block - LengthField THEN LengthByte(i, T) ELSE F(i)]
    BY DEF LengthOf
  <2>4. ASSUME NEW i \in 1 .. Block, k + 1 # blocks(m) PROVE F(i) = P(i)
    <3>1. T >= K
      BY <1>1, <1>2, <2>4
    <3> HIDE DEF K, c, n, T
    <3>2. c.position = K /\ ~c.paddingWritten
      <4>1. ~(T < K)
        BY <3>1, <1>2 DEF T
      <4> QED BY <4>1, <1>4
    <3>3. n = IF Block <= T - K THEN Block ELSE T - K
      BY <3>1, <1>2, <1>5 DEF T
    <3> QED BY <2>4, <3>1, <3>2, <3>3, <1>1, <1>2 DEF T, Constants
  <2>5. ASSUME NEW i \in 1 .. Block, k + 1 = blocks(m)
        PROVE  (IF i > Block - LengthField THEN LengthByte(i, T) ELSE F(i)) = P(i)
    <3> HIDE DEF K, c, n, T
    <3>1. T \in Nat /\ K \in Nat /\ i \in Nat /\ i >= 1 /\ i <= Block
      BY <1>1, <1>2 DEF T, Constants
    <3>2. CASE T < K
      <4>1. n = 0 /\ c.paddingWritten
        BY <3>2, <1>4, <1>5
      <4>2. F(i) = ZeroByte
        BY <4>1, <3>1
      <4> QED BY <4>2, <3>1, <3>2, <2>5
    <3>3. CASE ~(T < K)
      <4>1. T - K < Block - LengthField
        BY <1>2, <2>5, <3>1, <3>3
      <4>2. c.position = K /\ ~c.paddingWritten
        BY <3>3, <1>4
      <4>3. n = T - K
        BY <4>1, <3>1, <3>3, <1>1, <1>5 DEF Constants
      <4> QED BY <4>1, <4>2, <4>3, <3>1, <3>3, <2>5, <1>1 DEF Constants
    <3> QED BY <3>2, <3>3
  <2> HIDE DEF P, F, body
  <2> QED BY <2>1, <2>2, <2>3, <2>4, <2>5
<1> HIDE DEF fed
<1> QED BY <1>3, <1>6, <1>7

\* A block taken in place is the same block.
LEMMA DirectNext ==
  ASSUME NEW m, batch[m] \in Seq(Nat), blockIndex \in Nat, blockIndex < blocks(m),
         takeDirectBlock(m, CursorAfter(m, blockIndex))
  PROVE  DirectBlock(m, CursorAfter(m, blockIndex)) =
           [block |-> PaddedBlock(m, blockIndex + 1), cursor |-> CursorAfter(m, blockIndex + 1)]
<1> DEFINE k == blockIndex
           K == k * Block
           T == Total(m)
           c == CursorAfter(m, k)
           e == SegmentEnd(m, c.position)
<1>1. Constants /\ T \in Nat
  BY ConstantsHold, EndsAreNaturals
<1>2. K \in Nat /\ (k + 1) * Block = K + Block /\ (k + 1) - 1 = k
  BY <1>1, BlockStart
<1>3. /\ c.position = IF T < K THEN T ELSE K
      /\ c.paddingWritten = (T < K)
      /\ c.position \in Nat
  <2> HIDE DEF K, T
  <2>1. c = [position |-> IF T < K THEN T ELSE K, paddingWritten |-> T < K]
    BY DEF CursorAfter, K, T
  <2> HIDE DEF c
  <2> QED BY <2>1, <1>1, <1>2
<1>4. e \in Nat /\ e <= T /\ e - c.position >= Block
  <2>1. e - c.position >= Block
    BY DEF takeDirectBlock
  <2> HIDE DEF c
  <2> QED BY <2>1, <1>3, DirectWithin
<1>5. c = [position |-> K, paddingWritten |-> FALSE] /\ T >= K + Block
  <2> HIDE DEF K, T, e
  <2>1. T >= K + Block
    <3> HIDE DEF c
    <3> QED BY <1>1, <1>2, <1>3, <1>4 DEF Constants
  <2>2. (T < K) = FALSE
    BY <2>1, <1>1, <1>2 DEF Constants
  <2>3. c = [position |-> IF T < K THEN T ELSE K, paddingWritten |-> T < K]
    BY DEF CursorAfter, K, T
  <2> QED BY <2>1, <2>2, <2>3
<1>6. CursorAfter(m, k + 1) = [position |-> K + Block, paddingWritten |-> FALSE]
  <2>1. CursorAfter(m, k + 1) = [position |-> IF T < K + Block THEN T ELSE K + Block, paddingWritten |-> T < K + Block]
    BY <1>2 DEF CursorAfter
  <2> HIDE DEF K, T, c
  <2>2. (T < K + Block) = FALSE
    BY <1>1, <1>2, <1>5 DEF Constants
  <2> QED BY <2>1, <2>2
<1>7. PaddedBlock(m, k + 1) = [i \in 1 .. Block |-> Byte(m, K + i)]
  <2> DEFINE P(i) == IF K + i <= T THEN Byte(m, K + i)
                     ELSE IF K + i = T + 1 THEN Pad
                     ELSE IF k + 1 = blocks(m) /\ i > Block - LengthField THEN LengthByte(i, T)
                     ELSE ZeroByte
  <2>1. PaddedBlock(m, k + 1) = [i \in 1 .. Block |-> P(i)]
    BY <1>2 DEF PaddedBlock
  <2>2. \A i \in 1 .. Block : P(i) = Byte(m, K + i)
    <3> HIDE DEF K, T, c
    <3> QED BY <1>1, <1>2, <1>5 DEF Constants
  <2> HIDE DEF P
  <2> QED BY <2>1, <2>2
<1>8. DirectBlock(m, c) = [block |-> [i \in 1 .. Block |-> Byte(m, K + i)],
                           cursor |-> [position |-> K + Block, paddingWritten |-> FALSE]]
  <2> DEFINE off == FALSE
  <2>1. c = [position |-> K, paddingWritten |-> off]
    BY <1>5
  <2> HIDE DEF c, K, off
  <2>2. [c EXCEPT !.position = c.position + Block] = [position |-> K + Block, paddingWritten |-> off]
    BY <2>1
  <2>3. c.position = K
    BY <2>1
  <2> QED BY <2>2, <2>3 DEF DirectBlock, off
<1> QED BY <1>6, <1>7, <1>8

-----------------------------------------------------------------------------
\* States.

\* One element and a sequence.
LEMMA ConcatOne ==
  ASSUME NEW e, NEW n \in Nat, NEW f, f = [i \in 1 .. n |-> f[i]]
  PROVE  <<e>> \o f = [j \in 1 .. n + 1 |-> IF j = 1 THEN e ELSE f[j - 1]]
<1> DEFINE T == {f[i] : i \in 1 .. n} \cup {e}
           g == [j \in 1 .. n + 1 |-> IF j = 1 THEN e ELSE f[j - 1]]
<1>1. f \in Seq(T) /\ Len(f) = n
  <2>1. f \in [1 .. n -> T]
    OBVIOUS
  <2> HIDE DEF T
  <2> QED BY <2>1
<1>2. <<e>> \in Seq(T) /\ Len(<<e>>) = 1 /\ <<e>>[1] = e
  OBVIOUS
<1> HIDE DEF T
<1> DEFINE h == <<e>> \o f
<1>3. h = [j \in 1 .. 1 + n |-> IF j <= 1 THEN <<e>>[j] ELSE f[j - 1]]
  BY <1>1, <1>2
<1>4. \A j \in 1 .. 1 + n : (IF j <= 1 THEN <<e>>[j] ELSE f[j - 1]) = IF j = 1 THEN e ELSE f[j - 1]
  BY <1>2
<1>5. 1 .. 1 + n = 1 .. n + 1
  OBVIOUS
<1> HIDE DEF h
<1> QED BY <1>3, <1>4, <1>5 DEF h

\* Compressing the next block.
LEMMA PrefixNext ==
  ASSUME NEW m, NEW k \in Nat
  PROVE  /\ Append(Prefix(m, k), PaddedBlock(m, k + 1)) = Prefix(m, k + 1)
         /\ <<"iv", PaddedBlock(m, 1)>> = Prefix(m, 1)
         /\ <<"iv">> = Prefix(m, 0)
         /\ Prefix(m, k) # <<>>
<1> DEFINE f == Prefix(m, k)
           e == PaddedBlock(m, k + 1)
           a == Append(f, e)
<1>1. IsArray(f) /\ Len(f) = k + 1
  <2>1. f = [j \in 1 .. k + 1 |-> f[j]] /\ k + 1 \in Nat
    BY DEF Prefix
  <2> HIDE DEF f
  <2> QED BY <2>1, ArrayLength
<1>2. IsArray(a) /\ Len(a) = k + 2 /\ (\A j \in 1 .. k + 1 : a[j] = f[j]) /\ a[k + 2] = e
  <2> HIDE DEF f, e
  <2>1. (k + 1) + 1 = k + 2
    OBVIOUS
  <2> QED BY <1>1, <2>1, ArrayAppend
<1>3. \A j \in 1 .. k + 2 : a[j] = IF j = 1 THEN "iv" ELSE PaddedBlock(m, j - 1)
  <2>1. ASSUME NEW j \in 1 .. k + 1 PROVE a[j] = IF j = 1 THEN "iv" ELSE PaddedBlock(m, j - 1)
    BY <1>2 DEF Prefix
  <2>2. a[k + 2] = PaddedBlock(m, (k + 2) - 1) /\ k + 2 # 1
    BY <1>2
  <2> HIDE DEF a
  <2>3. \A j \in 1 .. k + 2 : j \in 1 .. k + 1 \/ j = k + 2
    OBVIOUS
  <2> QED BY <2>1, <2>2, <2>3
<1>4. a = Prefix(m, k + 1)
  <2> HIDE DEF a
  <2>1. a = [j \in 1 .. k + 2 |-> a[j]]
    BY <1>2 DEF IsArray
  <2>2. (k + 1) + 1 = k + 2
    OBVIOUS
  <2> QED BY <2>1, <2>2, <1>3 DEF Prefix
<1>5. <<"iv", PaddedBlock(m, 1)>> = Prefix(m, 1)
  <2>1. Prefix(m, 1) = [j \in 1 .. 2 |-> IF j = 1 THEN "iv" ELSE PaddedBlock(m, j - 1)]
    BY DEF Prefix
  <2> DEFINE x == PaddedBlock(m, 1)
  <2>2. \A j \in 1 .. 2 : (IF j = 1 THEN "iv" ELSE PaddedBlock(m, j - 1)) = IF j = 1 THEN "iv" ELSE x
    <3>1. \A j \in 1 .. 2 : j # 1 => j - 1 = 1
      OBVIOUS
    <3> QED BY <3>1
  <2> HIDE DEF x
  <2>3. <<"iv", x>> = [j \in 1 .. 2 |-> IF j = 1 THEN "iv" ELSE x]
    OBVIOUS
  <2> QED BY <2>1, <2>2, <2>3 DEF x
<1>6. <<"iv">> = Prefix(m, 0)
  BY DEF Prefix
<1>7. f # <<>>
  <2>1. Len(<<>>) = 0
    OBVIOUS
  <2> QED BY <1>1, <2>1
<1> QED BY <1>4, <1>5, <1>6, <1>7

\* The reference digest is the state after the last block.
LEMMA ReferenceIsLast ==
  ASSUME NEW m, Total(m) \in Nat
  PROVE  Reference(m) = Prefix(m, blocks(m)) /\ Reference(m) # Stale
<1> DEFINE n == blocks(m)
           T == Total(m)
           least == Min({k \in 1 .. T + 2 : k * Block >= T + 1 + LengthField})
           Padded(p) == IF p <= T THEN Byte(m, p)
                        ELSE IF p = T + 1 THEN Pad
                        ELSE IF p > n * Block - LengthField THEN LengthByte(p - (n - 1) * Block, T)
                        ELSE ZeroByte
           padded == [p \in 1 .. n * Block |-> Padded(p)]
           f == [b \in 1 .. n |-> [i \in 1 .. Block |-> padded[(b - 1) * Block + i]]]
<1>1. n \in Nat /\ n >= 1 /\ least = n /\ Constants
  BY BlocksAreLeast, ConstantsHold
<1>2. Reference(m) = <<"iv">> \o f
  <2> DEFINE padded2 == [p \in 1 .. least * Block |->
                           IF p <= Total(m) THEN Byte(m, p)
                           ELSE IF p = Total(m) + 1 THEN Pad
                           ELSE IF p > least * Block - LengthField THEN LengthByte(p - (least - 1) * Block, Total(m))
                           ELSE ZeroByte]
  <2>1. Reference(m) = <<"iv">> \o [b \in 1 .. least |-> [i \in 1 .. Block |-> padded2[(b - 1) * Block + i]]]
    BY DEF Reference
  <2>2. padded2 = padded
    <3> HIDE DEF n, least
    <3> QED BY <1>1
  <2> HIDE DEF padded2, padded, least, n
  <2> QED BY <1>1, <2>1, <2>2
<1>3. ASSUME NEW b \in 1 .. n PROVE f[b] = PaddedBlock(m, b)
  <2>1. ASSUME NEW i \in 1 .. Block
        PROVE  padded[(b - 1) * Block + i] =
                 IF (b - 1) * Block + i <= Total(m) THEN Byte(m, (b - 1) * Block + i)
                 ELSE IF (b - 1) * Block + i = Total(m) + 1 THEN Pad
                 ELSE IF b = blocks(m) /\ i > Block - LengthField THEN LengthByte(i, Total(m))
                 ELSE ZeroByte
    <3> DEFINE p == (b - 1) * Block + i
               N == n * Block
               M == (n - 1) * Block
               A == (b - 1) * Block
    <3>0. n - 1 \in Nat /\ b - 1 \in Nat /\ b - 1 <= n - 1
      <4> HIDE DEF n
      <4> QED BY <1>1
    <3>1. N = M + Block /\ M \in Nat
      <4> HIDE DEF n
      <4> QED BY <1>1, <3>0 DEF Constants
    <3>2. A \in Nat /\ A <= M
      <4> DEFINE x == b - 1  y == n - 1
      <4> HIDE DEF x, y, n
      <4>1. x \in Nat /\ y \in Nat /\ x <= y /\ Block \in Nat
        BY <1>1, <3>0 DEF x, y, Constants
      <4>2. x * Block <= y * Block /\ x * Block \in Nat
        BY <4>1, MulMono
      <4> QED BY <4>2 DEF x, y
    <3>3. b # n => A + Block <= M
      <4> DEFINE y == n - 1
      <4>1. SUFFICES ASSUME b # n PROVE A + Block <= M
        OBVIOUS
      <4>2. b \in Nat /\ b <= y /\ y \in Nat
        <5> HIDE DEF n
        <5> QED BY <1>1, <4>1
      <4> HIDE DEF y
      <4>3. b * Block <= y * Block
        BY <4>2, <1>1, MulMono DEF Constants
      <4>4. b * Block = A + Block
        BY <4>2, <1>1 DEF Constants
      <4> QED BY <4>3, <4>4 DEF y
    <3> HIDE DEF N, M, A
    <3>4. p = A + i /\ p \in Nat /\ p >= 1 /\ p <= N
      BY <3>1, <3>2, <1>1 DEF A, Constants
    <3>5. padded[p] = Padded(p)
      <4> HIDE DEF p, Padded
      <4>1. p \in 1 .. n * Block
        <5> HIDE DEF n
        <5> QED BY <3>4, <3>1, <1>1 DEF N, Constants
      <4> QED BY <4>1
    <3>6. b = n /\ i > Block - LengthField <=> p > N - LengthField
      <4>1. N \in Nat /\ M \in Nat /\ A \in Nat /\ i \in Nat /\ i >= 1 /\ i <= Block
        BY <3>1, <3>2, <1>1 DEF Constants
      <4>2. CASE b = n
        <5>1. A = M
          BY <4>2 DEF A, M
        <5> QED BY <4>1, <4>2, <5>1, <3>1, <3>4, <1>1 DEF Constants
      <4>3. CASE b # n
        BY <4>1, <4>3, <3>1, <3>3, <3>4, <1>1 DEF Constants
      <4> QED BY <4>2, <4>3
    <3>7. b = n => p - M = i
      <4>1. b = n => A = M
        BY DEF A, M
      <4> QED BY <4>1, <3>1, <3>2, <3>4
    <3>8. Padded(p) = IF p <= T THEN Byte(m, p)
                      ELSE IF p = T + 1 THEN Pad
                      ELSE IF b = n /\ i > Block - LengthField THEN LengthByte(i, T)
                      ELSE ZeroByte
      <4>1. Padded(p) = IF p <= T THEN Byte(m, p)
                        ELSE IF p = T + 1 THEN Pad
                        ELSE IF p > N - LengthField THEN LengthByte(p - M, T)
                        ELSE ZeroByte
        BY DEF N, M
      <4> HIDE DEF Padded, p, T, n
      <4> QED BY <4>1, <3>6, <3>7
    <3> QED BY <3>5, <3>8
  <2>2. f[b] = [i \in 1 .. Block |-> padded[(b - 1) * Block + i]]
    <3> HIDE DEF padded, n
    <3> QED OBVIOUS
  <2> HIDE DEF f, padded
  <2> QED BY <2>1, <2>2 DEF PaddedBlock
<1>4. Reference(m) = [j \in 1 .. n + 1 |-> IF j = 1 THEN "iv" ELSE f[j - 1]]
  <2>1. f = [b \in 1 .. n |-> f[b]]
    OBVIOUS
  <2> HIDE DEF f, n
  <2> QED BY <1>1, <1>2, <2>1, ConcatOne
<1>5. Reference(m) = Prefix(m, n)
  <2>1. \A j \in 1 .. n + 1 : j # 1 => j - 1 \in 1 .. n
    <3> HIDE DEF n
    <3> QED BY <1>1
  <2> HIDE DEF f, n
  <2> QED BY <1>3, <1>4, <2>1 DEF Prefix
<1>6. Reference(m) # Stale
  <2> HIDE DEF n
  <2> QED BY <1>1, <1>5, PrefixNext DEF Stale
<1> QED BY <1>5, <1>6

\* The fixed path gives the same digest for its shapes.
LEMMA FixedIsReference ==
  ASSUME NEW m, NEW size \in FixedSizes, batch[m] = <<Half, Half, size>>
  PROVE  Fixed3Digest(m) = Reference(m) /\ Total(m) \in Nat
<1> DEFINE middle == (size - 2 * Half) \div Block
           tailBytes == (size - 2 * Half) % Block
           T == Total(m)
           M == (middle + 1) * Block
           Padding(i) == IF i <= tailBytes THEN Byte(m, 2 * Half + size - tailBytes + i)
                      ELSE IF i = tailBytes + 1 THEN Pad ELSE ZeroByte
           tail == [i \in 1 .. Block |-> Padding(i)]
           front == [b \in 1 .. middle + 1 |-> [i \in 1 .. Block |-> Byte(m, (b - 1) * Block + i)]]
<1>1. /\ Constants /\ size \in Nat /\ size >= 2 * Half /\ Half \in Nat
      /\ tailBytes < Block - LengthField
  BY ConstantsHold, MultiHashAssumption DEF Constants
<1>2. T = 2 * Half + size /\ T \in Nat
  <2>1. batch[m] \in Seq(Nat) /\ Len(batch[m]) = 3
        /\ batch[m][1] = Half /\ batch[m][2] = Half /\ batch[m][3] = size
    BY <1>1
  <2> DEFINE E == SegmentEnds(m)
  <2>2. E[0] = 0 /\ \A p \in 1 .. 3 : E[p] = E[p - 1] + batch[m][p]
    BY <2>1, EndsAreNaturals
  <2>3. T = E[3]
    BY <2>1 DEF Total
  <2> HIDE DEF E
  <2>4. E[1] = E[0] + batch[m][1] /\ E[2] = E[1] + batch[m][2] /\ E[3] = E[2] + batch[m][3]
    <3>1. 1 \in 1 .. 3 /\ 2 \in 1 .. 3 /\ 3 \in 1 .. 3 /\ 1 - 1 = 0 /\ 2 - 1 = 1 /\ 3 - 1 = 2
      OBVIOUS
    <3> QED BY <2>2, <3>1
  <2> QED BY <2>1, <2>2, <2>3, <2>4, <1>1
<1>3. middle \in Nat /\ tailBytes \in 0 .. Block - 1 /\ size - 2 * Half = middle * Block + tailBytes
  <2> DEFINE rest == size - 2 * Half
  <2>1. rest \in Nat /\ Block \in Nat \ {0}
    BY <1>1 DEF Constants
  <2> HIDE DEF rest
  <2>2. rest \div Block \in Nat /\ rest % Block \in 0 .. Block - 1 /\ rest = (rest \div Block) * Block + (rest % Block)
    BY <2>1, DivMod
  <2> QED BY <2>2 DEF rest
<1> HIDE DEF middle, tailBytes
<1>4. M \in Nat /\ T = M + tailBytes
  <2>1. M = middle * Block + Block
    BY <1>1, <1>3 DEF Constants
  <2> HIDE DEF M, T
  <2>2. middle * Block \in Nat
    BY <1>1, <1>3 DEF Constants
  <2> QED BY <2>1, <2>2, <1>1, <1>2, <1>3 DEF Constants
<1>5. blocks(m) = middle + 2
  <2>1. T \div Block = middle + 1 /\ T % Block = tailBytes
    <3>1. middle + 1 \in Nat /\ Block \in Nat \ {0}
      BY <1>1, <1>3 DEF Constants
    <3> DEFINE q == middle + 1
    <3>2. q \in Nat /\ T = q * Block + tailBytes
      BY <3>1, <1>4
    <3> HIDE DEF T, q
    <3>3. T \div Block = q /\ T % Block = tailBytes
      BY SMTT(30), <3>1, <3>2, <1>2, <1>3, DivUnique
    <3> QED BY <3>3 DEF q
  <2> HIDE DEF T
  <2>2. blocks(m) = (T \div Block) + (IF T % Block >= Block - LengthField THEN 2 ELSE 1)
    BY DEF blocks, T
  <2>3. ~(tailBytes >= Block - LengthField)
    BY <1>1, <1>3 DEF Constants
  <2> QED BY <2>1, <2>2, <2>3, <1>3
<1>6. ASSUME NEW b \in 1 .. middle + 1 PROVE front[b] = PaddedBlock(m, b)
  <2>1. ASSUME NEW i \in 1 .. Block PROVE (b - 1) * Block + i <= T
    <3>1. b * Block <= M
      <4> DEFINE x == middle + 1
      <4>1. x \in Nat /\ b \in Nat /\ b <= x /\ Block \in Nat
        BY <1>1, <1>3 DEF Constants
      <4> HIDE DEF x
      <4>2. b * Block <= x * Block
        BY <4>1, MulMono
      <4> QED BY <4>2 DEF x
    <3>2. b * Block = (b - 1) * Block + Block /\ (b - 1) * Block \in Nat
      BY <1>1, <1>3 DEF Constants
    <3> HIDE DEF M, T
    <3>3. (b - 1) * Block + i <= M
      BY <3>1, <3>2, <1>1, <1>4 DEF Constants
    <3> QED BY <3>2, <3>3, <1>1, <1>2, <1>3, <1>4
  <2>2. front[b] = [i \in 1 .. Block |-> Byte(m, (b - 1) * Block + i)]
    OBVIOUS
  <2> HIDE DEF front
  <2> QED BY <2>1, <2>2 DEF PaddedBlock
<1>7. LengthOf(m, tail) = PaddedBlock(m, middle + 2)
  <2> DEFINE P(i) == IF M + i <= T THEN Byte(m, M + i)
                     ELSE IF M + i = T + 1 THEN Pad
                     ELSE IF middle + 2 = blocks(m) /\ i > Block - LengthField THEN LengthByte(i, T)
                     ELSE ZeroByte
  <2>1. PaddedBlock(m, middle + 2) = [i \in 1 .. Block |-> P(i)]
    <3>1. (middle + 2) - 1 = middle + 1
      BY <1>3
    <3> QED BY <3>1 DEF PaddedBlock
  <2>2. LengthOf(m, tail) = [i \in 1 .. Block |-> IF i > Block - LengthField THEN LengthByte(i, T) ELSE Padding(i)]
    BY DEF LengthOf
  <2>3. ASSUME NEW i \in 1 .. Block
        PROVE  (IF i > Block - LengthField THEN LengthByte(i, T) ELSE Padding(i)) = P(i)
    <3>1. 2 * Half + size - tailBytes = M
      <4> HIDE DEF M, T
      <4> QED BY <1>1, <1>2, <1>3, <1>4
    <3>2. Padding(i) = IF i <= tailBytes THEN Byte(m, M + i) ELSE IF i = tailBytes + 1 THEN Pad ELSE ZeroByte
      BY <3>1
    <3>3. /\ M + i <= T <=> i <= tailBytes
          /\ M + i = T + 1 <=> i = tailBytes + 1
          /\ i > Block - LengthField => ~(i <= tailBytes) /\ i # tailBytes + 1
      <4> HIDE DEF M, T, Padding
      <4> QED BY <1>1, <1>2, <1>3, <1>4 DEF Constants
    <3> HIDE DEF M, T, Padding
    <3> QED BY <3>2, <3>3, <1>5
  <2> HIDE DEF P, tail, Padding
  <2> QED BY <2>1, <2>2, <2>3
<1>8. <<"iv">> \o front = Prefix(m, middle + 1)
  <2>1. front = [b \in 1 .. middle + 1 |-> front[b]] /\ middle + 1 \in Nat
    BY <1>3
  <2> HIDE DEF front
  <2>2. <<"iv">> \o front = [j \in 1 .. (middle + 1) + 1 |-> IF j = 1 THEN "iv" ELSE front[j - 1]]
    BY <2>1, ConcatOne
  <2>3. \A j \in 1 .. (middle + 1) + 1 : j # 1 => j - 1 \in 1 .. middle + 1
    BY <2>1
  <2> QED BY <2>2, <2>3, <1>6 DEF Prefix
<1>9. Fixed3Digest(m) = Prefix(m, middle + 1) \o <<LengthOf(m, tail)>>
  <2>1. Fixed3Digest(m) = <<"iv">> \o front \o <<LengthOf(m, tail)>>
    <3> DEFINE Padded(n) ==
                 LET mid == (n - 2 * Half) \div Block
                     tb == (n - 2 * Half) % Block
                     tl == [i \in 1 .. Block |-> IF i <= tb THEN Byte(m, 2 * Half + n - tb + i)
                                                ELSE IF i = tb + 1 THEN Pad ELSE ZeroByte]
                 IN <<"iv">> \o [b \in 1 .. mid + 1 |-> [i \in 1 .. Block |-> Byte(m, (b - 1) * Block + i)]]
                    \o <<LengthOf(m, tl)>>
    <3>1. Fixed3Digest(m) = Padded(batch[m][3])
      BY DEF Fixed3Digest
    <3>2. Padded(size) = <<"iv">> \o front \o <<LengthOf(m, tail)>>
      BY DEF middle, tailBytes
    <3>3. batch[m][3] = size
      OBVIOUS
    <3> HIDE DEF Padded
    <3> QED BY <3>1, <3>2, <3>3
  <2> HIDE DEF front, tail
  <2> QED BY <2>1, <1>8
<1>10. Fixed3Digest(m) = Prefix(m, middle + 2)
  <2> DEFINE f == Prefix(m, middle + 1)
             e == PaddedBlock(m, middle + 2)
  <2>1. f \in Seq({f[j] : j \in 1 .. (middle + 1) + 1})
    <3>1. f = [j \in 1 .. (middle + 1) + 1 |-> f[j]] /\ (middle + 1) + 1 \in Nat
      BY <1>3 DEF Prefix
    <3> HIDE DEF f
    <3> QED BY <3>1, ArrayLength
  <2>2. f \o <<e>> = Append(f, e)
    <3> DEFINE All == {f[j] : j \in 1 .. (middle + 1) + 1} \cup {e}
    <3>1. f \in Seq(All) /\ e \in All
      <4> DEFINE Own == {f[j] : j \in 1 .. (middle + 1) + 1}
      <4>1. f \in Seq(Own) /\ Own \subseteq All /\ e \in All
        BY <2>1
      <4> HIDE DEF Own, All, f, e
      <4> QED BY <4>1
    <3> HIDE DEF All, f, e
    <3> QED BY <3>1
  <2>3. (middle + 1) + 1 = middle + 2 /\ middle + 1 \in Nat
    BY <1>3
  <2>4. Append(f, e) = Prefix(m, middle + 2)
    <3> DEFINE k == middle + 1
    <3>1. k \in Nat /\ k + 1 = middle + 2
      BY <2>3
    <3> HIDE DEF k
    <3>2. Append(Prefix(m, k), PaddedBlock(m, k + 1)) = Prefix(m, k + 1)
      BY <3>1, PrefixNext
    <3> QED BY <3>1, <3>2 DEF k
  <2> HIDE DEF f, e, tail
  <2> QED BY <1>7, <1>9, <2>2, <2>4 DEF f, e
<1> QED BY <1>2, <1>5, <1>10, ReferenceIsLast

-----------------------------------------------------------------------------
\* The lanes of a group.

\* A call: its messages, and where its groups have come to.
CallTyped ==
  /\ batch \in Seq(Seq(Nat)) /\ kind \in Kinds /\ available \in BOOLEAN /\ first \in Nat
  /\ step \in {"group", "block", "done"}
  /\ out = [m \in 1 .. Len(batch) |-> out[m]]

\* The lanes of a group are its messages, no more than the call has.
LEMMA LanesOfGroup ==
  ASSUME CallTyped, first < Len(batch)
  PROVE  /\ width(kind) \in Nat \ {0} /\ Len(batch) \in Nat
         /\ \A i \in Lanes : i \in 1 .. width(kind) /\ first + i \in 1 .. Len(batch)
         /\ \A m \in 1 .. Len(batch) : m > first /\ m <= first + width(kind) <=> m - first \in Lanes
         /\ 1 \in Lanes
         /\ \A m \in 1 .. Len(batch) : batch[m] \in Seq(Nat) /\ Total(m) \in Nat
<1>1. width(kind) \in Nat \ {0} /\ Len(batch) \in Nat
  BY MultiHashAssumption DEF CallTyped, width
<1>2. \A m \in 1 .. Len(batch) : batch[m] \in Seq(Nat)
  BY DEF CallTyped
<1>3. \A m \in 1 .. Len(batch) : Total(m) \in Nat
  BY <1>2, EndsAreNaturals
<1> DEFINE w == width(kind)
           l == Len(batch) - first
<1>4. l \in Nat /\ l >= 1 /\ first \in Nat
  BY <1>1 DEF CallTyped
<1> DEFINE n == Min({w, l})
<1>5. Lanes = 1 .. n
  BY DEF Lanes
<1>6. n = IF w <= l THEN w ELSE l
  <2> HIDE DEF w, l
  <2> QED BY <1>1, <1>4, MinOfTwo DEF w
<1> HIDE DEF n
<1> QED BY <1>1, <1>2, <1>3, <1>4, <1>5, <1>6

\* The longest lane bounds all of them.
LEMMA MaxBounds ==
  ASSUME CallTyped, first < Len(batch)
  PROVE  \A i \in Lanes : blocks(first + i) \in Nat /\ blocks(first + i) <= maxBlocks /\ maxBlocks \in Nat
<1> DEFINE n == Min({width(kind), Len(batch) - first})
           F(i) == blocks(first + i)
           S == {k \in Nat : k >= 1 /\ k <= n => \E x \in {F(i) : i \in 1 .. k} : \A y \in {F(i) : i \in 1 .. k} : x >= y}
<1>1. Lanes = 1 .. n
  BY DEF Lanes
<1>2. n \in Nat /\ n >= 1
  <2>1. width(kind) \in Nat \ {0} /\ Len(batch) - first \in Nat \ {0}
    BY LanesOfGroup DEF CallTyped
  <2> DEFINE x == width(kind)  y == Len(batch) - first
  <2>2. n = Min({x, y}) /\ x \in Nat /\ y \in Nat /\ x >= 1 /\ y >= 1
    BY <2>1
  <2> HIDE DEF x, y, n
  <2>3. n = IF x <= y THEN x ELSE y
    BY <2>2, MinOfTwo
  <2> QED BY <2>2, <2>3
<1> HIDE DEF n
<1>3. \A i \in 1 .. n : F(i) \in Nat
  <2>1. \A i \in 1 .. n : Total(first + i) \in Nat
    BY <1>1, LanesOfGroup
  <2> QED BY <2>1, BlocksAreLeast
<1> HIDE DEF F
<1>4. 0 \in S
  OBVIOUS
<1>5. ASSUME NEW k \in Nat, k \in S PROVE k + 1 \in S
  <2> DEFINE Upto(j) == {F(i) : i \in 1 .. j}
  <2>1. SUFFICES ASSUME k + 1 <= n PROVE \E x \in Upto(k + 1) : \A y \in Upto(k + 1) : x >= y
    OBVIOUS
  <2>2. Upto(k + 1) = Upto(k) \cup {F(k + 1)}
    <3>1. \A i : i \in 1 .. k + 1 <=> i \in 1 .. k \/ i = k + 1
      OBVIOUS
    <3> QED BY <3>1
  <2>3. F(k + 1) \in Nat /\ \A y \in Upto(k) : y \in Nat
    BY <2>1, <1>3, <1>2
  <2>4. CASE k = 0
    <3>1. Upto(k) = {}
      BY <2>4
    <3>2. Upto(k + 1) = {F(k + 1)}
      <4> HIDE DEF Upto
      <4> QED BY <3>1, <2>2
    <3> HIDE DEF Upto
    <3>3. F(k + 1) \in Upto(k + 1) /\ \A y \in Upto(k + 1) : F(k + 1) >= y
      BY <3>2, <2>3
    <3> QED BY <3>3
  <2>5. CASE k >= 1
    <3>1. PICK x \in Upto(k) : \A y \in Upto(k) : x >= y
      BY <1>5, <2>1, <2>5, <1>2
    <3>2. CASE x >= F(k + 1)
      <4>1. \A y \in Upto(k + 1) : x >= y
        <5> HIDE DEF Upto
        <5> QED BY <3>1, <3>2, <2>2, <2>3
      <4>2. x \in Upto(k + 1)
        <5> HIDE DEF Upto
        <5> QED BY <2>2
      <4> QED BY <4>1, <4>2
    <3>3. CASE ~(x >= F(k + 1))
      <4>1. x \in Nat
        BY <2>3
      <4>2. \A y \in Upto(k + 1) : F(k + 1) >= y
        <5> HIDE DEF Upto
        <5>1. \A y \in Upto(k) : F(k + 1) >= y
          BY <4>1, <3>1, <3>3, <2>3
        <5> QED BY <5>1, <2>2, <2>3
      <4> QED BY <4>2, <2>2
    <3> QED BY <3>2, <3>3
  <2> QED BY <2>4, <2>5
<1>6. n \in S
  <2> HIDE DEF S
  <2> QED BY <1>2, <1>4, <1>5, SetInduction
<1> DEFINE All == {F(i) : i \in 1 .. n}
<1>7. \E x \in All : \A y \in All : x >= y
  BY <1>2, <1>6
<1>8. maxBlocks = Max(All)
  BY <1>1 DEF maxBlocks, F, Message
<1>9. \A i \in 1 .. n : F(i) \in All
  OBVIOUS
<1>10. \A x \in All : x \in Nat
  BY <1>3
<1> HIDE DEF All
<1>11. Max(All) \in All /\ \A y \in All : Max(All) >= y
  BY <1>7 DEF Max
<1>12. \A i \in 1 .. n : F(i) \in Nat /\ F(i) <= maxBlocks /\ maxBlocks \in Nat
  BY <1>3, <1>8, <1>9, <1>10, <1>11
<1> QED BY <1>1, <1>12 DEF F

-----------------------------------------------------------------------------
\* The invariant.

\* Before a group, or within it, the digests of the earlier groups are
\* delivered and the later entries untouched; in the end all are delivered.
GroupsInOrder ==
  /\ step # "done" =>
       /\ available /\ first < Len(batch)
       /\ \A m \in 1 .. Len(batch) : /\ m <= first => out[m] = Reference(m)
                                     /\ m > first + width(kind) => out[m] = Stale
  /\ step = "group" => \A m \in 1 .. Len(batch) : m > first => out[m] = Stale
  /\ step = "done" => \A m \in 1 .. Len(batch) : out[m] = IF available THEN Reference(m) ELSE Stale

\* Within a group each lane has been fed the first blocks of its own padded
\* message, until its digest is delivered.
LanesInStep ==
  step = "block" =>
    /\ blockIndex \in Nat
    /\ \A i \in Lanes :
         /\ out[first + i] = IF blockIndex >= blocks(first + i) THEN Reference(first + i) ELSE Stale
         /\ blockIndex < blocks(first + i) =>
              /\ lane[i] = CursorAfter(first + i, blockIndex)
              /\ state[i] = IF blockIndex = 0 THEN InitialState ELSE Prefix(first + i, blockIndex)

\* The inductive invariant.
HashInv == CallTyped /\ GroupsInOrder /\ LanesInStep

\* It says that every digest is exact.
LEMMA InvGivesExact ==
  ASSUME HashInv
  PROVE  DigestExact
<1>1. /\ Len(batch) \in Nat /\ DOMAIN batch = 1 .. Len(batch)
      /\ \A m \in 1 .. Len(batch) : batch[m] \in Seq(Nat)
  BY DEF HashInv, CallTyped
<1>2. \A m \in 1 .. Len(batch) : Reference(m) # Stale
  BY <1>1, EndsAreNaturals, ReferenceIsLast
<1>3. DigestsOwn
  <2>1. ASSUME NEW m \in 1 .. Len(batch) PROVE out[m] = Stale \/ out[m] = Reference(m)
    <3>1. CASE step = "done"
      BY <3>1 DEF HashInv, GroupsInOrder
    <3>2. CASE step = "group"
      <4>1. m <= first \/ m > first
        BY <1>1 DEF HashInv, CallTyped
      <4> QED BY <4>1, <3>2 DEF HashInv, GroupsInOrder
    <3>3. CASE step = "block"
      <4>1. CallTyped /\ first < Len(batch)
        BY <3>3 DEF HashInv, GroupsInOrder
      <4>2. m <= first \/ m > first + width(kind) \/ m - first \in Lanes
        <5>1. first \in Nat /\ width(kind) \in Nat
          BY <4>1, LanesOfGroup DEF CallTyped
        <5>2. m > first /\ m <= first + width(kind) => m - first \in Lanes
          BY <4>1, LanesOfGroup
        <5> QED BY <5>1, <5>2
      <4>3. ASSUME m - first \in Lanes PROVE out[m] = Stale \/ out[m] = Reference(m)
        <5> DEFINE i == m - first
        <5>1. i \in Lanes /\ first + i = m
          BY <4>1, <4>3 DEF CallTyped
        <5> HIDE DEF i
        <5> QED BY <5>1, <3>3 DEF HashInv, LanesInStep
      <4> QED BY <4>2, <4>3, <3>3 DEF HashInv, GroupsInOrder
    <3> QED BY <3>1, <3>2, <3>3 DEF HashInv, CallTyped
  <2> QED BY <1>1, <2>1 DEF DigestsOwn
<1>4. AllDelivered
  <2>1. ASSUME step = "done", NEW m \in 1 .. Len(batch) PROVE (out[m] # Stale) <=> available
    BY <2>1, <1>2 DEF HashInv, GroupsInOrder
  <2> QED BY <1>1, <2>1 DEF AllDelivered
<1> QED BY <1>3, <1>4 DEF DigestExact

\* A call starts with nothing delivered.
LEMMA HashInitInv ==
  ASSUME HashInit
  PROVE  HashInv
<1>1. batch \in Seq(Seq(Nat))
  BY MultiHashAssumption DEF HashInit
<1>2. DOMAIN batch = 1 .. Len(batch) /\ Len(batch) \in Nat
  BY <1>1
<1>3. CallTyped
  BY <1>1, <1>2 DEF HashInit, CallTyped
<1>4. \A m \in 1 .. Len(batch) : out[m] = Stale
  BY <1>2 DEF HashInit
<1>5. step = "group" => available /\ 0 < Len(batch)
  <2>1. batch # <<>> => Len(batch) # 0
    BY <1>1
  <2> QED BY <1>2, <2>1 DEF HashInit
<1>6. step = "done" => ~available \/ 1 .. Len(batch) = {}
  BY <1>2 DEF HashInit
<1>7. GroupsInOrder
  BY <1>2, <1>4, <1>5, <1>6 DEF HashInit, GroupsInOrder
<1> QED BY <1>3, <1>7 DEF HashInv, LanesInStep, HashInit

\* What the messages determine does not change while the call runs.
LEMMA SameMessages ==
  ASSUME batch' = batch
  PROVE  \A m : /\ Total(m)' = Total(m) /\ blocks(m)' = blocks(m)
                /\ Reference(m)' = Reference(m)
                /\ \A k : Prefix(m, k)' = Prefix(m, k) /\ CursorAfter(m, k)' = CursorAfter(m, k)
<1>1. \A m : Total(m)' = Total(m)
  BY DEF Total, SegmentEnds
<1>2. \A m : blocks(m)' = blocks(m)
  BY <1>1 DEF blocks
<1>3. \A m : Reference(m)' = Reference(m)
  <2>1. SUFFICES ASSUME NEW m PROVE Reference(m)' = Reference(m)
    OBVIOUS
  <2> DEFINE R(t) ==
               LET n == Min({k \in 1 .. t + 2 : k * Block >= t + 1 + LengthField})
                   padded == [i \in 1 .. n * Block |->
                                IF i <= t THEN Byte(m, i)
                                ELSE IF i = t + 1 THEN Pad
                                ELSE IF i > n * Block - LengthField THEN LengthByte(i - (n - 1) * Block, t)
                                ELSE ZeroByte]
               IN <<"iv">> \o [b \in 1 .. n |-> [i \in 1 .. Block |-> padded[(b - 1) * Block + i]]]
  <2>2. Reference(m) = R(Total(m)) /\ Reference(m)' = R(Total(m)')
    BY DEF Reference
  <2>3. Total(m)' = Total(m)
    BY <1>1
  <2> HIDE DEF R
  <2> QED BY <2>2, <2>3
<1>4. \A m, k : Prefix(m, k)' = Prefix(m, k)
  <2>1. SUFFICES ASSUME NEW m, NEW k PROVE Prefix(m, k)' = Prefix(m, k)
    OBVIOUS
  <2> DEFINE P(t, n) ==
               [j \in 1 .. k + 1 |->
                  IF j = 1 THEN "iv"
                  ELSE [i \in 1 .. Block |->
                          LET p == ((j - 1) - 1) * Block + i
                          IN IF p <= t THEN Byte(m, p)
                             ELSE IF p = t + 1 THEN Pad
                             ELSE IF j - 1 = n /\ i > Block - LengthField THEN LengthByte(i, t)
                             ELSE ZeroByte]]
  <2>2. Prefix(m, k) = P(Total(m), blocks(m)) /\ Prefix(m, k)' = P(Total(m)', blocks(m)')
    BY DEF Prefix, PaddedBlock
  <2>3. Total(m)' = Total(m) /\ blocks(m)' = blocks(m)
    BY <1>1, <1>2
  <2> HIDE DEF P
  <2> QED BY <2>2, <2>3
<1>5. \A m, k : CursorAfter(m, k)' = CursorAfter(m, k)
  BY <1>1 DEF CursorAfter
<1> QED BY <1>1, <1>2, <1>3, <1>4, <1>5

\* One way or the other, a lane that has blocks left is fed its next one.
LEMMA FedNext ==
  ASSUME HashInv, step = "block", NEW i \in Lanes, blockIndex < blocks(first + i)
  PROVE  NextBlock(i) = [block |-> PaddedBlock(first + i, blockIndex + 1),
                         cursor |-> CursorAfter(first + i, blockIndex + 1)]
<1> DEFINE m == first + i
<1>1. /\ CallTyped /\ first < Len(batch) /\ blockIndex \in Nat
      /\ lane[i] = CursorAfter(m, blockIndex)
  BY DEF HashInv, GroupsInOrder, LanesInStep
<1>2. batch[m] \in Seq(Nat) /\ Total(m) \in Nat /\ blocks(m) \in Nat
  <2>1. m \in 1 .. Len(batch)
    BY <1>1, LanesOfGroup
  <2> HIDE DEF m
  <2> QED BY <1>1, <2>1, LanesOfGroup, BlocksAreLeast
<1>3. ~(blockIndex >= blocks(m))
  BY <1>1, <1>2
<1>4. NextBlock(i) = IF kind \in {"x8", "x8three"} /\ takeDirectBlock(m, lane[i]) THEN DirectBlock(m, lane[i])
                     ELSE fill(m, lane[i])
  BY <1>3 DEF NextBlock, Message
<1> HIDE DEF m
<1>5. fill(m, lane[i]) = [block |-> PaddedBlock(m, blockIndex + 1), cursor |-> CursorAfter(m, blockIndex + 1)]
  BY <1>1, <1>2, FillNext DEF m
<1>6. takeDirectBlock(m, lane[i]) =>
        DirectBlock(m, lane[i]) = [block |-> PaddedBlock(m, blockIndex + 1), cursor |-> CursorAfter(m, blockIndex + 1)]
  BY <1>1, <1>2, DirectNext DEF m
<1>7. NextBlock(i) = [block |-> PaddedBlock(m, blockIndex + 1), cursor |-> CursorAfter(m, blockIndex + 1)]
  <2> DEFINE next == [block |-> PaddedBlock(m, blockIndex + 1), cursor |-> CursorAfter(m, blockIndex + 1)]
  <2> HIDE DEF next
  <2>1. fill(m, lane[i]) = next /\ (takeDirectBlock(m, lane[i]) => DirectBlock(m, lane[i]) = next)
    BY <1>5, <1>6 DEF next
  <2>2. NextBlock(i) = next
    BY <1>4, <2>1
  <2> QED BY <2>2 DEF next
<1> QED BY <1>7 DEF m

\* Its state is then that of one more block.
LEMMA CompressNext ==
  ASSUME HashInv, step = "block", NEW i \in Lanes, blockIndex < blocks(first + i)
  PROVE  Compress(state[i], PaddedBlock(first + i, blockIndex + 1)) = Prefix(first + i, blockIndex + 1)
<1> DEFINE m == first + i
           k == blockIndex
<1>1. k \in Nat /\ kind \in Kinds /\ state[i] = IF k = 0 THEN InitialState ELSE Prefix(m, k)
  BY DEF HashInv, CallTyped, LanesInStep
<1>2. CASE k = 0 /\ kind \in {"x8", "x8three"}
  <2>1. Compress(state[i], PaddedBlock(m, k + 1)) = <<"iv", PaddedBlock(m, k + 1)>> /\ k + 1 = 1
    BY <1>2 DEF Compress
  <2> QED BY <2>1, <1>1, PrefixNext
<1>3. CASE k = 0 /\ kind \notin {"x8", "x8three"}
  <2>1. state[i] = <<"iv">>
    BY <1>1, <1>3 DEF InitialState, Kinds
  <2>2. Compress(state[i], PaddedBlock(m, k + 1)) = Append(Prefix(m, k), PaddedBlock(m, k + 1))
    BY <1>1, <1>3, <2>1, PrefixNext DEF Compress
  <2> QED BY <2>2, <1>1, PrefixNext
<1>4. CASE k # 0
  <2>1. Compress(state[i], PaddedBlock(m, k + 1)) = Append(Prefix(m, k), PaddedBlock(m, k + 1))
    BY <1>1, <1>4 DEF Compress
  <2> QED BY <2>1, <1>1, PrefixNext
<1> QED BY <1>2, <1>3, <1>4

\* A group delivered as a whole leaves the invariant to the next one.
LEMMA GroupDelivered ==
  ASSUME HashInv, step # "done", NextGroup, batch' = batch, kind' = kind, available' = available,
         out' = [m \in 1 .. Len(batch) |-> out'[m]],
         \A m \in 1 .. Len(batch) : out'[m] = IF m - first \in Lanes THEN Reference(m) ELSE out[m]
  PROVE  HashInv'
<1> DEFINE w == width(kind)
<1>1. CallTyped /\ first < Len(batch) /\ available /\ first \in Nat
  BY DEF HashInv, GroupsInOrder, CallTyped
<1>2. w \in Nat \ {0} /\ Len(batch) \in Nat
      /\ \A m \in 1 .. Len(batch) : m > first /\ m <= first + w <=> m - first \in Lanes
  BY <1>1, LanesOfGroup
<1>3. first' = first + w /\ step' = IF first + w < Len(batch) THEN "group" ELSE "done"
  BY DEF NextGroup
<1>4. width(kind)' = w
  BY DEF width
<1> HIDE DEF w
<1>5. \A m \in 1 .. Len(batch) : /\ m <= first + w => out'[m] = Reference(m)
                                 /\ m > first + w => out'[m] = Stale
  <2>1. SUFFICES ASSUME NEW m \in 1 .. Len(batch)
                 PROVE  /\ m <= first + w => out'[m] = Reference(m)
                        /\ m > first + w => out'[m] = Stale
    OBVIOUS
  <2>2. CASE m <= first
    <3>1. ~(m - first \in Lanes) /\ ~(m > first + w)
      BY <1>1, <1>2, <2>2
    <3> QED BY <2>2, <3>1 DEF HashInv, GroupsInOrder
  <2>3. CASE m > first /\ m <= first + w
    BY <1>1, <1>2, <2>3
  <2>4. CASE m > first + w
    <3>1. ~(m - first \in Lanes) /\ ~(m <= first + w)
      BY <1>1, <1>2, <2>4
    <3> QED BY <2>4, <3>1 DEF HashInv, GroupsInOrder, w
  <2> QED BY <1>1, <1>2, <2>2, <2>3, <2>4
<1>6. CallTyped'
  BY <1>1, <1>2, <1>3 DEF CallTyped
<1>7. \A m : Reference(m)' = Reference(m)
  BY SameMessages
<1>8. GroupsInOrder'
  <2>1. \A m \in 1 .. Len(batch) : m > (first + w) + w => m > first + w
    BY <1>1, <1>2
  <2>2. step' # "done" => /\ available' /\ first' < Len(batch')
                          /\ \A m \in 1 .. Len(batch') : /\ m <= first' => out'[m] = Reference(m)'
                                                         /\ m > first' + width(kind)' => out'[m] = Stale
    BY <1>1, <1>3, <1>4, <1>5, <1>7, <2>1
  <2>3. step' = "group" => \A m \in 1 .. Len(batch') : m > first' => out'[m] = Stale
    BY <1>3, <1>5
  <2>4. step' = "done" => \A m \in 1 .. Len(batch') : out'[m] = IF available' THEN Reference(m)' ELSE Stale
    <3>1. step' = "done" => \A m \in 1 .. Len(batch) : m <= first + w
      BY <1>1, <1>2, <1>3
    <3> QED BY <3>1, <1>1, <1>5, <1>7
  <2> QED BY <2>2, <2>3, <2>4 DEF GroupsInOrder
<1>9. LanesInStep'
  BY <1>3 DEF LanesInStep
<1> QED BY <1>6, <1>8, <1>9 DEF HashInv

\* The fixed-size kernel delivers the digests of all its lanes at once.
LEMMA FixedInv ==
  ASSUME HashInv, sum512NativeFixed3X8
  PROVE  HashInv'
<1>1. step = "group" /\ FixedShape /\ NextGroup /\ batch' = batch /\ kind' = kind /\ available' = available
      /\ out' = [m \in DOMAIN out |-> IF m - first \in Lanes THEN Fixed3Digest(m) ELSE out[m]]
  BY DEF sum512NativeFixed3X8
<1>2. CallTyped /\ first < Len(batch) /\ first \in Nat
  BY <1>1 DEF HashInv, GroupsInOrder, CallTyped
<1>3. DOMAIN out = 1 .. Len(batch)
  BY <1>2 DEF CallTyped
<1>4. ASSUME NEW m \in 1 .. Len(batch), m - first \in Lanes PROVE Fixed3Digest(m) = Reference(m)
  <2>1. PICK size \in FixedSizes : \A i \in Lanes : batch[first + i] = <<Half, Half, size>>
    BY <1>1 DEF FixedShape, Message
  <2>2. first + (m - first) = m
    BY <1>2
  <2>3. batch[m] = <<Half, Half, size>>
    BY <1>4, <2>1, <2>2
  <2> QED BY <2>3, FixedIsReference
<1>5. out' = [m \in 1 .. Len(batch) |-> out'[m]]
  BY <1>1, <1>3
<1>6. \A m \in 1 .. Len(batch) : out'[m] = IF m - first \in Lanes THEN Reference(m) ELSE out[m]
  BY <1>1, <1>3, <1>4
<1> QED BY <1>1, <1>5, <1>6, GroupDelivered

\* A group starts every lane at its own message and the initial value.
LEMMA GroupStartInv ==
  ASSUME HashInv, sum512NativeGroup
  PROVE  HashInv'
<1>1. /\ step = "group" /\ batch' = batch /\ kind' = kind /\ available' = available /\ first' = first /\ out' = out
      /\ lane' = [i \in 1 .. width(kind) |-> newNativeLane]
      /\ state' = [i \in 1 .. width(kind) |-> InitialState]
      /\ blockIndex' = 0 /\ step' = "block"
  BY DEF sum512NativeGroup
<1>2. CallTyped /\ first < Len(batch) /\ first \in Nat
  BY <1>1 DEF HashInv, GroupsInOrder, CallTyped
<1>3. Lanes' = Lanes /\ width(kind)' = width(kind) /\ InitialState' = InitialState
  BY <1>1 DEF Lanes, width, InitialState
<1>4. CallTyped'
  BY <1>1, <1>2 DEF CallTyped
<1>5. GroupsInOrder'
  <2>1. \A m : Reference(m)' = Reference(m)
    BY <1>1, SameMessages
  <2> QED BY <1>1, <1>3, <2>1 DEF HashInv, GroupsInOrder
<1>6. ASSUME NEW i \in Lanes
      PROVE  /\ out[first + i] = IF 0 >= blocks(first + i) THEN Reference(first + i) ELSE Stale
             /\ lane'[i] = CursorAfter(first + i, 0) /\ state'[i] = InitialState
  <2> DEFINE m == first + i
  <2>1. i \in 1 .. width(kind) /\ m \in 1 .. Len(batch) /\ m > first /\ Total(m) \in Nat
    <3>1. i \in 1 .. width(kind) /\ m \in 1 .. Len(batch)
      BY <1>2, LanesOfGroup
    <3>2. Total(m) \in Nat
      <4> HIDE DEF m
      <4> QED BY <3>1, <1>2, LanesOfGroup
    <3>3. m > first
      BY <3>1, <1>2, LanesOfGroup
    <3> QED BY <3>1, <3>2, <3>3
  <2>2. lane'[i] = newNativeLane /\ state'[i] = InitialState
    BY <1>1, <2>1
  <2>3. newNativeLane = CursorAfter(m, 0)
    <3> HIDE DEF m
    <3>1. 0 * Block = 0 /\ (Total(m) < 0 * Block) = FALSE
      BY <2>1, ConstantsHold DEF Constants
    <3> QED BY <3>1 DEF newNativeLane, CursorAfter
  <2>4. out[m] = Stale
    BY <1>1, <2>1 DEF HashInv, GroupsInOrder
  <2>5. ~(0 >= blocks(m))
    <3> DEFINE n == blocks(m)
    <3>1. n \in Nat /\ n >= 1
      <4> HIDE DEF m
      <4> QED BY <2>1, BlocksAreLeast
    <3> HIDE DEF n
    <3>2. ~(0 >= n)
      BY <3>1
    <3> QED BY <3>2 DEF n
  <2> HIDE DEF m
  <2>6. /\ out[m] = IF 0 >= blocks(m) THEN Reference(m) ELSE Stale
        /\ lane'[i] = CursorAfter(m, 0) /\ state'[i] = InitialState
    BY <2>2, <2>3, <2>4, <2>5
  <2> QED BY <2>6 DEF m
<1>7. LanesInStep'
  <2>1. \A m : /\ Reference(m)' = Reference(m) /\ blocks(m)' = blocks(m)
              /\ \A j : CursorAfter(m, j)' = CursorAfter(m, j)
    BY <1>1, SameMessages
  <2> QED BY <1>1, <1>3, <1>6, <2>1 DEF LanesInStep
<1> QED BY <1>4, <1>5, <1>7 DEF HashInv

\* One block: each lane that is not finished is fed its next one.
LEMMA BlockInv ==
  ASSUME HashInv, sum512NativeLanes
  PROVE  HashInv'
<1> DEFINE k == blockIndex
           fed == [i \in 1 .. width(kind) |-> NextBlock(i)]
           after == [i \in 1 .. width(kind) |-> Compress(state[i], fed[i].block)]
<1>1. /\ step = "block" /\ step' = step /\ batch' = batch /\ kind' = kind /\ available' = available /\ first' = first
      /\ lane' = [i \in 1 .. width(kind) |-> fed[i].cursor] /\ state' = after
      /\ out' = [m \in DOMAIN out |->
                   IF m - first \in Lanes /\ k + 1 = blocks(m) THEN after[m - first] ELSE out[m]]
      /\ blockIndex' = k + 1
  BY DEF sum512NativeLanes
<1>2. CallTyped /\ first < Len(batch) /\ first \in Nat /\ k \in Nat /\ DOMAIN out = 1 .. Len(batch)
  BY <1>1 DEF HashInv, GroupsInOrder, CallTyped, LanesInStep
<1>3. Lanes' = Lanes /\ width(kind)' = width(kind)
  BY <1>1 DEF Lanes, width
<1>4. \A i \in Lanes : i \in 1 .. width(kind) /\ first + i \in 1 .. Len(batch) /\ (first + i) - first = i
                       /\ blocks(first + i) \in Nat
  <2>1. \A i \in Lanes : i \in 1 .. width(kind) /\ first + i \in 1 .. Len(batch)
    BY <1>2, LanesOfGroup
  <2>2. \A i \in Lanes : blocks(first + i) \in Nat
    BY <1>2, MaxBounds
  <2>3. \A i \in Lanes : (first + i) - first = i
    BY <2>1, <1>2
  <2> QED BY <2>1, <2>2, <2>3
<1>5. ASSUME NEW i \in Lanes, k < blocks(first + i)
      PROVE  lane'[i] = CursorAfter(first + i, k + 1) /\ after[i] = Prefix(first + i, k + 1)
  <2>1. NextBlock(i) = [block |-> PaddedBlock(first + i, k + 1), cursor |-> CursorAfter(first + i, k + 1)]
    BY <1>1, <1>5, FedNext
  <2>2. i \in 1 .. width(kind)
    BY <1>4
  <2>3. fed[i] = [block |-> PaddedBlock(first + i, k + 1), cursor |-> CursorAfter(first + i, k + 1)]
    BY <2>1, <2>2
  <2> HIDE DEF fed
  <2>4. lane'[i] = CursorAfter(first + i, k + 1)
    BY <1>1, <2>2, <2>3
  <2>5. after[i] = Compress(state[i], PaddedBlock(first + i, k + 1))
    BY <2>2, <2>3
  <2> QED BY <2>4, <2>5, <1>1, <1>5, CompressNext
<1> HIDE DEF fed, after
<1>6. \A m : /\ Reference(m)' = Reference(m) /\ blocks(m)' = blocks(m)
             /\ \A j : Prefix(m, j)' = Prefix(m, j) /\ CursorAfter(m, j)' = CursorAfter(m, j)
  BY <1>1, SameMessages
<1>7. CallTyped'
  <2>1. out' = [m \in 1 .. Len(batch) |-> out'[m]]
    BY <1>1, <1>2
  <2> QED BY <1>1, <1>2, <2>1 DEF CallTyped
<1>8. \A m \in 1 .. Len(batch) : ~(m - first \in Lanes) => out'[m] = out[m]
  BY <1>1, <1>2
<1>9. GroupsInOrder'
  <2>1. \A m \in 1 .. Len(batch) : m <= first \/ m > first + width(kind) => ~(m - first \in Lanes)
    BY <1>2, LanesOfGroup
  <2> QED BY <1>1, <1>3, <1>6, <1>8, <2>1 DEF HashInv, GroupsInOrder
<1>10. ASSUME NEW i \in Lanes
       PROVE  /\ out'[first + i] = IF k + 1 >= blocks(first + i) THEN Reference(first + i) ELSE Stale
              /\ k + 1 < blocks(first + i) =>
                   lane'[i] = CursorAfter(first + i, k + 1) /\ state'[i] = Prefix(first + i, k + 1)
  <2> DEFINE m == first + i
             n == blocks(m)
  <2>1. m \in 1 .. Len(batch) /\ m - first = i /\ n \in Nat /\ k \in Nat
    BY <1>2, <1>4
  <2>2. out[m] = IF k >= n THEN Reference(m) ELSE Stale
    BY <1>1 DEF HashInv, LanesInStep
  <2>3. out'[m] = IF k + 1 = n THEN after[i] ELSE out[m]
    BY <1>1, <1>2, <2>1
  <2>4. Reference(m) = Prefix(m, n)
    <3>1. Total(m) \in Nat
      <4> HIDE DEF m
      <4> QED BY <1>2, <2>1, LanesOfGroup
    <3> HIDE DEF m
    <3> QED BY <3>1, ReferenceIsLast
  <2>5. k < n => lane'[i] = CursorAfter(m, k + 1) /\ after[i] = Prefix(m, k + 1)
    BY <1>5
  <2> HIDE DEF m, n
  <2>6. CASE k + 1 = n
    BY <2>1, <2>3, <2>4, <2>5, <2>6 DEF m, n
  <2>7. CASE k + 1 < n
    <3>1. k < n /\ ~(k >= n) /\ k + 1 # n /\ ~(k + 1 >= n)
      BY <2>1, <2>7
    <3> QED BY <3>1, <2>2, <2>3, <2>5, <1>1 DEF m, n
  <2>8. CASE k + 1 > n
    <3>1. k >= n /\ k + 1 # n /\ k + 1 >= n /\ ~(k + 1 < n)
      BY <2>1, <2>8
    <3> QED BY <3>1, <2>2, <2>3 DEF m, n
  <2> QED BY <2>1, <2>6, <2>7, <2>8
<1>11. LanesInStep'
  <2>1. k + 1 \in Nat /\ k + 1 # 0
    BY <1>2
  <2> QED BY <1>1, <1>3, <1>6, <1>10, <2>1 DEF LanesInStep
<1> QED BY <1>7, <1>9, <1>11 DEF HashInv

\* After the longest lane the next group starts, or the call is over.
LEMMA GroupDoneInv ==
  ASSUME HashInv, GroupDone
  PROVE  HashInv'
<1>1. step = "block" /\ blockIndex = maxBlocks /\ NextGroup
      /\ batch' = batch /\ kind' = kind /\ available' = available /\ out' = out
  BY DEF GroupDone
<1>2. CallTyped /\ first < Len(batch) /\ first \in Nat
  BY <1>1 DEF HashInv, GroupsInOrder, CallTyped
<1>3. ASSUME NEW m \in 1 .. Len(batch), m - first \in Lanes PROVE out[m] = Reference(m)
  <2> DEFINE i == m - first
  <2>1. first + i = m /\ i \in Lanes
    BY <1>2, <1>3
  <2> HIDE DEF i
  <2>2. blockIndex >= blocks(first + i)
    BY <1>1, <1>2, <2>1, MaxBounds
  <2> QED BY <1>1, <2>1, <2>2 DEF HashInv, LanesInStep
<1>4. out' = [m \in 1 .. Len(batch) |-> out'[m]]
  BY <1>1, <1>2 DEF CallTyped
<1>5. \A m \in 1 .. Len(batch) : out'[m] = IF m - first \in Lanes THEN Reference(m) ELSE out[m]
  BY <1>1, <1>3
<1> QED BY <1>1, <1>4, <1>5, GroupDelivered

\* Every step keeps the invariant.
LEMMA HashStepInv ==
  ASSUME HashInv, [HashNext]_hashVars
  PROVE  HashInv'
<1>1. CASE UNCHANGED hashVars
  <2>1. batch' = batch /\ kind' = kind /\ available' = available /\ first' = first /\ lane' = lane
        /\ blockIndex' = blockIndex /\ state' = state /\ out' = out /\ step' = step
    BY <1>1 DEF hashVars
  <2>2. /\ Lanes' = Lanes /\ width(kind)' = width(kind) /\ InitialState' = InitialState
        /\ \A m : /\ Reference(m)' = Reference(m) /\ blocks(m)' = blocks(m)
                  /\ \A j : Prefix(m, j)' = Prefix(m, j) /\ CursorAfter(m, j)' = CursorAfter(m, j)
    BY <2>1, SameMessages DEF Lanes, width, InitialState
  <2>3. CallTyped'
    BY <2>1 DEF HashInv, CallTyped
  <2>4. GroupsInOrder'
    BY <2>1, <2>2 DEF HashInv, GroupsInOrder
  <2>5. LanesInStep'
    BY <2>1, <2>2 DEF HashInv, LanesInStep
  <2> QED BY <2>3, <2>4, <2>5 DEF HashInv
<1> QED BY <1>1, FixedInv, GroupStartInv, BlockInv, GroupDoneInv DEF HashNext

\* No digest but the right ones, and all of them in the end.
THEOREM DigestAlwaysExact == HashSpec => []DigestExact
<1>1. HashInit => HashInv
  BY HashInitInv
<1>2. HashInv /\ [HashNext]_hashVars => HashInv'
  BY HashStepInv
<1>3. HashInv => DigestExact
  BY InvGivesExact
<1> QED BY <1>1, <1>2, <1>3, PTL DEF HashSpec

-----------------------------------------------------------------------------
\* The byte rules.

\* Strings of bytes.
Strings == [1 .. ByteCount -> 0 .. Full]

\* The constants, as the proofs use them.
LEMMA Sizes ==
  /\ ByteBits \in Nat \ {0} /\ ByteCount \in Nat /\ ByteCount > 2
  /\ HighBit \in Nat \ {0} /\ Radix = 2 * HighBit /\ Radix \in Nat \ {0} /\ Full = Radix - 1
  /\ Weight(1) = 1
  /\ \A i \in Nat \ {0} : Weight(i) \in Nat \ {0} /\ Weight(i + 1) = Radix * Weight(i)
  /\ SignWeight \in Nat \ {0} /\ SignWeight = HighBit * Weight(ByteCount)
<1>1. ByteBits \in Nat \ {0} /\ ByteBits - 1 \in Nat /\ ByteCount \in Nat /\ ByteCount > 2
  BY EncodingAssumption
<1>2. 2 ^ (ByteBits - 1) \in Nat \ {0} /\ 2 ^ ((ByteBits - 1) + 1) = 2 * 2 ^ (ByteBits - 1)
  BY <1>1, PowerStep
<1>3. (ByteBits - 1) + 1 = ByteBits BY <1>1
<1>4. HighBit \in Nat \ {0} /\ Radix = 2 * HighBit /\ Radix \in Nat \ {0} /\ Full = Radix - 1
  BY <1>2, <1>3 DEF HighBit, Radix, Full
<1>5. Weight(1) = 1
  <2>1. ByteBits * (1 - 1) = 0 BY <1>1
  <2>2. 2 ^ 0 = 1 OBVIOUS
  <2> QED BY <2>1, <2>2 DEF Weight
<1>6. ASSUME NEW i \in Nat \ {0} PROVE Weight(i) \in Nat \ {0} /\ Weight(i + 1) = Radix * Weight(i)
  <2>1. PICK e \in Nat : e = ByteBits * (i - 1) BY <1>1
  <2>2. ByteBits * ((i + 1) - 1) = ByteBits + e BY <1>1, <2>1
  <2>3. 2 ^ (ByteBits + e) = 2 ^ ByteBits * 2 ^ e BY <1>1, <2>1, PowerSum
  <2>4. 2 ^ e \in Nat \ {0} BY <2>1, PowerStep
  <2> QED BY <2>1, <2>2, <2>3, <2>4 DEF Weight, Radix
<1>7. SignWeight \in Nat \ {0} /\ SignWeight = HighBit * Weight(ByteCount)
  <2>1. PICK e \in Nat : e = ByteBits * (ByteCount - 1) BY <1>1
  <2>2. ByteBits * ByteCount - 1 = (ByteBits - 1) + e BY <1>1, <2>1
  <2>3. 2 ^ ((ByteBits - 1) + e) = 2 ^ (ByteBits - 1) * 2 ^ e BY <1>1, <2>1, PowerSum
  <2>4. SignWeight = HighBit * Weight(ByteCount)
    BY <2>1, <2>2, <2>3 DEF SignWeight, HighBit, Weight
  <2>5. (ByteBits - 1) + e \in Nat BY <1>1, <2>1
  <2>6. PICK g \in Nat : g = (ByteBits - 1) + e BY <2>5
  <2>7. 2 ^ g \in Nat \ {0} BY <2>6, PowerStep
  <2> QED BY <2>2, <2>4, <2>6, <2>7 DEF SignWeight
<1> QED BY <1>1, <1>4, <1>5, <1>6, <1>7

\* The modulus, and the constants below it.
LEMMA Bounds ==
  /\ Modulus \in Nat \ {0} /\ SignWeight = Modulus + Gap /\ Gap \in Nat /\ Gap >= 2 /\ 2 * Gap <= Modulus
  /\ Gap + 3 <= Radix
  /\ Alpha \in Nat /\ NegAlpha \in Nat /\ Alpha + NegAlpha = Modulus /\ Alpha >= Gap /\ NegAlpha >= Gap
  /\ ScalarOrder \in 2 .. (Modulus - 1)
<1>1. SignWeight \in Nat /\ Radix \in Nat BY Sizes
<1>2. Gap \in 2 .. (Radix - 3) /\ Alpha \in Gap .. (Modulus - Gap) /\ ScalarOrder \in 2 .. (Modulus - 1)
  BY EncodingAssumption
<1>3. Modulus \in Int /\ SignWeight = Modulus + Gap BY <1>1, <1>2 DEF Modulus
<1> QED BY <1>1, <1>2, <1>3 DEF NegAlpha

\* The recursion of Number.
LEMMA PrefixesAre ==
  ASSUME NEW b \in Strings
  PROVE  /\ Prefixes(b) \in [0 .. ByteCount -> Nat] /\ Prefixes(b)[0] = 0
         /\ \A i \in 1 .. ByteCount : Prefixes(b)[i] = Prefixes(b)[i - 1] + b[i] * Weight(i)
<1> DEFINE n == ByteCount
           addByte == [z \in (1 .. n) \X Nat |-> z[2] + b[z[1]] * Weight(z[1])]
<1>1. n \in Nat BY Sizes
<1>2. \A i \in 1 .. n : b[i] \in Nat /\ Weight(i) \in Nat
  <2>1. Full \in Nat BY Sizes
  <2>2. \A i \in 1 .. n : b[i] \in 0 .. Full BY DEF Strings
  <2>3. \A i \in 1 .. n : i \in Nat \ {0} OBVIOUS
  <2>4. \A i \in Nat \ {0} : Weight(i) \in Nat \ {0} BY Sizes
  <2> QED BY <2>1, <2>2, <2>3, <2>4
<1>3. addByte \in [(1 .. n) \X Nat -> Nat]
  <2>1. ASSUME NEW z \in (1 .. n) \X Nat PROVE z[2] + b[z[1]] * Weight(z[1]) \in Nat
    <3>1. z[1] \in 1 .. n /\ z[2] \in Nat OBVIOUS
    <3>2. PICK t \in Nat : t = z[2] BY <3>1
    <3>3. PICK d \in Nat : d = b[z[1]] BY <1>2, <3>1
    <3>4. PICK w \in Nat : w = Weight(z[1]) BY <1>2, <3>1
    <3>5. t + d * w \in Nat OBVIOUS
    <3> QED BY <3>2, <3>3, <3>4, <3>5
  <2> QED BY <2>1
<1>4. PICK f \in [0 .. n -> Nat] : Computed(f, n, 0, addByte)
  <2> HIDE DEF n, addByte
  <2> QED BY <1>1, <1>3, Computable
<1>5. f = [i \in 0 .. n |-> IF i = 0 THEN 0 ELSE f[i - 1] + b[i] * Weight(i)]
  <2>1. f = [i \in 0 .. n |-> IF i = 0 THEN 0 ELSE addByte[<<i, f[i - 1]>>]] BY <1>4 DEF Computed
  <2>2. \A i \in 0 .. n : i # 0 => <<i, f[i - 1]>> \in (1 .. n) \X Nat BY <1>1
  <2>3. \A i \in 0 .. n : i # 0 => addByte[<<i, f[i - 1]>>] = f[i - 1] + b[i] * Weight(i) BY <2>2
  <2> QED BY <2>1, <2>3
<1>6. \E g : g = [i \in 0 .. n |-> IF i = 0 THEN 0 ELSE g[i - 1] + b[i] * Weight(i)] BY <1>5
<1>7. Prefixes(b) = [i \in 0 .. n |-> IF i = 0 THEN 0 ELSE Prefixes(b)[i - 1] + b[i] * Weight(i)]
  BY <1>6, Zenon DEF Prefixes
<1> DEFINE p == Prefixes(b)
<1>8. p[0] = 0 /\ \A i \in 1 .. n : p[i] = p[i - 1] + b[i] * Weight(i)
  <2>1. \A i \in 1 .. n : i \in 0 .. n /\ i # 0 BY <1>1
  <2>2. 0 \in 0 .. n BY <1>1
  <2> HIDE DEF p
  <2>3. p = [i \in 0 .. n |-> IF i = 0 THEN 0 ELSE p[i - 1] + b[i] * Weight(i)] BY <1>7 DEF p
  <2> QED BY <2>1, <2>2, <2>3
<1>9. \A i \in 0 .. n : p[i] \in Nat
  <2> DEFINE S == {k \in Nat : k <= n => p[k] \in Nat}
  <2>1. 0 \in S
    <3> HIDE DEF p
    <3> QED BY <1>8
  <2>2. ASSUME NEW k \in Nat, k \in S PROVE k + 1 \in S
    <3>1. CASE k + 1 <= n
      <4>1. p[k + 1] = p[k] + b[k + 1] * Weight(k + 1) /\ p[k] \in Nat
        <5>1. k + 1 \in 1 .. n /\ (k + 1) - 1 = k /\ k <= n BY <3>1, <1>1
        <5>2. p[k + 1] = p[(k + 1) - 1] + b[k + 1] * Weight(k + 1)
          <6> HIDE DEF p
          <6> QED BY <1>8, <5>1
        <5> HIDE DEF p
        <5>3. p[k] \in Nat BY <2>2, <5>1
        <5> QED BY <5>1, <5>2, <5>3
      <4>2. b[k + 1] \in Nat /\ Weight(k + 1) \in Nat BY <1>1, <1>2, <3>1
      <4> HIDE DEF p
      <4> QED BY <4>1, <4>2
    <3>2. CASE ~ (k + 1 <= n)
      <4> HIDE DEF p
      <4> QED BY <3>2
    <3> HIDE DEF S
    <3> QED BY <3>1, <3>2
  <2> HIDE DEF S
  <2>3. \A k \in Nat : k \in S BY <2>1, <2>2, SetInduction
  <2> QED BY <2>3, <1>1 DEF S
<1>10. p \in [0 .. n -> Nat]
  <2> HIDE DEF p
  <2>1. p = [i \in 0 .. n |-> p[i]] BY <1>7 DEF p
  <2> QED BY <1>9, <2>1
<1> QED BY <1>8, <1>10

\* A prefix is below the next weight.
LEMMA PrefixBound ==
  ASSUME NEW b \in Strings
  PROVE  \A i \in 0 .. ByteCount : Prefixes(b)[i] \in Nat /\ Prefixes(b)[i] < Weight(i + 1)
<1> DEFINE n == ByteCount  p == Prefixes(b)
           S == {k \in Nat : k <= n => p[k] < Weight(k + 1)}
<1>1. n \in Nat /\ Full \in Nat /\ Radix \in Nat /\ Radix = Full + 1 BY Sizes
<1>2. p \in [0 .. n -> Nat] /\ p[0] = 0 /\ \A i \in 1 .. n : p[i] = p[i - 1] + b[i] * Weight(i)
  BY PrefixesAre
<1> HIDE DEF p
<1>3. 0 \in S
  <2>1. Weight(0 + 1) = 1 /\ p[0] < 1 BY <1>2, Sizes
  <2> QED BY <2>1
<1>4. ASSUME NEW k \in Nat, k \in S PROVE k + 1 \in S
  <2>1. SUFFICES ASSUME k + 1 <= n PROVE p[k + 1] < Weight((k + 1) + 1) OBVIOUS
  <2>2. k + 1 \in 1 .. n /\ (k + 1) - 1 = k /\ k \in 0 .. n /\ k + 1 \in Nat \ {0} BY <2>1, <1>1
  <2>3. PICK q \in Nat : q = p[k] BY <2>2, <1>2
  <2>4. PICK d \in 0 .. Full : d = b[k + 1] BY <2>2 DEF Strings
  <2>5. PICK w \in Nat : w = Weight(k + 1) BY <2>2, Sizes
  <2>6. p[k + 1] = q + d * w /\ q < w BY <1>2, <1>4, <2>1, <2>2, <2>3, <2>4, <2>5
  <2>7. Weight((k + 1) + 1) = Radix * w BY <2>2, <2>5, Sizes
  <2>8. d * w <= Full * w /\ d * w \in Nat /\ Full * w \in Nat BY <1>1, MulMono
  <2>9. Radix * w = Full * w + w BY <1>1
  <2> QED BY <2>6, <2>7, <2>8, <2>9
<1> HIDE DEF S
<1>5. \A k \in Nat : k \in S BY <1>3, <1>4, SetInduction
<1>6. \A k \in 0 .. n : p[k] < Weight(k + 1) BY <1>5, <1>1 DEF S
<1> QED BY <1>2, <1>6 DEF p

\* The highest byte that differs orders the numbers.
LEMMA PrefixBelow ==
  ASSUME NEW b \in Strings, NEW c \in Strings, NEW i \in 1 .. ByteCount, b[i] < c[i],
         \A j \in 1 .. ByteCount : i < j => b[j] = c[j]
  PROVE  Number(b) < Number(c)
<1> DEFINE n == ByteCount  p == Prefixes(b)  q == Prefixes(c)
           S == {k \in Nat : i + k <= n => p[i + k] < q[i + k]}
<1>1. n \in Nat /\ Full \in Nat BY Sizes
<1>2. p \in [0 .. n -> Nat] /\ \A j \in 1 .. n : p[j] = p[j - 1] + b[j] * Weight(j)
  BY PrefixesAre
<1>3. q \in [0 .. n -> Nat] /\ \A j \in 1 .. n : q[j] = q[j - 1] + c[j] * Weight(j)
  BY PrefixesAre
<1>4. p[i - 1] < Weight(i)
  <2>1. i - 1 \in 0 .. n /\ (i - 1) + 1 = i BY <1>1
  <2>2. p[i - 1] < Weight((i - 1) + 1) BY <2>1, PrefixBound
  <2> HIDE DEF p
  <2> QED BY <2>1, <2>2
<1> HIDE DEF p, q
<1>5. 0 \in S
  <2>1. i - 1 \in 0 .. n /\ i + 0 = i /\ i \in Nat \ {0} BY <1>1
  <2>2. PICK u \in Nat : u = p[i - 1] BY <1>2, <2>1
  <2>3. PICK v \in Nat : v = q[i - 1] BY <1>3, <2>1
  <2>4. PICK w \in Nat : w = Weight(i) BY <2>1, Sizes
  <2>5. PICK d \in 0 .. Full : d = b[i] BY <1>1 DEF Strings
  <2>6. PICK e \in 0 .. Full : e = c[i] BY <1>1 DEF Strings
  <2>7. p[i] = u + d * w /\ q[i] = v + e * w /\ u < w /\ d < e
    BY <1>2, <1>3, <1>4, <2>2, <2>3, <2>4, <2>5, <2>6
  <2>8. d + 1 \in Nat /\ e \in Nat /\ d + 1 <= e /\ d \in Nat BY <1>1, <2>7
  <2>9. (d + 1) * w <= e * w /\ e * w \in Nat BY <2>8, MulMono
  <2>10. (d + 1) * w = d * w + w /\ d * w \in Nat BY <2>8
  <2>11. p[i] < q[i] BY <2>7, <2>9, <2>10
  <2> QED BY <2>1, <2>11
<1>6. ASSUME NEW k \in Nat, k \in S PROVE k + 1 \in S
  <2>1. SUFFICES ASSUME i + (k + 1) <= n PROVE p[i + (k + 1)] < q[i + (k + 1)] OBVIOUS
  <2>2. PICK j \in Nat : j = i + (k + 1) BY <1>1
  <2>3. j \in 1 .. n /\ j - 1 = i + k /\ j - 1 \in 0 .. n /\ i < j /\ j \in Nat \ {0} /\ i + k <= n BY <1>1, <2>1, <2>2
  <2>4. PICK u \in Nat : u = p[j - 1] BY <1>2, <2>3
  <2>5. PICK v \in Nat : v = q[j - 1] BY <1>3, <2>3
  <2>6. PICK w \in Nat : w = Weight(j) BY <2>3, Sizes
  <2>7. PICK d \in 0 .. Full : d = b[j] BY <2>3 DEF Strings
  <2>8. c[j] = d BY <2>3, <2>7
  <2>9. u < v BY <1>6, <2>3, <2>4, <2>5
  <2>10. p[j] = u + d * w /\ q[j] = v + d * w BY <1>2, <1>3, <2>3, <2>4, <2>5, <2>6, <2>7, <2>8
  <2>11. d * w \in Nat BY <1>1
  <2> QED BY <2>2, <2>9, <2>10, <2>11
<1>7. \A k \in Nat : k \in S
  <2> HIDE DEF S
  <2> QED BY <1>5, <1>6, SetInduction
<1>8. n - i \in Nat /\ i + (n - i) = n BY <1>1
<1>9. p[n] < q[n] BY <1>7, <1>8 DEF S
<1> QED BY <1>9 DEF p, q, Number

\* Where two strings differ last.
LEMMA HighestIs ==
  ASSUME NEW b \in Strings, NEW c \in Strings
  PROVE  \/ HighestDifference(b, c) = 0 /\ b = c
         \/ /\ HighestDifference(b, c) \in 1 .. ByteCount
            /\ b[HighestDifference(b, c)] # c[HighestDifference(b, c)]
            /\ \A j \in 1 .. ByteCount : HighestDifference(b, c) < j => b[j] = c[j]
<1> DEFINE n == ByteCount  diff == {i \in 1 .. n : b[i] # c[i]}  h == HighestDifference(b, c)
<1>1. n \in Nat BY Sizes
<1>2. CASE diff = {}
  <2>1. h = IF diff = {} THEN 0 ELSE CHOOSE i \in diff : \A j \in diff : j <= i
    BY DEF HighestDifference
  <2>2. b = c
    <3>1. \A i \in 1 .. n : b[i] = c[i] BY <1>2
    <3>2. b = [i \in 1 .. n |-> b[i]] /\ c = [i \in 1 .. n |-> c[i]] BY DEF Strings
    <3> QED BY <3>1, <3>2
  <2> QED BY <1>2, <2>1, <2>2
<1>3. CASE diff # {}
  <2> DEFINE T == {n - i : i \in diff}
  <2>1. T \in SUBSET Nat /\ T # {} BY <1>1, <1>3
  <2>2. PICK m \in T : \A k \in T : m <= k
    <3> HIDE DEF T
    <3> QED BY <2>1, LeastNat
  <2>3. PICK i \in diff : m = n - i BY <2>2
  <2>4. \A j \in diff : j <= i
    <3>1. \A j \in diff : n - i <= n - j BY <2>2, <2>3
    <3> QED BY <1>1, <3>1
  <2>5. h = CHOOSE g \in diff : \A j \in diff : j <= g BY <1>3 DEF HighestDifference
  <2>6. h \in diff /\ \A j \in diff : j <= h
    <3> HIDE DEF h, diff
    <3> QED BY <2>3, <2>4, <2>5, Zenon
  <2> HIDE DEF h
  <2>7. h \in 1 .. n /\ b[h] # c[h] BY <2>6
  <2>8. \A j \in 1 .. n : h < j => b[j] = c[j] BY <1>1, <2>6
  <2> QED BY <2>7, <2>8 DEF h
<1> QED BY <1>2, <1>3

\* The comparison of the most significant difference is that of the numbers.
LEMMA Compared ==
  ASSUME NEW b \in Strings, NEW c \in Strings
  PROVE  /\ HighestDifference(b, c) # 0 /\ b[HighestDifference(b, c)] < c[HighestDifference(b, c)]
              <=> Number(b) < Number(c)
         /\ HighestDifference(b, c) = 0 <=> Number(b) = Number(c)
         /\ Number(b) = Number(c) <=> b = c
<1> DEFINE h == HighestDifference(b, c)
<1>1. \/ h = 0 /\ b = c
      \/ h \in 1 .. ByteCount /\ b[h] # c[h] /\ \A j \in 1 .. ByteCount : h < j => b[j] = c[j]
  BY HighestIs
<1>2. Number(b) \in Nat /\ Number(c) \in Nat /\ ByteCount \in Nat /\ Full \in Nat
  <2>1. ByteCount \in 0 .. ByteCount /\ ByteCount \in Nat /\ Full \in Nat BY Sizes
  <2> QED BY <2>1, PrefixBound DEF Number
<1> HIDE DEF h
<1>3. CASE h = 0 /\ b = c BY <1>2, <1>3 DEF h
<1>4. CASE h \in 1 .. ByteCount /\ b[h] # c[h] /\ \A j \in 1 .. ByteCount : h < j => b[j] = c[j]
  <2>1. b[h] \in 0 .. Full /\ c[h] \in 0 .. Full BY <1>4 DEF Strings
  <2>2. h # 0 /\ b # c BY <1>2, <1>4
  <2>3. b[h] < c[h] => Number(b) < Number(c) BY <1>4, PrefixBelow
  <2>4. c[h] < b[h] => Number(c) < Number(b) BY <1>4, PrefixBelow
  <2>5. b[h] < c[h] \/ c[h] < b[h] BY <1>2, <1>4, <2>1
  <2>6. (b[h] < c[h] <=> Number(b) < Number(c)) /\ Number(b) # Number(c)
    BY <1>2, <2>1, <2>3, <2>4, <2>5
  <2> QED BY <2>2, <2>6 DEF h
<1> QED BY <1>1, <1>3, <1>4

\* A quotient of a quotient.
LEMMA DivTwice ==
  ASSUME NEW x \in Nat, NEW p \in Nat \ {0}, NEW q \in Nat \ {0}
  PROVE  (x \div p) = (x \div (q * p)) * q + ((x \div p) % q) /\ ((x \div p) % q) \in 0 .. q - 1
         /\ (x \div p) \in Nat /\ (x \div (q * p)) \in Nat
<1>1. PICK a \in Nat, r \in 0 .. p - 1 : x = a * p + r BY DivExists
<1>2. x \div p = a BY <1>1, DivUnique
<1>3. PICK e \in Nat, t \in 0 .. q - 1 : a = e * q + t BY DivExists
<1>4. a % q = t /\ a \div q = e BY <1>3, DivUnique
<1>5. PICK m \in Nat : m = q * p OBVIOUS
<1>6. PICK g \in Nat : g = t * p OBVIOUS
<1>7. g + p <= m /\ m # 0
  <2>1. t + 1 \in Nat /\ t + 1 <= q OBVIOUS
  <2>2. (t + 1) * p <= q * p BY <2>1, MulMono
  <2>3. (t + 1) * p = g + p BY <1>6
  <2> QED BY <2>2, <2>3, <1>5, <1>6
<1>8. x = e * m + (g + r)
  <2>1. x = (e * q + t) * p + r BY <1>1, <1>3
  <2>2. (e * q + t) * p = e * (q * p) + t * p OBVIOUS
  <2> QED BY <2>1, <2>2, <1>5, <1>6
<1>9. g + r \in 0 .. m - 1 /\ m \in Nat \ {0} BY <1>7
<1>10. x \div m = e BY <1>8, <1>9, DivUnique
<1> QED BY <1>2, <1>3, <1>4, <1>5, <1>10

\* The bytes of a number denote it.
LEMMA BytesDenote ==
  ASSUME NEW x \in Nat, x < 2 * SignWeight
  PROVE  BytesOf(x) \in Strings /\ Number(BytesOf(x)) = x
<1> DEFINE n == ByteCount  b == BytesOf(x)  p == Prefixes(b)
           S == {k \in Nat : k <= n => p[k] + (x \div Weight(k + 1)) * Weight(k + 1) = x}
<1>1. n \in Nat \ {0} /\ Full \in Nat /\ Radix \in Nat \ {0} /\ Full = Radix - 1 BY Sizes
<1>2. \A i \in Nat \ {0} : /\ ByteOf(x, i) \in 0 .. Full
                           /\ (x \div Weight(i)) = (x \div Weight(i + 1)) * Radix + ByteOf(x, i)
                           /\ (x \div Weight(i)) \in Nat /\ (x \div Weight(i + 1)) \in Nat
  <2>1. TAKE i \in Nat \ {0}
  <2>2. Weight(i) \in Nat \ {0} /\ Weight(i + 1) = Radix * Weight(i) BY Sizes
  <2>3. PICK w \in Nat \ {0} : w = Weight(i) BY <2>2
  <2>4. (x \div w) = (x \div (Radix * w)) * Radix + ((x \div w) % Radix) /\ ((x \div w) % Radix) \in 0 .. Radix - 1
        /\ (x \div w) \in Nat /\ (x \div (Radix * w)) \in Nat
    BY <1>1, DivTwice
  <2> QED BY <1>1, <2>2, <2>3, <2>4 DEF ByteOf
<1>3. b \in Strings
  <2>1. \A i \in 1 .. n : i \in Nat \ {0} OBVIOUS
  <2> QED BY <1>2, <2>1 DEF Strings, BytesOf
<1>4. p \in [0 .. n -> Nat] /\ p[0] = 0 /\ \A j \in 1 .. n : p[j] = p[j - 1] + b[j] * Weight(j)
  <2> HIDE DEF b
  <2> QED BY <1>3, PrefixesAre
<1>5. \A j \in 1 .. n : b[j] = ByteOf(x, j) BY DEF BytesOf
<1> HIDE DEF p, b
<1>6. 0 \in S
  <2>1. Weight(0 + 1) = 1 BY Sizes
  <2>2. x \div 1 = x
    <3>1. x = x * 1 + 0 /\ 0 \in 0 .. 1 - 1 /\ 1 \in Nat \ {0} OBVIOUS
    <3> QED BY <3>1, DivUnique
  <2>3. 0 + x * 1 = x OBVIOUS
  <2> QED BY <1>4, <2>1, <2>2, <2>3
<1>7. ASSUME NEW k \in Nat, k \in S PROVE k + 1 \in S
  <2>1. SUFFICES ASSUME k + 1 <= n
                 PROVE  p[k + 1] + (x \div Weight((k + 1) + 1)) * Weight((k + 1) + 1) = x
    OBVIOUS
  <2>2. k + 1 \in 1 .. n /\ (k + 1) - 1 = k /\ k \in 0 .. n /\ k + 1 \in Nat \ {0} BY <2>1, <1>1
  <2>3. PICK u \in Nat : u = p[k] BY <1>4, <2>2
  <2>4. PICK w \in Nat : w = Weight(k + 1) BY <2>2, Sizes
  <2>5. PICK d \in 0 .. Full : d = ByteOf(x, k + 1) BY <1>2, <2>2
  <2>6. PICK e \in Nat : e = x \div Weight(k + 1) BY <1>2, <2>2
  <2>7. PICK f \in Nat : f = x \div Weight((k + 1) + 1) BY <1>2, <2>2
  <2>8. e = f * Radix + d BY <1>2, <2>2, <2>5, <2>6, <2>7
  <2>9. u + e * w = x BY <1>7, <2>1, <2>2, <2>3, <2>4, <2>6
  <2>10. p[k + 1] = u + d * w BY <1>4, <1>5, <2>2, <2>3, <2>4, <2>5
  <2>11. Weight((k + 1) + 1) = Radix * w BY <2>2, <2>4, Sizes
  <2>12. (u + d * w) + f * (Radix * w) = x
    <3>1. (f * Radix + d) * w = f * (Radix * w) + d * w BY <1>1
    <3>2. u + (f * Radix + d) * w = x BY <2>8, <2>9
    <3>3. PICK g \in Nat : g = f * (Radix * w) BY <1>1
    <3>4. PICK s \in Nat : s = d * w BY <1>1
    <3> QED BY <3>1, <3>2, <3>3, <3>4
  <2> QED BY <2>7, <2>10, <2>11, <2>12
<1>8. n \in S
  <2> HIDE DEF S
  <2> QED BY <1>1, <1>6, <1>7, SetInduction
<1>9. p[n] + (x \div Weight(n + 1)) * Weight(n + 1) = x BY <1>1, <1>8
<1>10. x \div Weight(n + 1) = 0 /\ Weight(n + 1) \in Nat
  <2>1. Weight(n + 1) = Radix * Weight(n) /\ Weight(n) \in Nat /\ SignWeight = HighBit * Weight(n)
        /\ Radix = 2 * HighBit /\ HighBit \in Nat
    BY <1>1, Sizes
  <2>2. Weight(n + 1) = 2 * SignWeight BY <2>1
  <2>3. Weight(n + 1) \in Nat \ {0} BY <1>1, Sizes
  <2> QED BY <2>2, <2>3, ModSmall
<1>11. p[n] = x
  <2>1. PICK w \in Nat : w = Weight(n + 1) BY <1>10
  <2>2. p[n] + 0 * w = x BY <1>9, <1>10, <2>1
  <2>3. p[n] \in Nat BY <1>1, <1>4
  <2> QED BY <2>2, <2>3
<1> QED BY <1>3, <1>11 DEF p, b, Number

\* A string denotes a number exactly when it is made of that number's bytes.
LEMMA DenotedBy ==
  ASSUME NEW b \in Strings, NEW x \in Nat, x < 2 * SignWeight
  PROVE  Number(b) = x <=> b = BytesOf(x)
<1>1. BytesOf(x) \in Strings /\ Number(BytesOf(x)) = x BY BytesDenote
<1>2. PICK c \in Strings : c = BytesOf(x) BY <1>1
<1>3. Number(b) = Number(c) <=> b = c BY Compared
<1> QED BY <1>1, <1>2, <1>3

\* The number depends on the bytes below a place only through their prefix.
LEMMA PrefixSame ==
  ASSUME NEW b \in Strings, NEW c \in Strings, NEW k \in 0 .. ByteCount,
         \A i \in 1 .. k : b[i] = c[i]
  PROVE  Prefixes(b)[k] = Prefixes(c)[k]
<1> DEFINE n == ByteCount  p == Prefixes(b)  q == Prefixes(c)
           S == {i \in Nat : i <= k => p[i] = q[i]}
<1>1. n \in Nat /\ k \in Nat /\ k <= n BY Sizes
<1>2. p[0] = 0 /\ \A j \in 1 .. n : p[j] = p[j - 1] + b[j] * Weight(j) BY PrefixesAre
<1>3. q[0] = 0 /\ \A j \in 1 .. n : q[j] = q[j - 1] + c[j] * Weight(j) BY PrefixesAre
<1> HIDE DEF p, q
<1>4. 0 \in S BY <1>2, <1>3
<1>5. ASSUME NEW i \in Nat, i \in S PROVE i + 1 \in S
  <2>1. SUFFICES ASSUME i + 1 <= k PROVE p[i + 1] = q[i + 1] OBVIOUS
  <2>2. i + 1 \in 1 .. n /\ i + 1 \in 1 .. k /\ (i + 1) - 1 = i /\ i <= k BY <1>1, <2>1
  <2>3. p[i] = q[i] /\ b[i + 1] = c[i + 1] BY <1>5, <2>2
  <2>4. p[i + 1] = p[(i + 1) - 1] + b[i + 1] * Weight(i + 1) BY <1>2, <2>2
  <2>5. q[i + 1] = q[(i + 1) - 1] + c[i + 1] * Weight(i + 1) BY <1>3, <2>2
  <2> QED BY <2>2, <2>3, <2>4, <2>5
<1>6. k \in S
  <2> HIDE DEF S
  <2> QED BY <1>1, <1>4, <1>5, SetInduction
<1> QED BY <1>1, <1>6 DEF p, q

\* A string without its sign.
Unsigned(b) == [b EXCEPT ![Last] = LowBits(@)]

\* The sign is the high bit of the last byte, and the rest is below it.
LEMMA SignSplit ==
  ASSUME NEW b \in Strings
  PROVE  /\ Unsigned(b) \in Strings /\ Number(Unsigned(b)) \in Nat /\ Number(Unsigned(b)) < SignWeight
         /\ Number(b) = Number(Unsigned(b)) + (IF SignSet(b) THEN SignWeight ELSE 0)
         /\ Unsigned(b)[Last] = LowBits(b[Last])
         /\ \A i \in 1 .. (Last - 1) : Unsigned(b)[i] = b[i]
<1> DEFINE n == ByteCount  c == Unsigned(b)
<1>1. n \in Nat /\ n > 2 /\ Last = n /\ HighBit \in Nat \ {0} /\ Full \in Nat /\ Full = 2 * HighBit - 1 BY Sizes DEF Last
<1>2. PICK d \in 0 .. Full : d = b[n] BY <1>1 DEF Strings
<1>3. PICK e : e = LowBits(d) OBVIOUS
<1>4. e \in 0 .. (HighBit - 1) /\ d = e + (IF d >= HighBit THEN HighBit ELSE 0)
  <2>1. PICK h \in Nat \ {0} : h = HighBit BY <1>1
  <2>2. e = d % h BY <1>3, <2>1 DEF LowBits
  <2>3. CASE d < h
    <3>1. d \in Nat BY <1>1
    <3>2. d % h = d BY <2>3, <3>1, ModSmall
    <3> QED BY <1>1, <2>1, <2>2, <2>3, <3>1, <3>2
  <2>4. CASE d >= h
    <3>1. d = 1 * h + (d - h) /\ d - h \in 0 .. h - 1 /\ d \in Nat BY <1>1, <2>1, <2>4
    <3>2. d % h = d - h BY <3>1, DivUnique
    <3> QED BY <1>1, <2>1, <2>2, <2>4, <3>1, <3>2
  <2> QED BY <1>1, <2>1, <2>3, <2>4
<1>5. c = [i \in 1 .. n |-> IF i = n THEN e ELSE b[i]]
  <2>1. b = [i \in 1 .. n |-> b[i]] BY DEF Strings
  <2>2. c = [i \in DOMAIN b |-> IF i = n THEN LowBits(b[n]) ELSE b[i]] BY <1>1 DEF Unsigned
  <2>3. DOMAIN b = 1 .. n BY <2>1
  <2> QED BY <1>2, <1>3, <2>2, <2>3
<1> HIDE DEF c
<1>6. c \in Strings
  <2>1. e \in 0 .. Full BY <1>1, <1>4
  <2> QED BY <1>5, <2>1 DEF Strings
<1>7. c[n] = e /\ \A i \in 1 .. (n - 1) : c[i] = b[i] BY <1>1, <1>5
<1>8. PICK u \in Nat : u = Prefixes(b)[n - 1] /\ u = Prefixes(c)[n - 1] /\ u < Weight(n)
  <2>1. n - 1 \in 0 .. n /\ (n - 1) + 1 = n BY <1>1
  <2>2. Prefixes(b)[n - 1] = Prefixes(c)[n - 1] BY <1>6, <1>7, <2>1, PrefixSame
  <2>3. Prefixes(b)[n - 1] \in Nat /\ Prefixes(b)[n - 1] < Weight((n - 1) + 1) BY <2>1, PrefixBound
  <2> QED BY <2>1, <2>2, <2>3
<1>9. PICK w \in Nat : w = Weight(n) BY <1>1, Sizes
<1>10. Number(b) = u + d * w /\ Number(c) = u + e * w
  <2>1. n \in 1 .. n BY <1>1
  <2>2. Prefixes(b)[n] = Prefixes(b)[n - 1] + b[n] * Weight(n) BY <2>1, PrefixesAre
  <2>3. Prefixes(c)[n] = Prefixes(c)[n - 1] + c[n] * Weight(n) BY <1>6, <2>1, PrefixesAre
  <2> QED BY <1>2, <1>7, <1>8, <1>9, <2>2, <2>3 DEF Number
<1>11. SignWeight = HighBit * w BY <1>9, Sizes
<1>12. Number(c) \in Nat /\ Number(c) < SignWeight
  <2>1. e + 1 <= HighBit /\ e + 1 \in Nat /\ e \in Nat BY <1>1, <1>4
  <2>2. (e + 1) * w <= HighBit * w BY <1>1, <2>1, MulMono
  <2>3. (e + 1) * w = e * w + w /\ e * w \in Nat BY <2>1
  <2> QED BY <1>8, <1>9, <1>10, <1>11, <2>2, <2>3
<1>13. SignSet(b) <=> d >= HighBit BY <1>1, <1>2 DEF SignSet
<1>14. Number(b) = Number(c) + (IF SignSet(b) THEN SignWeight ELSE 0)
  <2>1. CASE d >= HighBit
    <3>1. d = e + HighBit /\ e \in Nat BY <1>1, <1>4, <2>1
    <3>2. (e + HighBit) * w = e * w + HighBit * w BY <1>1, <3>1
    <3>3. e * w \in Nat /\ HighBit * w \in Nat BY <1>1, <3>1
    <3> QED BY <1>10, <1>11, <1>13, <2>1, <3>1, <3>2, <3>3
  <2>2. CASE ~ (d >= HighBit)
    <3>1. d = e /\ e \in Nat BY <1>1, <1>4, <2>2
    <3>2. e * w \in Nat BY <3>1
    <3> QED BY <1>10, <1>13, <2>2, <3>1, <3>2
  <2> QED BY <2>1, <2>2
<1>15. LowBits(b[Last]) = e BY <1>1, <1>2, <1>3
<1> QED BY <1>1, <1>6, <1>7, <1>12, <1>14, <1>15 DEF c

\* The string whose bytes after the first are the same, the sign apart.
Tailed(v, middle, last) == [i \in 1 .. ByteCount |-> IF i = 1 THEN v ELSE IF i = Last THEN last ELSE middle]

\* What such strings denote.
LEMMA TailedDenote ==
  ASSUME NEW v \in 0 .. Full
  PROVE  /\ Tailed(v, 0, 0) \in Strings /\ Number(Tailed(v, 0, 0)) = v
         /\ Tailed(v, Full, HighBit - 1) \in Strings
         /\ Number(Tailed(v, Full, HighBit - 1)) = (SignWeight - Radix) + v
<1> DEFINE n == ByteCount
<1>1. /\ n \in Nat /\ n > 2 /\ Last = n /\ HighBit \in Nat \ {0} /\ Full \in Nat /\ Radix \in Nat
      /\ Radix = 2 * HighBit /\ Full = Radix - 1
  BY Sizes DEF Last
<1>2. ASSUME NEW m \in 0 .. Full, NEW t \in 0 .. Full
      PROVE  /\ Tailed(v, m, t) \in Strings /\ Tailed(v, m, t)[1] = v /\ Tailed(v, m, t)[n] = t
             /\ \A i \in 2 .. (n - 1) : Tailed(v, m, t)[i] = m
  BY <1>1 DEF Tailed, Strings
<1>3. ASSUME NEW b \in Strings, b[1] = v
      PROVE  Prefixes(b)[1] = v
  <2>1. Prefixes(b)[1] = Prefixes(b)[1 - 1] + b[1] * Weight(1) /\ Prefixes(b)[0] = 0 BY <1>1, PrefixesAre
  <2>2. Weight(1) = 1 BY Sizes
  <2>3. PICK g \in Nat : g = v BY <1>1
  <2>4. 1 - 1 = 0 /\ 0 + g * 1 = g BY <2>3
  <2> QED BY <1>3, <2>1, <2>2, <2>3, <2>4
<1>4. Number(Tailed(v, 0, 0)) = v
  <2>1. PICK b \in Strings : b = Tailed(v, 0, 0) BY <1>1, <1>2
  <2>2. b[1] = v /\ \A i \in 2 .. n : b[i] = 0 BY <1>1, <1>2, <2>1
  <2> DEFINE p == Prefixes(b)  S == {k \in Nat : 1 + k <= n => p[1 + k] = v}
  <2>3. \A i \in 1 .. n : p[i] = p[i - 1] + b[i] * Weight(i) BY PrefixesAre
  <2>4. p[1] = v BY <1>3, <2>2
  <2> HIDE DEF p
  <2>5. 0 \in S BY <2>4
  <2>6. ASSUME NEW k \in Nat, k \in S PROVE k + 1 \in S
    <3>1. SUFFICES ASSUME 1 + (k + 1) <= n PROVE p[1 + (k + 1)] = v OBVIOUS
    <3>2. PICK j \in Nat : j = 1 + (k + 1) OBVIOUS
    <3>3. j \in 1 .. n /\ j \in 2 .. n /\ j - 1 = 1 + k /\ 1 + k <= n /\ j \in Nat \ {0} BY <1>1, <3>1, <3>2
    <3>4. PICK w \in Nat : w = Weight(j) BY <3>3, Sizes
    <3>5. PICK g \in Nat : g = v BY <1>1
    <3>6. p[j] = g + 0 * w BY <2>2, <2>3, <2>6, <3>3, <3>4, <3>5
    <3>7. g + 0 * w = g OBVIOUS
    <3> QED BY <3>2, <3>5, <3>6, <3>7
  <2>7. \A k \in Nat : k \in S
    <3> HIDE DEF S
    <3> QED BY <2>5, <2>6, SetInduction
  <2>8. n - 1 \in Nat /\ 1 + (n - 1) = n BY <1>1
  <2>9. p[n] = v BY <2>7, <2>8 DEF S
  <2> QED BY <2>1, <2>9 DEF p, Number
<1>5. Number(Tailed(v, Full, HighBit - 1)) = (SignWeight - Radix) + v
  <2>1. PICK b \in Strings : b = Tailed(v, Full, HighBit - 1) BY <1>1, <1>2
  <2>2. b[1] = v /\ b[n] = HighBit - 1 /\ \A i \in 2 .. (n - 1) : b[i] = Full
    <3>1. HighBit - 1 \in 0 .. Full /\ Full \in 0 .. Full BY <1>1
    <3> QED BY <1>2, <2>1, <3>1
  <2> DEFINE p == Prefixes(b)  S == {k \in Nat : 1 + k <= n - 1 => p[1 + k] + Radix = v + Weight((1 + k) + 1)}
  <2>3. p \in [0 .. n -> Nat] /\ \A i \in 1 .. n : p[i] = p[i - 1] + b[i] * Weight(i) BY PrefixesAre
  <2>4. p[1] = v BY <1>3, <2>2
  <2> HIDE DEF p
  <2>5. 0 \in S
    <3>1. Weight(1 + 1) = Radix * Weight(1) /\ Weight(1) = 1 BY Sizes
    <3>2. Weight(1 + 1) = Radix BY <1>1, <3>1
    <3>3. 1 + 0 = 1 OBVIOUS
    <3> QED BY <2>4, <3>2, <3>3
  <2>6. ASSUME NEW k \in Nat, k \in S PROVE k + 1 \in S
    <3>1. SUFFICES ASSUME 1 + (k + 1) <= n - 1
                   PROVE  p[1 + (k + 1)] + Radix = v + Weight((1 + (k + 1)) + 1)
      OBVIOUS
    <3>2. PICK j \in Nat : j = 1 + (k + 1) OBVIOUS
    <3>3. /\ j \in 1 .. n /\ j \in 2 .. (n - 1) /\ j - 1 = 1 + k /\ (1 + k) + 1 = j
          /\ 1 + k <= n - 1 /\ j \in Nat \ {0} /\ j - 1 \in 0 .. n
      BY <1>1, <3>1, <3>2
    <3>4. PICK w \in Nat : w = Weight(j) BY <3>3, Sizes
    <3>5. PICK u \in Nat : u = p[j - 1] BY <2>3, <3>3
    <3>6. u + Radix = v + w BY <2>6, <3>3, <3>4, <3>5
    <3>7. p[j] = u + Full * w BY <2>2, <2>3, <3>3, <3>4, <3>5
    <3>8. Weight(j + 1) = Radix * w BY <3>3, <3>4, Sizes
    <3>9. Radix * w = Full * w + w /\ Full * w \in Nat BY <1>1
    <3>10. p[j] + Radix = v + Weight(j + 1) BY <1>1, <3>6, <3>7, <3>8, <3>9
    <3> QED BY <3>2, <3>10
  <2>7. \A k \in Nat : k \in S
    <3> HIDE DEF S
    <3> QED BY <2>5, <2>6, SetInduction
  <2>8. n - 2 \in Nat /\ 1 + (n - 2) = n - 1 /\ (n - 1) + 1 = n /\ n \in 1 .. n /\ n - 1 \in 0 .. n /\ n \in Nat \ {0}
    BY <1>1
  <2>9. p[n - 1] + Radix = v + Weight(n) BY <2>7, <2>8 DEF S
  <2>10. PICK w \in Nat : w = Weight(n) BY <2>8, Sizes
  <2>11. PICK u \in Nat : u = p[n - 1] BY <2>3, <2>8
  <2>12. p[n] = u + (HighBit - 1) * w BY <2>2, <2>3, <2>8, <2>10, <2>11
  <2>13. SignWeight = HighBit * w BY <2>10, Sizes
  <2>14. (HighBit - 1) * w = HighBit * w - w /\ HighBit * w \in Nat BY <1>1
  <2>15. PICK hw \in Nat : hw = HighBit * w BY <2>14
  <2>16. p[n] = u + (hw - w) /\ SignWeight = hw BY <2>12, <2>13, <2>14, <2>15
  <2>17. u + Radix = v + w BY <2>9, <2>10, <2>11
  <2>18. p[n] = (SignWeight - Radix) + v BY <1>1, <2>16, <2>17
  <2> QED BY <2>1, <2>18 DEF p, Number
<1>6. HighBit - 1 \in 0 .. Full /\ Full \in 0 .. Full /\ 0 \in 0 .. Full BY <1>1
<1> QED BY <1>2, <1>4, <1>5, <1>6

\* The comparisons of the tail name one unsigned number each.
LEMMA TailIs ==
  ASSUME NEW b \in Strings, NEW v \in 0 .. Full
  PROVE  /\ b[1] = v /\ low255TailEqual(b, 0, 0) <=> Number(Unsigned(b)) = v
         /\ b[1] = v /\ low255TailEqual(b, Full, HighBit - 1)
              <=> Number(Unsigned(b)) = (SignWeight - Radix) + v
<1> DEFINE n == ByteCount
<1>1. n \in Nat /\ n > 2 /\ Last = n /\ Full \in Nat BY Sizes DEF Last
<1>2. PICK c \in Strings : c = Unsigned(b) BY SignSplit
<1>3. c[n] = LowBits(b[n]) /\ \A i \in 1 .. (n - 1) : c[i] = b[i] BY <1>1, <1>2, SignSplit
<1>4. ASSUME NEW m, NEW t, Tailed(v, m, t) \in Strings
      PROVE  b[1] = v /\ low255TailEqual(b, m, t) <=> Number(c) = Number(Tailed(v, m, t))
  <2>1. PICK d \in Strings : d = Tailed(v, m, t) BY <1>4
  <2>2. Number(c) = Number(d) <=> c = d BY Compared
  <2>3. c = d <=> \A i \in 1 .. n : c[i] = d[i]
    <3>1. c = [i \in 1 .. n |-> c[i]] /\ d = [i \in 1 .. n |-> d[i]] BY DEF Strings
    <3> QED BY <3>1
  <2>4. d[1] = v /\ d[n] = t /\ \A i \in 2 .. (n - 1) : d[i] = m BY <1>1, <2>1 DEF Tailed
  <2>5. 1 .. n = {1, n} \cup (2 .. (n - 1)) /\ 1 .. (n - 1) = {1} \cup (2 .. (n - 1)) BY <1>1
  <2>6. (\A i \in 1 .. n : c[i] = d[i]) <=> c[1] = v /\ c[n] = t /\ \A i \in 2 .. (n - 1) : c[i] = m
    BY <2>4, <2>5
  <2>7. low255TailEqual(b, m, t) <=> LowBits(b[n]) = t /\ \A i \in 2 .. (n - 1) : b[i] = m
    BY <1>1 DEF low255TailEqual
  <2>8. c[1] = b[1] /\ \A i \in 2 .. (n - 1) : c[i] = b[i] BY <1>3, <2>5
  <2>9. c[1] = v /\ c[n] = t /\ (\A i \in 2 .. (n - 1) : c[i] = m) <=> b[1] = v /\ low255TailEqual(b, m, t)
    BY <1>3, <2>7, <2>8
  <2> QED BY <2>1, <2>2, <2>3, <2>6, <2>9
<1>5. b[1] = v /\ low255TailEqual(b, 0, 0) <=> Number(c) = v
  <2>1. Tailed(v, 0, 0) \in Strings /\ Number(Tailed(v, 0, 0)) = v BY TailedDenote
  <2> QED BY <1>4, <2>1
<1>6. b[1] = v /\ low255TailEqual(b, Full, HighBit - 1) <=> Number(c) = (SignWeight - Radix) + v
  <2>1. /\ Tailed(v, Full, HighBit - 1) \in Strings
        /\ Number(Tailed(v, Full, HighBit - 1)) = (SignWeight - Radix) + v
    BY TailedDenote
  <2> QED BY <1>4, <2>1
<1> QED BY <1>2, <1>5, <1>6

\* The comparison of all bytes names the number they are of.
LEMMA WholeIs ==
  ASSUME NEW b \in Strings, NEW x \in Nat, x < SignWeight
  PROVE  b[1] = ByteOf(x, 1) /\ low255Equal(b, BytesOf(x)) <=> Number(Unsigned(b)) = x
<1> DEFINE n == ByteCount
<1>1. n \in Nat /\ n > 2 /\ Last = n /\ SignWeight \in Nat BY Sizes DEF Last
<1>2. PICK c \in Strings : c = Unsigned(b) BY SignSplit
<1>3. c[n] = LowBits(b[n]) /\ \A i \in 1 .. (n - 1) : c[i] = b[i] BY <1>1, <1>2, SignSplit
<1>4. x < 2 * SignWeight BY <1>1
<1>5. PICK d \in Strings : d = BytesOf(x) BY <1>4, BytesDenote
<1>6. Number(c) = x <=> c = d BY <1>4, <1>5, DenotedBy
<1>7. c = d <=> \A i \in 1 .. n : c[i] = d[i]
  <2>1. c = [i \in 1 .. n |-> c[i]] /\ d = [i \in 1 .. n |-> d[i]] BY DEF Strings
  <2> QED BY <2>1
<1>8. d[1] = ByteOf(x, 1) BY <1>1, <1>5 DEF BytesOf
<1>9. 1 .. n = {n} \cup (1 .. (n - 1)) /\ 1 \in 1 .. (n - 1) BY <1>1
<1>10. low255Equal(b, d) <=> LowBits(b[n]) = d[n] /\ \A i \in 1 .. (n - 1) : b[i] = d[i]
  BY <1>1 DEF low255Equal
<1>11. (\A i \in 1 .. n : c[i] = d[i]) <=> c[n] = d[n] /\ \A i \in 1 .. (n - 1) : c[i] = d[i]
  BY <1>9
<1>12. (\A i \in 1 .. n : c[i] = d[i]) <=> low255Equal(b, d) BY <1>3, <1>10, <1>11
<1>13. low255Equal(b, d) => b[1] = ByteOf(x, 1) BY <1>8, <1>9, <1>10
<1> QED BY <1>2, <1>5, <1>6, <1>7, <1>12, <1>13

\* What the decoder reads: the unsigned number, less the modulus for an alias.
LEMMA YIs ==
  ASSUME NEW b \in Strings
  PROVE  /\ Y(b) \in 0 .. (Modulus - 1)
         /\ Number(Unsigned(b)) < Modulus => Y(b) = Number(Unsigned(b))
         /\ Number(Unsigned(b)) >= Modulus => Y(b) = Number(Unsigned(b)) - Modulus
<1>1. PICK x \in Nat : x = Number(Unsigned(b)) BY SignSplit
<1>2. x < SignWeight /\ Number(b) = x + (IF SignSet(b) THEN SignWeight ELSE 0) BY <1>1, SignSplit
<1>3. PICK w \in Nat \ {0} : w = SignWeight BY Sizes
<1>4. PICK p \in Nat \ {0} : p = Modulus BY Bounds
<1>5. w < 2 * p /\ x < w
  BY <1>2, <1>3, <1>4, Bounds
<1>6. Number(b) % SignWeight = x
  <2>1. CASE SignSet(b)
    <3>1. PICK y \in Nat : y = x + w OBVIOUS
    <3>2. y = 1 * w + x /\ x \in 0 .. w - 1 BY <1>5, <3>1
    <3>3. y % w = x BY <3>2, DivUnique
    <3> QED BY <1>2, <1>3, <2>1, <3>1, <3>3
  <2>2. CASE ~ SignSet(b)
    <3>1. x % w = x BY <1>5, ModSmall
    <3>2. Number(b) = x BY <1>2, <2>2
    <3> QED BY <1>3, <3>1, <3>2
  <2> QED BY <2>1, <2>2
<1>7. Y(b) = x % p BY <1>4, <1>6 DEF Y
<1>8. CASE x < p
  <2>1. x % p = x BY <1>8, ModSmall
  <2> QED BY <1>1, <1>4, <1>7, <1>8, <2>1
<1>9. CASE x >= p
  <2>1. x = 1 * p + (x - p) /\ x - p \in 0 .. p - 1 BY <1>5, <1>9
  <2>2. x % p = x - p BY <2>1, DivUnique
  <2> QED BY <1>1, <1>4, <1>7, <1>9, <2>1, <2>2
<1> QED BY <1>8, <1>9

\* The first bytes that SmallOrderEncoding tells apart.
LEMMA FirstBytes ==
  ASSUME NEW b \in Strings
  PROVE  /\ b[1] \in {0, 1} => SmallOrderEncoding(b) = low255TailEqual(b, 0, 0)
         /\ b[1] = ByteOf(NegAlpha, 1) => SmallOrderEncoding(b) = low255Equal(b, BytesOf(NegAlpha))
         /\ b[1] = ByteOf(Alpha, 1) => SmallOrderEncoding(b) = low255Equal(b, BytesOf(Alpha))
         /\ b[1] \in {Radix - Gap - 1, Radix - Gap, Radix - Gap + 1}
              => SmallOrderEncoding(b) = low255TailEqual(b, Full, HighBit - 1)
         /\ b[1] \notin {0, 1, ByteOf(NegAlpha, 1), ByteOf(Alpha, 1), Radix - Gap - 1, Radix - Gap, Radix - Gap + 1}
              => SmallOrderEncoding(b) = FALSE
<1>1. /\ ByteOf(Alpha, 1) # ByteOf(NegAlpha, 1)
      /\ ByteOf(Alpha, 1) \notin {0, 1} /\ ByteOf(NegAlpha, 1) \notin {0, 1}
      /\ ByteOf(Alpha, 1) \notin {Radix - Gap - 1, Radix - Gap, Radix - Gap + 1}
      /\ ByteOf(NegAlpha, 1) \notin {Radix - Gap - 1, Radix - Gap, Radix - Gap + 1}
  BY EncodingAssumption
<1>2. {0, 1} \cap {Radix - Gap - 1, Radix - Gap, Radix - Gap + 1} = {}
  <2>1. Radix \in Nat /\ Gap \in Nat /\ Gap + 3 <= Radix BY Sizes, Bounds
  <2> QED BY <2>1
<1> DEFINE A == {0, 1}  C == {Radix - Gap - 1, Radix - Gap, Radix - Gap + 1}
           f == b[1]  e == ByteOf(NegAlpha, 1)  g == ByteOf(Alpha, 1)
           va == low255TailEqual(b, 0, 0)  ve == low255Equal(b, BytesOf(NegAlpha))
           vg == low255Equal(b, BytesOf(Alpha))  vc == low255TailEqual(b, Full, HighBit - 1)
<1>3. e # g /\ e \notin A /\ g \notin A /\ e \notin C /\ g \notin C /\ \A z : ~ (z \in A /\ z \in C)
  <2>1. \A z : ~ (z \in A /\ z \in C) BY <1>2
  <2>2. e # g /\ e \notin A /\ g \notin A /\ e \notin C /\ g \notin C BY <1>1
  <2> QED BY <2>1, <2>2
<1>4. SmallOrderEncoding(b) = CASE f \in A -> va [] f = e -> ve [] f = g -> vg [] f \in C -> vc [] OTHER -> FALSE
  BY Zenon DEF SmallOrderEncoding
<1> HIDE DEF A, C, f, e, g, va, ve, vg, vc
<1>5. f \in A => SmallOrderEncoding(b) = va
  <2>1. f \in A => f # e /\ f # g /\ f \notin C BY <1>3
  <2> QED BY <1>4, <2>1, Zenon
<1>6. f = e => SmallOrderEncoding(b) = ve
  <2>1. f = e => f \notin A /\ f # g /\ f \notin C BY <1>3
  <2> QED BY <1>4, <2>1, Zenon
<1>7. f = g => SmallOrderEncoding(b) = vg
  <2>1. f = g => f \notin A /\ f # e /\ f \notin C BY <1>3
  <2> QED BY <1>4, <2>1, Zenon
<1>8. f \in C => SmallOrderEncoding(b) = vc
  <2>1. f \in C => f \notin A /\ f # e /\ f # g BY <1>3
  <2> QED BY <1>4, <2>1, Zenon
<1>9. f \notin A /\ f # e /\ f # g /\ f \notin C => SmallOrderEncoding(b) = FALSE
  BY <1>4, Zenon
<1> USE DEF A, C, f, e, g, va, ve, vg, vc
<1> QED BY <1>5, <1>6, <1>7, <1>8, <1>9, Zenon

\* The rule on small order names seven unsigned numbers.
LEMMA SmallOrderNames ==
  ASSUME NEW b \in Strings
  PROVE  /\ SmallOrderEncoding(b) \in BOOLEAN
         /\ SmallOrderEncoding(b)
              <=> Number(Unsigned(b)) \in {0, 1, Modulus - 1, Modulus, Modulus + 1, Alpha, NegAlpha}
<1>1. PICK x \in Nat : x = Number(Unsigned(b)) BY SignSplit
<1>2. /\ Radix \in Nat /\ Full = Radix - 1 /\ Full \in Nat /\ HighBit \in Nat \ {0}
      /\ SignWeight \in Nat /\ SignWeight = Modulus + Gap /\ Modulus \in Nat \ {0} /\ Gap \in Nat
      /\ Gap + 3 <= Radix /\ Gap >= 2
      /\ Alpha \in Nat /\ NegAlpha \in Nat /\ Alpha < SignWeight /\ NegAlpha < SignWeight
      /\ Radix <= SignWeight /\ 2 * Gap <= Modulus
  <2>1. Radix <= SignWeight
    <3>1. SignWeight = HighBit * Weight(ByteCount) /\ HighBit \in Nat \ {0} /\ Radix \in Nat BY Sizes
    <3>2. PICK i \in Nat \ {0} : i + 1 = ByteCount
      <4>1. ByteCount - 1 \in Nat \ {0} /\ (ByteCount - 1) + 1 = ByteCount BY Sizes
      <4> QED BY <4>1
    <3>3. PICK w \in Nat \ {0} : w = Weight(i) BY Sizes
    <3>4. Weight(ByteCount) = Radix * w BY <3>2, <3>3, Sizes
    <3>5. PICK m \in Nat \ {0} : m = HighBit * w /\ SignWeight = m * Radix
      <4>1. HighBit * w \in Nat \ {0}
        <5>1. PICK h \in Nat \ {0} : h = HighBit BY <3>1
        <5>2. 1 * w <= h * w /\ h * w \in Nat BY MulMono
        <5>3. 1 * w = w /\ w >= 1 OBVIOUS
        <5>4. PICK q \in Nat : q = h * w BY <5>2
        <5> QED BY <5>1, <5>2, <5>3, <5>4
      <4>2. HighBit * (Radix * w) = (HighBit * w) * Radix BY <3>1
      <4> QED BY <3>1, <3>4, <4>1, <4>2
    <3>6. 1 * Radix <= m * Radix /\ 1 * Radix = Radix BY <3>1, MulMono
    <3> QED BY <3>5, <3>6
  <2>2. Radix \in Nat /\ Full = Radix - 1 /\ HighBit \in Nat \ {0} /\ SignWeight \in Nat /\ Radix \in Nat \ {0}
    BY Sizes
  <2>3. /\ Modulus \in Nat \ {0} /\ SignWeight = Modulus + Gap /\ Gap \in Nat /\ Gap >= 2
        /\ 2 * Gap <= Modulus /\ Gap + 3 <= Radix
    BY Bounds
  <2>4. Alpha \in Nat /\ NegAlpha \in Nat /\ Alpha + NegAlpha = Modulus
    BY Bounds
  <2>5. Full \in Nat /\ Alpha < SignWeight /\ NegAlpha < SignWeight
    BY <2>2, <2>3, <2>4
  <2> QED BY <2>1, <2>2, <2>3, <2>4, <2>5
<1>3. b[1] \in 0 .. Full /\ b[1] \in Nat
  <2>1. 1 \in 1 .. ByteCount BY Sizes
  <2> QED BY <1>2, <2>1 DEF Strings
<1>4. /\ b[1] = 0 /\ low255TailEqual(b, 0, 0) <=> x = 0
      /\ b[1] = 1 /\ low255TailEqual(b, 0, 0) <=> x = 1
  <2>1. 0 \in 0 .. Full /\ 1 \in 0 .. Full BY <1>2
  <2> QED BY <1>1, <2>1, TailIs
<1>5. /\ b[1] = Radix - Gap - 1 /\ low255TailEqual(b, Full, HighBit - 1) <=> x = Modulus - 1
      /\ b[1] = Radix - Gap /\ low255TailEqual(b, Full, HighBit - 1) <=> x = Modulus
      /\ b[1] = Radix - Gap + 1 /\ low255TailEqual(b, Full, HighBit - 1) <=> x = Modulus + 1
  <2>1. Radix - Gap - 1 \in 0 .. Full /\ Radix - Gap \in 0 .. Full /\ Radix - Gap + 1 \in 0 .. Full BY <1>2
  <2>2. /\ (SignWeight - Radix) + (Radix - Gap - 1) = Modulus - 1
        /\ (SignWeight - Radix) + (Radix - Gap) = Modulus
        /\ (SignWeight - Radix) + (Radix - Gap + 1) = Modulus + 1
    BY <1>2
  <2>3. \A v \in 0 .. Full : b[1] = v /\ low255TailEqual(b, Full, HighBit - 1) <=> x = (SignWeight - Radix) + v
    BY <1>1, TailIs
  <2> QED BY <2>1, <2>2, <2>3
<1>6. b[1] = ByteOf(Alpha, 1) /\ low255Equal(b, BytesOf(Alpha)) <=> x = Alpha
  BY <1>1, <1>2, WholeIs
<1>7. b[1] = ByteOf(NegAlpha, 1) /\ low255Equal(b, BytesOf(NegAlpha)) <=> x = NegAlpha
  BY <1>1, <1>2, WholeIs
<1> DEFINE small == SmallOrderEncoding(b)
           zero == low255TailEqual(b, 0, 0)  full == low255TailEqual(b, Full, HighBit - 1)
           neg == low255Equal(b, BytesOf(NegAlpha))  alpha == low255Equal(b, BytesOf(Alpha))
           e == ByteOf(NegAlpha, 1)  g == ByteOf(Alpha, 1)  f == b[1]
           r == Radix - Gap - 1  r1 == Radix - Gap  r2 == Radix - Gap + 1
<1>8. zero \in BOOLEAN /\ full \in BOOLEAN /\ neg \in BOOLEAN /\ alpha \in BOOLEAN
  BY DEF low255TailEqual, low255Equal
<1>9. /\ f \in {0, 1} => small = zero
      /\ f = e => small = neg
      /\ f = g => small = alpha
      /\ f \in {r, r1, r2} => small = full
      /\ f \notin {0, 1} /\ f # e /\ f # g /\ f \notin {r, r1, r2} => small = FALSE
  BY FirstBytes
<1>10. /\ f = 0 /\ zero <=> x = 0
       /\ f = 1 /\ zero <=> x = 1
       /\ f = r /\ full <=> x = Modulus - 1
       /\ f = r1 /\ full <=> x = Modulus
       /\ f = r2 /\ full <=> x = Modulus + 1
       /\ f = g /\ alpha <=> x = Alpha
       /\ f = e /\ neg <=> x = NegAlpha
  BY <1>4, <1>5, <1>6, <1>7
<1>11. /\ e # g /\ e \notin {0, 1} /\ g \notin {0, 1}
       /\ e \notin {r, r1, r2} /\ g \notin {r, r1, r2} /\ \A z \in {0, 1} : z \notin {r, r1, r2}
  <2>1. \A z \in {0, 1} : z \notin {r, r1, r2} BY <1>2
  <2> QED BY <2>1, EncodingAssumption
<1> HIDE DEF small, zero, full, neg, alpha, e, g, f, r, r1, r2
<1>12. small \in BOOLEAN BY <1>8, <1>9
<1>13. small <=> x \in {0, 1, Modulus - 1, Modulus, Modulus + 1, Alpha, NegAlpha}
  <2> DEFINE names == x = 0 \/ x = 1 \/ x = Modulus - 1 \/ x = Modulus \/ x = Modulus + 1 \/ x = Alpha \/ x = NegAlpha
  <2>1. CASE f \in {0, 1}
    <3>1. f # e /\ f # g /\ f # r /\ f # r1 /\ f # r2 BY <1>11, <2>1
    <3>2. names <=> zero BY <1>10, <2>1, <3>1
    <3> QED BY <1>9, <2>1, <3>2
  <2>2. CASE f = e
    <3>1. f # 0 /\ f # 1 /\ f # g /\ f # r /\ f # r1 /\ f # r2 BY <1>11, <2>2
    <3>2. names <=> neg BY <1>10, <2>2, <3>1
    <3> QED BY <1>9, <2>2, <3>2
  <2>3. CASE f = g
    <3>1. f # 0 /\ f # 1 /\ f # e /\ f # r /\ f # r1 /\ f # r2 BY <1>11, <2>3
    <3>2. names <=> alpha BY <1>10, <2>3, <3>1
    <3> QED BY <1>9, <2>3, <3>2
  <2>4. CASE f \in {r, r1, r2}
    <3>1. f # 0 /\ f # 1 /\ f # e /\ f # g BY <1>11, <2>4
    <3>2. names <=> full BY <1>10, <2>4, <3>1
    <3> QED BY <1>9, <2>4, <3>2
  <2>5. CASE f \notin {0, 1} /\ f # e /\ f # g /\ f \notin {r, r1, r2}
    <3>1. ~ names BY <1>10, <2>5
    <3>2. small = FALSE BY <1>9, <2>5
    <3> QED BY <3>1, <3>2
  <2> QED BY <2>1, <2>2, <2>3, <2>4, <2>5
<1> QED BY <1>1, <1>12, <1>13 DEF small

\* The comparison with the modulus.
LEMMA LessIs ==
  ASSUME NEW b \in Strings
  PROVE  low255LessThanP(b) <=> Number(Unsigned(b)) < Modulus
<1>1. PICK x \in Nat : x = Number(Unsigned(b)) /\ x < SignWeight BY SignSplit
<1>2. /\ Radix \in Nat /\ Full = Radix - 1 /\ Full \in Nat
      /\ SignWeight \in Nat /\ SignWeight = Modulus + Gap /\ Modulus \in Nat /\ Gap \in Nat /\ Gap + 3 <= Radix
  <2>1. Radix \in Nat \ {0} /\ Full = Radix - 1 /\ SignWeight \in Nat BY Sizes
  <2>2. SignWeight = Modulus + Gap /\ Modulus \in Nat /\ Gap \in Nat /\ Gap + 3 <= Radix BY Bounds
  <2> QED BY <2>1, <2>2
<1>3. b[1] \in 0 .. Full
  <2>1. 1 \in 1 .. ByteCount BY Sizes
  <2> QED BY <2>1 DEF Strings
<1> DEFINE full == low255TailEqual(b, Full, HighBit - 1)
<1>4. low255LessThanP(b) <=> ~ full \/ b[1] < Radix - Gap
  BY DEF low255LessThanP, low255TailEqual
<1>5. \A v \in 0 .. Full : b[1] = v /\ full <=> x = (SignWeight - Radix) + v
  BY <1>1, TailIs
<1> HIDE DEF full
<1>6. ASSUME full, ~ (b[1] < Radix - Gap) PROVE ~ (x < Modulus)
  BY <1>2, <1>3, <1>5, <1>6
<1>7. ASSUME ~ (x < Modulus) PROVE full /\ ~ (b[1] < Radix - Gap)
  <2>1. PICK v \in Int : v = x - (SignWeight - Radix) BY <1>2
  <2>2. v \in 0 .. Full /\ v >= Radix - Gap /\ x = (SignWeight - Radix) + v BY <1>1, <1>2, <1>7, <2>1
  <2>3. b[1] = v /\ full BY <1>5, <2>2
  <2> QED BY <1>2, <2>1, <2>2, <2>3
<1> QED BY <1>1, <1>4, <1>6, <1>7

\* One and minus one square to one.
LEMMA RootsOfOne == Sq(1) = 1 /\ Sq(Modulus - 1) = 1
<1>1. PICK p \in Nat \ {0} : p = Modulus /\ p >= 4 BY Bounds
<1>2. Sq(1) = 1
  <2>1. 1 \in Nat /\ 1 < p /\ 1 * 1 = 1 BY <1>1
  <2>2. 1 % p = 1 BY <1>1, <2>1, ModSmall
  <2> QED BY <1>1, <2>1, <2>2 DEF Sq, Mul
<1>3. Sq(Modulus - 1) = 1
  <2>1. (p - 1) * (p - 1) = (p - 2) * p + 1 OBVIOUS
  <2>2. PICK y \in Nat : y = (p - 1) * (p - 1)
    <3>1. p - 1 \in Nat OBVIOUS
    <3>2. (p - 1) * (p - 1) \in Nat BY <3>1
    <3> QED BY <3>2
  <2>3. PICK q \in Nat : q = p - 2 BY <1>1
  <2>4. y = q * p + 1 /\ 1 \in 0 .. p - 1 BY <1>1, <2>1, <2>2, <2>3
  <2>5. y % p = 1 BY <2>4, DivUnique
  <2> QED BY <1>1, <2>2, <2>5 DEF Sq, Mul
<1> QED BY <1>2, <1>3

\* SmallOrderEncoding, for every string.
LEMMA SmallOrderHolds ==
  ASSUME NEW b \in Strings
  PROVE  SmallOrderExact(b)
<1>1. PICK x \in Nat : x = Number(Unsigned(b)) /\ x < SignWeight BY SignSplit
<1>2. PICK y \in 0 .. (Modulus - 1) :
        y = Y(b) /\ (x < Modulus => y = x) /\ (x >= Modulus => y = x - Modulus)
  BY <1>1, YIs
<1>3. SmallOrder(y) <=> y \in {0, 1, Modulus - 1, Alpha, NegAlpha} BY EncodingAssumption
<1>4. /\ SmallOrderEncoding(b) \in BOOLEAN
      /\ SmallOrderEncoding(b) <=> x \in {0, 1, Modulus - 1, Modulus, Modulus + 1, Alpha, NegAlpha}
  BY <1>1, SmallOrderNames
<1>5. /\ Modulus \in Nat \ {0} /\ SignWeight = Modulus + Gap /\ Gap \in Nat /\ Gap >= 2 /\ 2 * Gap <= Modulus
      /\ Alpha \in Nat /\ NegAlpha \in Nat /\ Alpha + NegAlpha = Modulus /\ Alpha >= Gap /\ NegAlpha >= Gap
  BY Bounds
<1>6. x \in {0, 1, Modulus - 1, Modulus, Modulus + 1, Alpha, NegAlpha}
        <=> y \in {0, 1, Modulus - 1, Alpha, NegAlpha}
  BY <1>1, <1>2, <1>5
<1>7. SmallOrder(y) \in BOOLEAN BY DEF SmallOrder
<1>8. SmallOrderEncoding(b) = SmallOrder(y) BY <1>3, <1>4, <1>6, <1>7
<1> QED BY <1>2, <1>8 DEF SmallOrderExact, packedEncodesSmallOrderPoint

\* CanonicalREncoding, for every string.
LEMMA CanonicalRHolds ==
  ASSUME NEW b \in Strings
  PROVE  CanonicalRExact(b)
<1>1. PICK x \in Nat : x = Number(Unsigned(b)) /\ x < SignWeight BY SignSplit
<1>2. PICK y \in 0 .. (Modulus - 1) :
        y = Y(b) /\ (x < Modulus => y = x) /\ (x >= Modulus => y = x - Modulus)
  BY <1>1, YIs
<1>3. Modulus \in Nat \ {0} /\ SignWeight = Modulus + Gap /\ Gap \in Nat /\ Gap + 3 <= Radix BY Bounds
<1>4. PICK w \in Nat : w = SignWeight BY Sizes
<1>5. Radix \in Nat /\ Full = Radix - 1 BY Sizes
<1> DEFINE sign == SignSet(b) /\ Sq(y) # 1
           back == y + (IF sign THEN SignWeight ELSE 0)
<1>6. y \in Nat /\ back \in Nat /\ back < 2 * SignWeight
  BY <1>3, <1>4
<1>7. b = BytesOf(back) <=> Number(b) = back
  <2> HIDE DEF back
  <2> QED BY <1>6, DenotedBy
<1>8. Number(b) = x + (IF SignSet(b) THEN SignWeight ELSE 0) BY <1>1, SignSplit
<1>9. low255LessThanP(b) <=> x < Modulus BY <1>1, LessIs
<1>10. b[1] = 1 /\ low255TailEqual(b, 0, 0) <=> x = 1
  <2>1. 1 \in 0 .. Full BY <1>3, <1>5
  <2> QED BY <1>1, <2>1, TailIs
<1>11. b[1] = Radix - Gap - 1 /\ low255TailEqual(b, Full, HighBit - 1) <=> x = Modulus - 1
  <2>1. PICK v \in 0 .. Full : v = Radix - Gap - 1 BY <1>3, <1>5
  <2>2. b[1] = v /\ low255TailEqual(b, Full, HighBit - 1) <=> x = (SignWeight - Radix) + v
    BY <1>1, TailIs
  <2>3. (SignWeight - Radix) + v = Modulus - 1 BY <1>3, <1>5, <2>1
  <2> QED BY <2>1, <2>2, <2>3
<1>12. CanonicalREncoding(b) <=> x < Modulus /\ (SignSet(b) => x # 1 /\ x # Modulus - 1)
  BY <1>9, <1>10, <1>11 DEF CanonicalREncoding
<1>13. Sq(y) = 1 <=> y \in {1, Modulus - 1}
  BY RootsOfOne, EncodingAssumption
<1>14. Number(b) = back <=> x < Modulus /\ (SignSet(b) => x # 1 /\ x # Modulus - 1)
  <2>1. CASE ~ SignSet(b)
    <3>1. Number(b) = x /\ back = y BY <1>6, <1>8, <2>1
    <3> HIDE DEF back
    <3> QED BY <1>2, <1>3, <2>1, <3>1
  <2>2. CASE SignSet(b) /\ Sq(y) # 1
    <3>1. Number(b) = x + w /\ back = y + w BY <1>4, <1>8, <2>2
    <3>2. y # 1 /\ y # Modulus - 1 BY <1>13, <2>2
    <3> HIDE DEF back
    <3> QED BY <1>2, <1>3, <2>2, <3>1, <3>2
  <2>3. CASE SignSet(b) /\ Sq(y) = 1
    <3>1. Number(b) = x + w /\ back = y BY <1>4, <1>6, <1>8, <2>3
    <3>2. y = 1 \/ y = Modulus - 1 BY <1>13, <2>3
    <3> HIDE DEF back
    <3> QED BY <1>2, <1>3, <1>4, <2>3, <3>1, <3>2
  <2> QED BY <2>1, <2>2, <2>3
<1>15. CanonicalREncoding(b) \in BOOLEAN BY DEF CanonicalREncoding
<1>16. CanonicalREncoding(b) = (b = BytesOf(back)) BY <1>7, <1>12, <1>14, <1>15
<1> QED BY <1>2, <1>16 DEF CanonicalRExact, packedCanonicalREncoding

\* The comparisons of scalars, for every string.
LEMMA ScalarHolds ==
  ASSUME NEW b \in Strings
  PROVE  ScalarExact(b)
<1>1. PICK q \in Nat : q = ScalarOrder /\ q < 2 * SignWeight /\ q >= 2
  <2>1. Modulus \in Nat /\ SignWeight = Modulus + Gap /\ Gap \in Nat /\ ScalarOrder \in 2 .. (Modulus - 1) BY Bounds
  <2> QED BY <2>1
<1>2. PICK m \in Nat : m = q - 1 /\ m < 2 * SignWeight BY <1>1, Sizes
<1>3. PICK c \in Strings : c = BytesOf(q) /\ Number(c) = q BY <1>1, BytesDenote
<1>4. PICK d \in Strings : d = BytesOf(m) /\ Number(d) = m BY <1>2, BytesDenote
<1>5. PICK x \in Nat : x = Number(b)
  <2>1. ByteCount \in 0 .. ByteCount BY Sizes
  <2> QED BY <2>1, PrefixBound DEF Number
<1> DEFINE h == HighestDifference(b, c)  k == HighestDifference(b, d)
<1>6. h # 0 /\ b[h] < c[h] <=> x < q BY <1>3, <1>5, Compared
<1>7. (k # 0 /\ b[k] < d[k] <=> x < m) /\ (k = 0 <=> x = m) BY <1>4, <1>5, Compared
<1>8. h # 0 => c[h] = ByteOf(q, h)
  <2>1. h # 0 => h \in 1 .. ByteCount BY HighestIs
  <2> QED BY <1>3, <2>1 DEF BytesOf
<1>9. k # 0 => d[k] = ByteOf(m, k)
  <2>1. k # 0 => k \in 1 .. ByteCount BY HighestIs
  <2> QED BY <1>4, <2>1 DEF BytesOf
<1>10. CanonicalScalarEncoding(b) <=> h # 0 /\ b[h] < ByteOf(q, h)
  BY <1>1, <1>3 DEF CanonicalScalarEncoding
<1>11. isReduced(b) <=> k = 0 \/ b[k] < ByteOf(m, k)
  BY <1>1, <1>2, <1>4 DEF isReduced
<1> HIDE DEF h, k
<1>12. CanonicalScalarEncoding(b) <=> x < q BY <1>6, <1>8, <1>10
<1>13. isReduced(b) <=> x < q
  <2>1. x < q <=> x < m \/ x = m BY <1>1, <1>2
  <2> QED BY <1>7, <1>9, <1>11, <2>1
<1>14. CanonicalScalarEncoding(b) \in BOOLEAN /\ isReduced(b) \in BOOLEAN
  BY DEF CanonicalScalarEncoding, isReduced
<1> QED BY <1>1, <1>5, <1>12, <1>13, <1>14 DEF ScalarExact, canonicalScalarBytes, lessLittleEndian

\* The byte rules decide exactly what they stand for, for every string: the
\* small-order test names every alias of the points of order dividing eight, a
\* canonical R is the encoding of the point it decodes to, and every comparison
\* of a scalar with the order accepts exactly the reduced ones.
THEOREM EncodingAlwaysExact == EncodingSpec => []EncodingExact
<1> DEFINE Good == encoding \in Strings
<1>1. 0 \in 0 .. Full /\ 1 \in 1 .. ByteCount /\ Full \in Nat
  BY Sizes
<1>2. EncodingInit => Good
  BY DEF EncodingInit, Strings
<1>3. Good /\ [EncodingNext]_encoding => Good'
  <2>1. SUFFICES ASSUME encoding \in Strings, EncodingNext PROVE encoding' \in Strings OBVIOUS
  <2>2. encoding[1] \in 0 .. Full /\ encoding[1] < Full /\ encoding' = [encoding EXCEPT ![1] = encoding[1] + 1]
    BY <1>1, <2>1 DEF EncodingNext, Strings
  <2>3. encoding[1] + 1 \in 0 .. Full BY <1>1, <2>2
  <2> QED BY <1>1, <2>1, <2>2, <2>3 DEF Strings
<1>4. Good => EncodingExact
  BY SmallOrderHolds, CanonicalRHolds, ScalarHolds DEF EncodingExact
<1> QED BY <1>2, <1>3, <1>4, PTL DEF EncodingSpec

=============================================================================
