---------------------------- MODULE R51Pipeline ----------------------------
(***************************************************************************)
(* The complete r51 verifier core (ed25519/backend_r51experiment.go) in    *)
(* its two forms: the paired form decodes A and R together and compares    *)
(* points, the encoded-Q form decodes A only and compares encodings.  A    *)
(* batch is cut into groups of one register pair; a group is one x8 or two *)
(* x4 evaluations over masks of live lanes.                                *)
(***************************************************************************)
EXTENDS Integers, FiniteSets, FiniteSetsExt

CONSTANTS
  X4,          \* r51x5.X4Lanes
  Batches      \* functions 0..n-1 -> Kind

X8 == 2 * X4

\* good     Encode(Q) is the signature's R
\* bad      R is another point
\* badR     R is no point
\* alias    R is a non-canonical encoding of Q
\* weak     Encode(Q) is R, but A or R has small order
\* scalar   S is not canonical
\* badA     A is no point
Kind == {"good", "bad", "badR", "alias", "weak", "scalar", "badA"}
Profiles == {"DalekStrict", "StdlibCompat"}
PipelineKinds == {"x4", "twoX4", "x8"}

R51PipelineAssumption ==
  /\ X4 \in Nat \ {0}
  /\ \A b \in Batches : /\ IsFiniteSet(DOMAIN b)
                       /\ b \in [0 .. (Cardinality(DOMAIN b) - 1) -> Kind]

VARIABLES
  kind, encodedQReference,     \* constant: the pipeline
  pc, batch, profile, ok,
  offset

vars == <<kind, encodedQReference, pc, batch, profile, ok, offset>>

NoBatch == [i \in {} |-> FALSE]
Size == Cardinality(DOMAIN batch)

GroupWidth == IF kind = "x4" THEN X4 ELSE X8
Count == Min({Size - offset, GroupWidth})

\* prepareR51Signature: the byte rules of the profile.
prepareR51Signature(i) ==
  /\ batch[i] # "scalar"
  /\ profile = "DalekStrict" => batch[i] \notin {"weak", "alias"}

\* The paired decoder drops lanes whose A or R is no point, the other one
\* lanes whose A is no point.
Decoded(i) ==
  /\ batch[i] # "badA"
  /\ ~encodedQReference => batch[i] # "badR"

\* EqualCompactAffine compares points; it cannot see how R was encoded.
EqualCompactAffine(i) == batch[i] \in {"good", "weak", "alias"}

\* Encode(Q) compared with the signature's bytes.
EncodedEqual(i) == batch[i] \in {"good", "weak"}

\* r51FinalMaskX4 and X8: only the strict profile compares points.
FinalMask(lanes) ==
  {l \in lanes : IF profile = "DalekStrict" /\ ~encodedQReference
                 THEN EqualCompactAffine(offset + l) ELSE EncodedEqual(offset + l)}

candidates == {l \in 0 .. (Count - 1) : prepareR51Signature(offset + l)}
live == {l \in candidates : Decoded(offset + l)}

\* Half h of a group sees the mask shifted down: half 0 also carries the bits
\* of half 1, which the x4 kernels mask off.
HalfMask(h) == {l - h * X4 : l \in {m \in live : m >= h * X4}}
HalfLanes(h) == {l + h * X4 : l \in HalfMask(h) \cap (0 .. (X4 - 1))}

accepted ==
  IF kind = "x8" THEN FinalMask(live)
  ELSE UNION {FinalMask(HalfLanes(h)) : h \in {h \in 0 .. 1 : HalfMask(h) # {}}}

-----------------------------------------------------------------------------

Init ==
  /\ kind \in PipelineKinds /\ encodedQReference \in BOOLEAN
  /\ pc = "idle" /\ batch = NoBatch /\ profile = "DalekStrict"
  /\ ok = NoBatch /\ offset = 0

VerifyBatch ==
  /\ pc = "idle"
  /\ batch' \in Batches /\ profile' \in Profiles
  /\ ok' = [i \in DOMAIN batch' |-> FALSE]
  /\ offset' = 0 /\ pc' = "groups"
  /\ UNCHANGED <<kind, encodedQReference>>

\* verifyGroupX8 or verifyGroupTwoX4; a group without live lanes writes
\* nothing, any other group writes all its verdicts.
VerifyGroup ==
  /\ pc = "groups" /\ offset < Size
  /\ ok' = [i \in DOMAIN ok |->
              IF live # {} /\ i \in offset .. (offset + Count - 1)
              THEN i - offset \in accepted ELSE ok[i]]
  /\ offset' = offset + GroupWidth
  /\ UNCHANGED <<kind, encodedQReference, pc, batch, profile>>

ClearedVerdicts == DOMAIN ok

\* A kernel fails in a group that has candidates.
GroupError ==
  /\ pc = "groups" /\ offset < Size /\ candidates # {}
  /\ ok' = [i \in DOMAIN ok |-> IF i \in ClearedVerdicts THEN FALSE ELSE ok[i]]
  /\ pc' = "failed"
  /\ UNCHANGED <<kind, encodedQReference, batch, profile, offset>>

Return ==
  /\ pc = "groups" /\ offset >= Size
  /\ pc' = "returned"
  /\ UNCHANGED <<kind, encodedQReference, batch, profile, ok, offset>>

Consume ==
  /\ pc \in {"returned", "failed"} /\ pc' = "idle"
  /\ batch' = NoBatch /\ ok' = NoBatch /\ offset' = 0 /\ profile' = "DalekStrict"
  /\ UNCHANGED <<kind, encodedQReference>>

Next == VerifyBatch \/ VerifyGroup \/ GroupError \/ Return \/ Consume

Spec == Init /\ [][Next]_vars

-----------------------------------------------------------------------------
\* As a batch verifier (BatchContract): the verdict both profiles define is the
\* byte rules, a key that decodes, and Encode(Q) equal to R byte for byte.
Asked(b, p) == [i \in DOMAIN b |-> [k |-> b[i], p |-> p]]
Requests == {Asked(b, p) : b \in Batches, p \in Profiles}
Accepts(item) == item.k = "good" \/ (item.k = "weak" /\ item.p = "StdlibCompat")
phase == IF pc = "groups" THEN "called" ELSE pc
Request == Asked(batch, profile)
=============================================================================
