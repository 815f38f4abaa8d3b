----------------------------- MODULE BatchEncode -----------------------------
(***************************************************************************)
(* Encoding and comparing the results of a batch: r51x5/                   *)
(* batch_encode_ifma.go, batch_encode_ifma_x8_experiment.go and            *)
(* batch_compare_ifma.go.  The groups of a batch share one inversion, lane *)
(* by lane (Montgomery's trick), so a lane of one group can spoil the same *)
(* lane of every other.  The workspace of prefix products and inverses is  *)
(* reused from call to call and never cleared.                             *)
(***************************************************************************)
EXTENDS FieldLanes, FiniteSets

CONSTANTS
  MaxGroups,
  Leftovers,   \* what an earlier call may have left in the workspace
  Calls        \* inputs: [op, width, groups, active, points, encoded]

GroupIds == 1 .. MaxGroups
HighBit == 0   \* stands for the bits of a mask above its lanes
Encoding == (0 .. (P + Gap - 1)) \X {0, 1}
Coordinates == [X : Fe, Y : Fe, Z : Fe, inRange : BOOLEAN]

ASSUME BatchEncodeAssumption ==
  /\ MaxGroups \in Nat
  /\ HighBit \notin Lanes /\ Lanes # {} /\ Leftovers \subseteq Fe
  /\ \A c \in Calls :
       /\ c.op \in {"encode", "compare"} /\ c.width \in {"x4", "x8"} /\ c.groups \in Nat
       /\ c.width = "x8" => c.op = "encode" /\ \A g \in GroupIds : HighBit \notin c.active[g]
       /\ c.active \in [GroupIds -> SUBSET (Lanes \cup {HighBit})]
       /\ c.points \in [GroupIds -> [Lanes -> Coordinates]]
       /\ c.encoded \in [GroupIds -> [Lanes -> Encoding]]

ZeroBytes == <<0, 0>>
Untouched == <<>>

VARIABLES
  pc,         \* "idle", "check", "y", "prefix", "total", "recover", "emit", "done"
  call,
  mask,       \* the lanes that take part in the inversion
  group,      \* the loop index
  prefix, inverseZ, staged,   \* the workspace
  inverseProduct,
  out,        \* encodings or matching lanes, per group
  err

workspace == <<prefix, inverseZ, staged>>
encodeVars == <<pc, call, mask, group, prefix, inverseZ, staged, inverseProduct, out, err>>

EncodeInit ==
  /\ pc = "idle" /\ call = <<>> /\ mask = <<>> /\ group = 0
  /\ \E s \in Leftovers :
       /\ prefix = [g \in GroupIds |-> [l \in Lanes |-> s]]
       /\ inverseZ = [g \in GroupIds |-> [l \in Lanes |-> s]]
       /\ staged = [g \in GroupIds |-> [l \in Lanes |-> <<s, 1>>]]
  /\ inverseProduct = <<>> /\ out = [g \in GroupIds |-> Untouched] /\ err = "none"

Live(g) == mask[g] \cap Lanes
Return(e) == pc' = "done" /\ err' = e
Commit(results) == out' = [g \in GroupIds |-> IF g <= call.groups THEN results[g] ELSE out[g]]
Selected == 1 .. call.groups
InRange(g) == \A l \in Lanes : call.points[g][l].inRange
Zeroed(groups) == [g \in GroupIds |-> IF g \in groups THEN [l \in Lanes |-> ZeroBytes] ELSE staged[g]]

Begin ==
  /\ pc = "idle"
  /\ call' \in Calls
  /\ pc' = "check"
  /\ UNCHANGED <<mask, group, workspace, inverseProduct, out, err>>

\* The boundary of an entry point refuses the group count, a mask with bits
\* above its lanes, or a lane, live or not, whose limbs are out of range.
WrongCount == call.groups < 1 \/ call.groups > MaxGroups
HighMask == \E g \in Selected : HighBit \in call.active[g]
Refuse(e) == Return(e) /\ UNCHANGED <<mask, group, out>>
\* Otherwise a call without a live lane ends here with nothing.
Admit(nothing, next) ==
  IF \A g \in Selected : call.active[g] = {}
  THEN Return("none") /\ Commit([g \in GroupIds |-> [l \in Lanes |-> nothing]]) /\ UNCHANGED <<mask, group>>
  ELSE /\ mask' = [g \in GroupIds |-> IF g \in Selected THEN call.active[g] ELSE {}]
       /\ pc' = next /\ group' = 0
       /\ UNCHANGED <<out, err>>

CheckEncodeX4 ==
  /\ pc = "check" /\ call.op = "encode" /\ call.width = "x4"
  /\ \/ WrongCount /\ Refuse("count") /\ UNCHANGED staged
     \/ ~WrongCount /\ (HighMask \/ \E g \in Selected : ~InRange(g)) /\ Refuse("boundary") /\ UNCHANGED staged
     \/ /\ ~WrongCount /\ ~HighMask /\ \A g \in Selected : InRange(g)
        /\ staged' = Zeroed(Selected)
        /\ Admit(ZeroBytes, "prefix")
  /\ UNCHANGED <<call, prefix, inverseZ, inverseProduct>>

\* The eight-lane entry point zeroes each group as it passes the range test.
CheckEncodeX8 ==
  LET wild == {g \in Selected : ~InRange(g)} IN
  /\ pc = "check" /\ call.op = "encode" /\ call.width = "x8"
  /\ \/ WrongCount /\ Refuse("count") /\ UNCHANGED staged
     \/ /\ ~WrongCount /\ wild # {}
        /\ staged' = Zeroed({g \in Selected : \A h \in wild : g < h})
        /\ Refuse("boundary")
     \/ ~WrongCount /\ wild = {} /\ staged' = Zeroed(Selected) /\ Admit(ZeroBytes, "prefix")
  /\ UNCHANGED <<call, prefix, inverseZ, inverseProduct>>

CheckCompare ==
  /\ pc = "check" /\ call.op = "compare"
  /\ \/ WrongCount /\ Refuse("count")
     \/ ~WrongCount /\ (HighMask \/ \E g \in Selected : ~InRange(g)) /\ Refuse("boundary")
     \/ ~WrongCount /\ ~HighMask /\ (\A g \in Selected : InRange(g)) /\ Admit(FALSE, "y")
  /\ UNCHANGED <<call, workspace, inverseProduct>>

-----------------------------------------------------------------------------
\* The comparison: lanes whose y is canonical and equals Y/Z survive.

canonicalCompressedY(e, active) == {l \in active : e[l][1] < P}

CompareY ==
  /\ pc = "y"
  /\ LET survivors ==
           [g \in GroupIds |->
              {l \in canonicalCompressedY(call.encoded[g], Live(g)) :
                 call.points[g][l].Y = Times(call.encoded[g][l][1], call.points[g][l].Z)}]
     IN IF \A g \in GroupIds : survivors[g] = {}
        THEN Return("none") /\ Commit([g \in GroupIds |-> [l \in Lanes |-> FALSE]]) /\ UNCHANGED mask
        ELSE mask' = survivors /\ pc' = "prefix" /\ UNCHANGED <<out, err>>
  /\ UNCHANGED <<call, group, workspace, inverseProduct>>

-----------------------------------------------------------------------------
\* The shared inversion.

sanitizedBatchEncodeZ(g) == [l \in Lanes |-> IF l \in Live(g) THEN call.points[g][l].Z ELSE 1]
sanitizedBatchEncodeZX8(g) == sanitizedBatchEncodeZ(g)
SanitizedZ(g) == IF call.width = "x4" THEN sanitizedBatchEncodeZ(g) ELSE sanitizedBatchEncodeZX8(g)

\* The first group with a live lane; its prefix is its own Z.
First == CHOOSE g \in GroupIds : Live(g) # {} /\ \A h \in 1 .. (g - 1) : Live(h) = {}

\* The prefix products, and the check of their total: a zero Z is found in it
\* before it is inverted to zero.
Prefix(g) ==
  /\ prefix' = [prefix EXCEPT ![g] =
       IF group = 0 THEN SanitizedZ(g)
       ELSE IF Live(g) = {} THEN prefix[g - 1]
       ELSE [l \in Lanes |-> Times(prefix[g - 1][l], SanitizedZ(g)[l])]]
  /\ group' = g
  /\ pc' = IF g = call.groups THEN "total" ELSE "prefix"
  /\ UNCHANGED <<call, mask, inverseZ, staged, inverseProduct, out, err>>

Total ==
  /\ pc = "total"
  /\ IF \E l \in UNION {Live(g) : g \in First .. call.groups} : prefix[call.groups][l] = 0
     THEN Return("zeroZ") /\ UNCHANGED inverseProduct
     ELSE /\ inverseProduct' = [l \in Lanes |-> Inverses[prefix[call.groups][l]]]
          /\ pc' = "recover" /\ UNCHANGED err
  /\ UNCHANGED <<call, mask, group, workspace, out>>

\* Mutant: the running inverse keeps the Z of the group it has served.
RecoverUnscaled ==
  /\ IF group = First
     THEN /\ inverseZ' = [inverseZ EXCEPT ![group] = inverseProduct]
          /\ pc' = "emit" /\ group' = 1 /\ UNCHANGED inverseProduct
     ELSE /\ inverseZ' = [inverseZ EXCEPT ![group] = [l \in Lanes |-> Times(inverseProduct[l], prefix[group - 1][l])]]
          /\ group' = group - 1 /\ UNCHANGED <<pc, inverseProduct>>
  /\ UNCHANGED <<call, mask, prefix, staged, out, err>>

\* Backwards: the inverse of a group's Z, then the running inverse without it.
Recover ==
  /\ IF group = First
     THEN /\ inverseZ' = [inverseZ EXCEPT ![group] = inverseProduct]
          /\ pc' = "emit" /\ group' = 1 /\ UNCHANGED inverseProduct
     ELSE /\ IF Live(group) = {} THEN UNCHANGED <<inverseZ, inverseProduct>>
             ELSE /\ inverseZ' = [inverseZ EXCEPT ![group] =
                                    [l \in Lanes |-> Times(inverseProduct[l], prefix[group - 1][l])]]
                  /\ inverseProduct' = [l \in Lanes |-> Times(inverseProduct[l], SanitizedZ(group)[l])]
          /\ group' = group - 1 /\ UNCHANGED pc
  /\ UNCHANGED <<call, mask, prefix, staged, out, err>>

NextGroup == IF group = 0 THEN First ELSE group + 1
batchInvertPointZX4 ==
  /\ pc \in {"prefix", "recover"} /\ call.width = "x4"
  /\ \/ pc = "prefix" /\ Prefix(NextGroup)
     \/ pc = "recover" /\ Recover
batchInvertPointZX8 ==
  /\ pc \in {"prefix", "recover"} /\ call.width = "x8"
  /\ \/ pc = "prefix" /\ Prefix(NextGroup)
     \/ pc = "recover" /\ Recover

-----------------------------------------------------------------------------
\* The result of one group, staged; all groups are committed together.

encodeAffine(g) ==
  [l \in Lanes |->
     IF l \in Live(g)
     THEN <<Times(call.points[g][l].Y, inverseZ[g][l]), Times(call.points[g][l].X, inverseZ[g][l]) % 2>>
     ELSE staged[g][l]]
encodeAffineX8(g) == encodeAffine(g)
Staged(g) == IF call.width = "x4" THEN encodeAffine(g) ELSE encodeAffineX8(g)
\* The lanes whose x has the sign the encoding asks for.
compareSign(g) ==
  [l \in Lanes |-> /\ l \in Live(g)
                   /\ Times(call.points[g][l].X, inverseZ[g][l]) % 2 = call.encoded[g][l][2]]

EmitStep ==
  /\ pc = "emit"
  /\ LET results == [staged EXCEPT ![group] = IF call.op = "encode" THEN Staged(group) ELSE staged[group]]
     IN /\ staged' = results
        /\ IF group = call.groups
           THEN Return("none") /\ UNCHANGED group
                /\ Commit(IF call.op = "encode" THEN results ELSE [g \in GroupIds |-> compareSign(g)])
           ELSE group' = group + 1 /\ UNCHANGED <<pc, out, err>>
  /\ UNCHANGED <<call, mask, prefix, inverseZ, inverseProduct>>

\* A product reports an error; before the first, the CPU may lack the kernel.
Fail ==
  /\ pc \in {"check", "y", "prefix", "total", "recover", "emit"}
  /\ Return("arithmetic")
  /\ UNCHANGED <<call, mask, group, workspace, inverseProduct, out>>

EncodeNext == Begin \/ CheckEncodeX4 \/ CheckEncodeX8 \/ CheckCompare \/ CompareY
              \/ batchInvertPointZX4 \/ batchInvertPointZX8 \/ Total \/ EmitStep \/ Fail

EncodeSpec == EncodeInit /\ [][EncodeNext]_encodeVars

-----------------------------------------------------------------------------
\* The encoding of one point, by itself; a zero Z has none.
Encode(p) == IF p.Z = 0 THEN Untouched ELSE <<Times(p.Y, Inverses[p.Z]), Times(p.X, Inverses[p.Z]) % 2>>
ActiveIn(g) == IF g <= call.groups THEN call.active[g] \cap Lanes ELSE {}

\* The shared inversion gives every live lane the encoding of its own point
\* and every other lane of the selected groups zero bytes, whatever the
\* neighbours hold and whatever an earlier call left in the workspace.
EncodingsExact ==
  pc = "done" /\ call.op = "encode" /\ err = "none" =>
    \A g \in GroupIds :
      out[g] = IF g > call.groups THEN Untouched
               ELSE [l \in Lanes |-> IF l \in ActiveIn(g) THEN Encode(call.points[g][l]) ELSE ZeroBytes]

\* A comparison matches exactly the lanes whose encoding is the given bytes,
\* literally: no encoding of y + p, no negative zero, no lane without a point.
CompareExact ==
  pc = "done" /\ call.op = "compare" /\ err = "none" =>
    \A g \in GroupIds :
      out[g] = IF g > call.groups THEN Untouched
               ELSE [l \in Lanes |-> l \in ActiveIn(g) /\ Encode(call.points[g][l]) = call.encoded[g][l]]

\* A zero Z is blamed on a live lane that has one, never on a lane that takes
\* no part: a tail lane cannot fail the batch.
ZeroZBlamed ==
  pc = "done" /\ err = "zeroZ" =>
    \E g \in 1 .. call.groups : \E l \in ActiveIn(g) : call.points[g][l].Z = 0

\* A call that fails, at whatever product, has written no result.
OutAtomic == err # "none" => \A g \in GroupIds : out[g] = Untouched

\* The shared inversion gives every live lane the encoding, or the comparison,
\* of its own point, whatever its neighbours and earlier calls left in the
\* workspace; a zero Z is blamed on a live lane only; and a call that fails, at
\* whatever product, has written no result.
EncodeExact == EncodingsExact /\ CompareExact /\ ZeroZBlamed /\ OutAtomic

=============================================================================
