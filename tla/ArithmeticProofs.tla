--------------------------- MODULE ArithmeticProofs ---------------------------
(***************************************************************************)
(* Theorems about arithmetic. BatchEncode: one inversion, shared by all    *)
(* groups, gives every lane the encoding or the comparison of its own      *)
(* point, for any prime. Decode: every decoder gives every lane the point  *)
(* of its own encoding, for any field with a root of -1. Recoding: every   *)
(* recoding of every scalar is exact, its digits fit their tables, and     *)
(* non-adjacent digits keep their distance, for any sizes of bytes, words  *)
(* and storage and any order that leaves them room. BitPack: every string  *)
(* of bits goes to limbs and back, at the real widths.                     *)
(***************************************************************************)
EXTENDS BatchEncode, Decode, Recoding, BitPack, DataInduction

-----------------------------------------------------------------------------
\* The field.

\* Its elements are naturals, and 0 and 1 are among them.
LEMMA Elements == /\ P \in Nat \ {0} /\ 0 \in Fe /\ 1 \in Fe
                  /\ \A x \in Fe : x \in Nat
BY FieldAssumption DEF Fe

\* Products are elements, in either order, and 1 is neutral.
LEMMA TimesRing ==
  ASSUME NEW x \in Fe, NEW y \in Fe
  PROVE  /\ Times(x, y) \in Fe /\ Times(x, y) = Times(y, x)
         /\ Times(x, 1) = x /\ Times(x, 0) = 0
<1>1. x \in Nat /\ y \in Nat /\ x < P /\ P \in Nat \ {0}
  BY Elements DEF Fe
<1>2. Times(x, y) \in Fe
  <2> DEFINE n == x * y
  <2>1. n \in Nat
    BY <1>1
  <2> HIDE DEF n
  <2>2. n % P \in 0 .. P - 1
    BY <2>1, <1>1
  <2> QED BY <2>2 DEF n, Times, Fe
<1>3. x * y = y * x /\ x * 1 = x /\ x * 0 = 0
  BY <1>1
<1>4. x % P = x
  <2>1. x = 0 * P + x /\ x \in 0 .. P - 1
    BY <1>1
  <2> QED BY <2>1, <1>1, DivUnique
<1>5. 0 % P = 0
  <2>1. 0 = 0 * P + 0 /\ 0 \in 0 .. P - 1
    BY <1>1
  <2> QED BY <2>1, <1>1, DivUnique
<1> QED BY <1>2, <1>3, <1>4, <1>5 DEF Times

\* Products associate.
LEMMA TimesAssoc ==
  ASSUME NEW x \in Fe, NEW y \in Fe, NEW z \in Fe
  PROVE  Times(Times(x, y), z) = Times(x, Times(y, z))
<1>1. x \in Nat /\ y \in Nat /\ z \in Nat /\ P \in Nat \ {0}
  BY Elements
<1> DEFINE a == x * y  b == y * z
<1>2. a \in Nat /\ b \in Nat /\ a * z = x * b
  BY <1>1
<1> HIDE DEF a, b
<1>3. ((a % P) * z) % P = (a * z) % P /\ (x * (b % P)) % P = (x * b) % P
  BY ZenonT(60), <1>1, <1>2, ModTimes
<1> QED BY <1>2, <1>3 DEF Times, a, b

\* Every element but 0 has an inverse.
LEMMA InverseIs ==
  ASSUME NEW x \in Fe, x # 0
  PROVE  Inverses[x] \in Fe /\ Times(x, Inverses[x]) = 1
<1>1. \E y \in Fe : Times(x, y) = 1
  <2>1. x \in 1 .. (P - 1)
    BY Elements DEF Fe
  <2>2. PICK y \in 1 .. (P - 1) : (x * y) % P = 1
    BY <2>1, FieldAssumption
  <2>3. y \in Fe
    BY Elements DEF Fe
  <2> QED BY <2>2, <2>3 DEF Times
<1>2. Inverses[x] = CHOOSE y \in Fe : Times(x, y) = 1
  BY DEF Inverses
<1> QED BY <1>1, <1>2

\* Only one.
LEMMA InverseOnly ==
  ASSUME NEW x \in Fe, NEW y \in Fe, Times(x, y) = 1
  PROVE  x # 0 /\ y = Inverses[x]
<1>1. x # 0
  <2>1. Times(y, 0) = 0 /\ Times(x, y) = Times(y, x)
    BY Elements, TimesRing
  <2> QED BY <2>1
<1> DEFINE z == Inverses[x]
<1>2. z \in Fe /\ Times(x, z) = 1
  BY <1>1, InverseIs
<1> HIDE DEF z
<1>3. Times(Times(y, x), z) = Times(y, Times(x, z)) /\ Times(y, x) = 1
  BY <1>2, TimesAssoc, TimesRing
<1>4. Times(1, z) = z /\ Times(y, 1) = y
  BY <1>2, TimesRing, Elements
<1> QED BY <1>1, <1>2, <1>3, <1>4 DEF z

\* A product is 0 only if a factor is.
LEMMA ZeroProduct ==
  ASSUME NEW x \in Fe, NEW y \in Fe, Times(x, y) = 0
  PROVE  x = 0 \/ y = 0
<1>1. SUFFICES ASSUME x # 0 PROVE y = 0
  OBVIOUS
<1> DEFINE z == Inverses[x]
<1>2. z \in Fe /\ Times(x, z) = 1
  BY <1>1, InverseIs
<1> HIDE DEF z
<1>3. Times(z, Times(x, y)) = Times(Times(z, x), y) /\ Times(z, x) = 1
  BY <1>2, TimesAssoc, TimesRing
<1>4. Times(1, y) = y /\ Times(z, 0) = 0
  BY <1>2, TimesRing, Elements
<1> QED BY <1>3, <1>4

\* A quotient is x exactly if its numerator is x times the denominator.
LEMMA QuotientIs ==
  ASSUME NEW x \in Fe, NEW y \in Fe, NEW z \in Fe, z # 0
  PROVE  Times(y, Inverses[z]) = x <=> y = Times(x, z)
<1> DEFINE i == Inverses[z]
<1>1. i \in Fe /\ Times(z, i) = 1
  BY InverseIs
<1> HIDE DEF i
<1>2. Times(Times(x, z), i) = x
  BY <1>1, TimesAssoc, TimesRing, Elements
<1>3. Times(Times(y, i), z) = y
  BY <1>1, TimesAssoc, TimesRing, Elements
<1> QED BY <1>2, <1>3 DEF i

-----------------------------------------------------------------------------
\* The inductive invariant.

\* The phases of a request, and those that share the one inversion.
EncodeLabels == {"idle", "check", "y", "prefix", "total", "recover", "emit", "done"}
Inverting == {"prefix", "total", "recover", "emit"}

\* The lanes that should take part in the inversion.
TakesPart(g, l) ==
  /\ l \in ActiveIn(g)
  /\ call.op = "compare" => /\ call.encoded[g][l][1] < P
                            /\ call.points[g][l].Y = Times(call.encoded[g][l][1], call.points[g][l].Z)

\* What the caller should get for a selected group.
Wanted(g) ==
  [l \in Lanes |-> IF call.op = "encode"
                   THEN IF l \in ActiveIn(g) THEN Encode(call.points[g][l]) ELSE ZeroBytes
                   ELSE l \in ActiveIn(g) /\ Encode(call.points[g][l]) = call.encoded[g][l]]

\* Lane l of group g is one the call was asked for and its Z is zero.
ZeroIn(g, l) == l \in Live(g) /\ call.points[g][l].Z = 0

\* The workspace is an array of elements, the output one of groups.
Shapes ==
  /\ prefix \in [GroupIds -> [Lanes -> Fe]] /\ inverseZ \in [GroupIds -> [Lanes -> Fe]]
  /\ staged = [g \in GroupIds |-> staged[g]]
  /\ \A g \in GroupIds : staged[g] = [l \in Lanes |-> staged[g][l]]
  /\ out = [g \in GroupIds |-> out[g]]

\* The call is one of the calls, and nothing is written before it ends.
Pending ==
  /\ pc \in EncodeLabels
  /\ pc # "idle" => call \in Calls
  /\ pc # "done" => err = "none" /\ \A g \in GroupIds : out[g] = Untouched

\* The mask holds the lanes that should take part.
Masked ==
  /\ pc = "y" => /\ call.op = "compare" /\ group = 0
                 /\ \A g \in GroupIds, l \in Lanes : l \in Live(g) <=> l \in ActiveIn(g)
  /\ pc \in Inverting => /\ \A g \in GroupIds, l \in Lanes : l \in Live(g) <=> TakesPart(g, l)
                         /\ \E g \in GroupIds : Live(g) # {}
  /\ pc \in Inverting \cup {"y"} => call.groups \in 1 .. MaxGroups

\* Up to group n each prefix is the product with its own Z, and a zero comes
\* from a live lane.
Prefixed(n) ==
  \A g \in First .. n, l \in Lanes :
    /\ prefix[g][l] = IF g = First THEN SanitizedZ(g)[l] ELSE Times(prefix[g - 1][l], SanitizedZ(g)[l])
    /\ prefix[g][l] = 0 => \E h \in 1 .. g : ZeroIn(h, l)

\* From group n on the inverses are those of the live lanes.
Inverted(n) ==
  \A g \in n .. call.groups : \A l \in Live(g) : Times(inverseZ[g][l], call.points[g][l].Z) = 1

\* How far the inversion is.
Progress ==
  /\ pc = "prefix" => group = 0 \/ (group \in First .. (call.groups - 1) /\ Prefixed(group))
  /\ pc \in {"total", "recover", "emit"} => Prefixed(call.groups)
  /\ pc = "total" => group = call.groups
  /\ pc = "recover" =>
       /\ group \in First .. call.groups /\ inverseProduct \in [Lanes -> Fe]
       /\ \A l \in Lanes : Times(inverseProduct[l], prefix[group][l]) = 1
       /\ Inverted(group + 1)
  /\ pc = "emit" => group \in 1 .. call.groups /\ Inverted(1)

\* What is staged for the encoder.
Staging ==
  call.op = "encode" /\ pc \in Inverting =>
    \A g \in 1 .. call.groups, l \in Lanes :
      staged[g][l] = IF pc = "emit" /\ g < group THEN Wanted(g)[l] ELSE ZeroBytes

\* The inductive invariant.
EncodeInv == Shapes /\ Pending /\ Masked /\ Progress /\ Staging /\ EncodeExact

-----------------------------------------------------------------------------
\* Facts about a state.

\* What a call holds.
LEMMA CallHolds ==
  ASSUME NEW c \in Calls
  PROVE  /\ c.op \in {"encode", "compare"} /\ c.width \in {"x4", "x8"} /\ c.groups \in Nat
         /\ c.width = "x8" => c.op = "encode" /\ \A g \in GroupIds : HighBit \notin c.active[g]
         /\ \A g \in GroupIds : c.active[g] \subseteq Lanes \cup {HighBit}
         /\ \A g \in GroupIds, l \in Lanes :
              /\ c.points[g][l].X \in Fe /\ c.points[g][l].Y \in Fe /\ c.points[g][l].Z \in Fe
              /\ c.encoded[g][l] = <<c.encoded[g][l][1], c.encoded[g][l][2]>>
              /\ c.encoded[g][l][1] \in Nat
BY BatchEncodeAssumption, Elements DEF Coordinates, Encoding, Fe

\* The first live group.
LEMMA FirstIs ==
  ASSUME EncodeInv, pc \in Inverting
  PROVE  /\ First \in 1 .. call.groups /\ Live(First) # {}
         /\ \A h \in 1 .. (First - 1) : Live(h) = {}
         /\ call.groups \in 1 .. MaxGroups /\ MaxGroups \in Nat
         /\ 1 .. call.groups \subseteq GroupIds
<1> DEFINE S == {g \in GroupIds : Live(g) # {}}
<1>1. MaxGroups \in Nat /\ call.groups \in 1 .. MaxGroups
  BY BatchEncodeAssumption DEF EncodeInv, Masked
<1>2. PICK m \in S : \A k \in S : m <= k
  <2>1. S \in SUBSET Nat /\ S # {}
    BY DEF GroupIds, EncodeInv, Masked
  <2> HIDE DEF S
  <2> QED BY <2>1, LeastNat
<1>3. \A h \in 1 .. (m - 1) : Live(h) = {}
  BY <1>1, <1>2 DEF GroupIds
<1>4. /\ First \in GroupIds /\ Live(First) # {}
      /\ \A h \in 1 .. (First - 1) : Live(h) = {}
  <2>1. m \in GroupIds /\ Live(m) # {}
    BY <1>2
  <2> HIDE DEF S
  <2> QED BY <2>1, <1>3 DEF First
<1>5. First <= call.groups
  <2>1. PICK l \in Lanes : l \in Live(First)
    BY <1>4 DEF Live
  <2>2. l \in ActiveIn(First)
    BY <1>4, <2>1 DEF EncodeInv, Masked, TakesPart
  <2> QED BY <2>2, <1>1, <1>4 DEF ActiveIn, GroupIds
<1> QED BY <1>1, <1>4, <1>5 DEF GroupIds

\* The sanitized Z of a lane.
LEMMA SanitizedIs ==
  ASSUME NEW g, NEW l \in Lanes
  PROVE  SanitizedZ(g)[l] = IF l \in Live(g) THEN call.points[g][l].Z ELSE 1
BY DEF SanitizedZ, sanitizedBatchEncodeZ, sanitizedBatchEncodeZX8

\* It is an element.
LEMMA SanitizedIn ==
  ASSUME call \in Calls, NEW g \in GroupIds, NEW l \in Lanes
  PROVE  SanitizedZ(g)[l] \in Fe
BY SanitizedIs, CallHolds, Elements

\* The invariant holds before the first call.
LEMMA EncodeInitInv == EncodeInit => EncodeInv
<1> SUFFICES ASSUME EncodeInit PROVE EncodeInv
  OBVIOUS
<1>1. /\ pc = "idle" /\ err = "none" /\ \A g \in GroupIds : out[g] = Untouched
  BY DEF EncodeInit
<1>2. Shapes
  BY BatchEncodeAssumption DEF EncodeInit, Shapes
<1> QED BY <1>1, <1>2 DEF EncodeInv, Pending, EncodeLabels, Masked, Inverting, Progress, Staging,
     EncodeExact, EncodingsExact, CompareExact, ZeroZBlamed, OutAtomic

-----------------------------------------------------------------------------
\* How calls end.

\* With the results wanted.
LEMMA Committed ==
  ASSUME EncodeInv, call \in Calls, pc # "done", pc' = "done", err' = "none", call' = call,
         NEW results, Commit(results), \A g \in 1 .. call.groups : g \in GroupIds => results[g] = Wanted(g)
  PROVE  EncodeExact' /\ Pending' /\ out' = [g \in GroupIds |-> out'[g]]
<1>1. out' = [g \in GroupIds |-> IF g <= call.groups THEN results[g] ELSE Untouched]
  BY DEF Commit, EncodeInv, Pending
<1>2. \A g \in GroupIds : out'[g] = IF g > call.groups THEN Untouched ELSE Wanted(g)
  <2>1. call.groups \in Nat
    BY CallHolds
  <2> QED BY <1>1, <2>1, BatchEncodeAssumption DEF GroupIds
<1>3. EncodingsExact'
  <2>2. SUFFICES ASSUME call.op = "encode", NEW g \in GroupIds
                 PROVE  out'[g] = IF g > call.groups THEN Untouched
                          ELSE [l \in Lanes |-> IF l \in ActiveIn(g) THEN Encode(call.points[g][l]) ELSE ZeroBytes]
    BY DEF EncodingsExact, ActiveIn
  <2> QED BY <2>2, <1>2 DEF Wanted
<1>4. CompareExact'
  <2>2. SUFFICES ASSUME call.op = "compare", NEW g \in GroupIds
                 PROVE  out'[g] = IF g > call.groups THEN Untouched
                          ELSE [l \in Lanes |-> l \in ActiveIn(g) /\ Encode(call.points[g][l]) = call.encoded[g][l]]
    BY DEF CompareExact, ActiveIn
  <2> QED BY <2>2, <1>2 DEF Wanted
<1>5. ZeroZBlamed' /\ OutAtomic' /\ Pending'
  BY DEF ZeroZBlamed, OutAtomic, Pending, EncodeLabels
<1> QED BY <1>1, <1>3, <1>4, <1>5 DEF EncodeExact

\* With an error, which is a zero Z only if a live lane has one.
LEMMA Refused ==
  ASSUME EncodeInv, call \in Calls, pc # "done", pc' = "done", err' # "none", call' = call, out' = out,
         err' = "zeroZ" => \E g \in 1 .. call.groups : \E l \in ActiveIn(g) : call.points[g][l].Z = 0
  PROVE  EncodeExact' /\ Pending' /\ out' = [g \in GroupIds |-> out'[g]]
<1>1. EncodingsExact' /\ CompareExact'
  BY DEF EncodingsExact, CompareExact
<1>2. ZeroZBlamed'
  BY DEF ZeroZBlamed, ActiveIn
<1>3. OutAtomic'
  BY DEF OutAtomic, EncodeInv, Pending
<1> QED BY <1>1, <1>2, <1>3 DEF EncodeExact, Pending, EncodeLabels, EncodeInv, Shapes

\* Nothing else is asked of a call that has ended.
LEMMA Ended ==
  ASSUME EncodeInv, pc' = "done", EncodeExact', Pending', Shapes'
  PROVE  EncodeInv'
BY DEF EncodeInv, Masked, Inverting, Progress, Staging

\* Nor has one that goes on failed or succeeded.
LEMMA Ongoing ==
  ASSUME EncodeInv, pc \notin {"idle", "done"}, pc' \in EncodeLabels \ {"idle", "done"},
         call' = call, err' = err, out' = out
  PROVE  Pending' /\ EncodeExact' /\ out' = [g \in GroupIds |-> out'[g]]
BY DEF EncodeInv, Pending, EncodeExact, EncodingsExact, CompareExact, ZeroZBlamed, OutAtomic, Shapes

-----------------------------------------------------------------------------
\* Calls begin.

\* A call begins.
LEMMA BeginStep ==
  ASSUME EncodeInv, Begin
  PROVE  EncodeInv'
<1>1. /\ pc = "idle" /\ pc' = "check" /\ call' \in Calls
      /\ UNCHANGED <<mask, group, prefix, inverseZ, staged, inverseProduct, out, err>>
  BY DEF Begin, workspace
<1>2. Shapes'
  BY <1>1 DEF EncodeInv, Shapes
<1>3. Pending' /\ EncodeExact'
  BY <1>1 DEF EncodeInv, Pending, EncodeLabels, EncodeExact, EncodingsExact, CompareExact, ZeroZBlamed, OutAtomic
<1> QED BY <1>1, <1>2, <1>3 DEF EncodeInv, Masked, Inverting, Progress, Staging

\* What an entry point does to the staged results.
StagedBy(groups) == staged' = staged \/ staged' = Zeroed(groups)

\* What is staged before a pass is well shaped: one pending set per group.
LEMMA StagedShape ==
  ASSUME EncodeInv, NEW groups, StagedBy(groups)
  PROVE  staged' = [g \in GroupIds |-> staged'[g]] /\ \A g \in GroupIds : staged'[g] = [l \in Lanes |-> staged'[g][l]]
<1>1. CASE staged' = staged
  BY <1>1 DEF EncodeInv, Shapes
<1>2. CASE staged' = Zeroed(groups)
  BY <1>2 DEF EncodeInv, Shapes, Zeroed
<1> QED BY <1>1, <1>2 DEF StagedBy

\* An entry point refuses.
LEMMA RefuseStep ==
  ASSUME EncodeInv, pc = "check", NEW e, e \notin {"none", "zeroZ"}, Refuse(e), NEW groups, StagedBy(groups),
         UNCHANGED <<call, prefix, inverseZ, inverseProduct>>
  PROVE  EncodeInv'
<1>1. pc' = "done" /\ err' = e /\ out' = out /\ call' = call /\ call \in Calls
  BY DEF Refuse, Return, EncodeInv, Pending
<1>2. EncodeExact' /\ Pending' /\ out' = [g \in GroupIds |-> out'[g]]
  BY <1>1, Refused
<1>3. Shapes'
  BY <1>2, StagedShape DEF EncodeInv, Shapes
<1> QED BY <1>1, <1>2, <1>3, Ended

\* An entry point has nothing to do.
LEMMA NothingStep ==
  ASSUME EncodeInv, pc = "check", NEW nothing, NEW next, Admit(nothing, next),
         \A g \in Selected : call.active[g] = {},
         nothing = IF call.op = "encode" THEN ZeroBytes ELSE FALSE,
         NEW groups, StagedBy(groups),
         UNCHANGED <<call, prefix, inverseZ, inverseProduct>>
  PROVE  EncodeInv'
<1> DEFINE results == [g \in GroupIds |-> [l \in Lanes |-> nothing]]
<1>1. pc' = "done" /\ err' = "none" /\ Commit(results) /\ call' = call /\ call \in Calls
  BY DEF Admit, Return, EncodeInv, Pending
<1>2. ASSUME NEW g \in 1 .. call.groups, g \in GroupIds
      PROVE  results[g] = Wanted(g)
  <2>1. ActiveIn(g) = {}
    BY <1>2 DEF ActiveIn, Selected
  <2>2. call.op \in {"encode", "compare"}
    BY <1>1, CallHolds
  <2> QED BY <2>1, <2>2, <1>2 DEF Wanted
<1> HIDE DEF results
<1>3. EncodeExact' /\ Pending' /\ out' = [g \in GroupIds |-> out'[g]]
  BY <1>1, <1>2, Committed
<1>4. Shapes'
  BY <1>3, StagedShape DEF EncodeInv, Shapes
<1> QED BY <1>1, <1>3, <1>4, Ended

\* An entry point goes on.
LEMMA AdmitStep ==
  ASSUME EncodeInv, pc = "check", NEW nothing, NEW next, Admit(nothing, next),
         ~ \A g \in Selected : call.active[g] = {}, ~WrongCount,
         \A g \in Selected : HighBit \notin call.active[g],
         \/ next = "prefix" /\ call.op = "encode" /\ staged' = Zeroed(Selected)
         \/ next = "y" /\ call.op = "compare" /\ staged' = staged,
         UNCHANGED <<call, prefix, inverseZ, inverseProduct>>
  PROVE  EncodeInv'
<1>1. /\ mask' = [g \in GroupIds |-> IF g \in Selected THEN call.active[g] ELSE {}]
      /\ pc' = next /\ group' = 0 /\ out' = out /\ err' = err /\ call' = call /\ call \in Calls
  BY DEF Admit, EncodeInv, Pending
<1>2. /\ call.groups \in 1 .. MaxGroups /\ Selected \subseteq GroupIds /\ MaxGroups \in Nat
      /\ \A g \in GroupIds : g \in Selected <=> g <= call.groups
  <2>1. call.groups \in Nat /\ MaxGroups \in Nat
    BY <1>1, CallHolds, BatchEncodeAssumption
  <2> QED BY <2>1 DEF WrongCount, Selected, GroupIds
<1>3. \A g \in GroupIds, l \in Lanes : l \in Live(g)' <=> l \in ActiveIn(g)
  BY <1>1, <1>2 DEF Live, ActiveIn
<1>4. \A g \in GroupIds : ActiveIn(g)' = ActiveIn(g)
  BY <1>1 DEF ActiveIn
<1>5. \E g \in GroupIds : Live(g)' # {}
  <2>1. PICK g \in Selected : call.active[g] # {}
    OBVIOUS
  <2>2. g \in GroupIds /\ call.active[g] \subseteq Lanes
    BY <1>1, <1>2, CallHolds
  <2> QED BY <2>1, <2>2, <1>1 DEF Live
<1>6. /\ pc' \in EncodeLabels \ {"idle", "done"}
      /\ \/ pc' = "prefix" /\ call.op = "encode"
         \/ pc' = "y" /\ call.op = "compare"
  <2>1. CASE next = "prefix" /\ call.op = "encode"
    BY <1>1, <2>1 DEF EncodeLabels
  <2>2. CASE next = "y" /\ call.op = "compare"
    BY <1>1, <2>2 DEF EncodeLabels
  <2> QED BY <2>1, <2>2
<1>7. Pending' /\ EncodeExact' /\ out' = [g \in GroupIds |-> out'[g]]
  BY <1>1, <1>6, Ongoing
<1>8. Shapes'
  BY <1>7, StagedShape DEF EncodeInv, Shapes, StagedBy
<1>9. Masked'
  BY <1>1, <1>2, <1>3, <1>4, <1>5, <1>6 DEF Masked, TakesPart, Inverting
<1>10. Progress'
  <2>1. pc' \in {"prefix", "y"} /\ group' = 0
    BY <1>1, <1>6
  <2> QED BY <2>1 DEF Progress
<1>11. Staging'
  BY <1>1, <1>2, <1>6 DEF Staging, Zeroed, Selected, Inverting
<1> QED BY <1>7, <1>8, <1>9, <1>10, <1>11 DEF EncodeInv

\* Starting a batch encode of four-lane groups keeps the invariant.
LEMMA CheckEncodeX4Step ==
  ASSUME EncodeInv, CheckEncodeX4
  PROVE  EncodeInv'
<1>1. pc = "check" /\ call.op = "encode" /\ UNCHANGED <<call, prefix, inverseZ, inverseProduct>>
  BY DEF CheckEncodeX4
<1>2. CASE \E e \in {"count", "boundary"} : Refuse(e) /\ UNCHANGED staged
  BY <1>1, <1>2, RefuseStep DEF StagedBy
<1>3. CASE /\ ~WrongCount /\ ~HighMask /\ staged' = Zeroed(Selected) /\ Admit(ZeroBytes, "prefix")
  <2>1. \A g \in Selected : HighBit \notin call.active[g]
    BY <1>3 DEF HighMask
  <2>2. CASE \A g \in Selected : call.active[g] = {}
    BY <1>1, <1>3, <2>2, NothingStep DEF StagedBy
  <2>3. CASE ~ \A g \in Selected : call.active[g] = {}
    BY <1>1, <1>3, <2>1, <2>3, AdmitStep
  <2> QED BY <2>2, <2>3
<1> QED BY <1>2, <1>3 DEF CheckEncodeX4

\* Starting a batch encode of eight-lane groups keeps the invariant.
LEMMA CheckEncodeX8Step ==
  ASSUME EncodeInv, CheckEncodeX8
  PROVE  EncodeInv'
<1>1. pc = "check" /\ call.op = "encode" /\ call.width = "x8" /\ UNCHANGED <<call, prefix, inverseZ, inverseProduct>>
  BY DEF CheckEncodeX8
<1>2. CASE \E e \in {"count", "boundary"}, groups \in SUBSET Nat : Refuse(e) /\ StagedBy(groups)
  BY <1>1, <1>2, RefuseStep
<1>3. CASE /\ ~WrongCount /\ staged' = Zeroed(Selected) /\ Admit(ZeroBytes, "prefix")
  <2>1. \A g \in Selected : HighBit \notin call.active[g]
    <3>1. call \in Calls
      BY <1>1 DEF EncodeInv, Pending
    <3>2. call.groups \in Nat /\ MaxGroups \in Nat
      BY <3>1, CallHolds, BatchEncodeAssumption
    <3>3. Selected \subseteq GroupIds
      BY <1>3, <3>2 DEF WrongCount, Selected, GroupIds
    <3> QED BY <1>1, <3>1, <3>3, CallHolds
  <2>2. CASE \A g \in Selected : call.active[g] = {}
    BY <1>1, <1>3, <2>2, NothingStep DEF StagedBy
  <2>3. CASE ~ \A g \in Selected : call.active[g] = {}
    BY <1>1, <1>3, <2>1, <2>3, AdmitStep
  <2> QED BY <2>2, <2>3
<1>4. \/ \E e \in {"count", "boundary"}, groups \in SUBSET Nat : Refuse(e) /\ StagedBy(groups)
      \/ ~WrongCount /\ staged' = Zeroed(Selected) /\ Admit(ZeroBytes, "prefix")
  <2> DEFINE wild == {g \in Selected : ~InRange(g)}
             passed == {g \in Selected : \A h \in wild : g < h}
  <2>1. \/ Refuse("count") /\ UNCHANGED staged
        \/ staged' = Zeroed(passed) /\ Refuse("boundary")
        \/ ~WrongCount /\ staged' = Zeroed(Selected) /\ Admit(ZeroBytes, "prefix")
    BY DEF CheckEncodeX8
  <2>2. passed \in SUBSET Nat /\ {} \in SUBSET Nat
    BY DEF Selected
  <2> HIDE DEF passed
  <2> QED BY <2>1, <2>2 DEF StagedBy
<1> QED BY <1>2, <1>3, <1>4

\* Starting a comparison keeps the invariant: nothing of it is published yet.
LEMMA CheckCompareStep ==
  ASSUME EncodeInv, CheckCompare
  PROVE  EncodeInv'
<1>1. pc = "check" /\ call.op = "compare" /\ UNCHANGED <<call, prefix, inverseZ, staged, inverseProduct>>
  BY DEF CheckCompare, workspace
<1>2. CASE \E e \in {"count", "boundary"} : Refuse(e)
  BY <1>1, <1>2, RefuseStep DEF StagedBy
<1>3. CASE ~WrongCount /\ ~HighMask /\ Admit(FALSE, "y")
  <2>1. \A g \in Selected : HighBit \notin call.active[g]
    BY <1>3 DEF HighMask
  <2>2. CASE \A g \in Selected : call.active[g] = {}
    <3>1. FALSE = IF call.op = "encode" THEN ZeroBytes ELSE FALSE
      BY <1>1
    <3> QED BY <1>1, <1>3, <2>2, <3>1, NothingStep DEF StagedBy
  <2>3. CASE ~ \A g \in Selected : call.active[g] = {}
    BY <1>1, <1>3, <2>1, <2>3, AdmitStep
  <2> QED BY <2>2, <2>3
<1> QED BY <1>2, <1>3 DEF CheckCompare

-----------------------------------------------------------------------------
\* The inversion.

\* What depends on the call and its mask only.
LEMMA MaskKept ==
  ASSUME mask' = mask, call' = call
  PROVE  /\ First' = First
         /\ \A g \in GroupIds : Live(g)' = Live(g) /\ SanitizedZ(g)' = SanitizedZ(g) /\ ActiveIn(g)' = ActiveIn(g)
         /\ \A g \in GroupIds, l \in Lanes : TakesPart(g, l)' = TakesPart(g, l)
         /\ \A g \in GroupIds : Wanted(g)' = Wanted(g)
         /\ \A g \in GroupIds, l \in Lanes : ZeroIn(g, l)' = ZeroIn(g, l)
<1>1. First' = First
  BY DEF First, Live
<1>2. \A g \in GroupIds : Live(g)' = Live(g) /\ SanitizedZ(g)' = SanitizedZ(g) /\ ActiveIn(g)' = ActiveIn(g)
  BY DEF Live, SanitizedZ, sanitizedBatchEncodeZ, sanitizedBatchEncodeZX8, ActiveIn
<1>3. \A g \in GroupIds, l \in Lanes : TakesPart(g, l)' = TakesPart(g, l)
  BY DEF TakesPart, ActiveIn
<1>4. \A g \in GroupIds : Wanted(g)' = Wanted(g)
  BY DEF Wanted, ActiveIn
<1>5. \A g \in GroupIds, l \in Lanes : ZeroIn(g, l)' = ZeroIn(g, l)
  BY DEF ZeroIn, Live
<1> QED BY <1>1, <1>2, <1>3, <1>4, <1>5

\* The mask stays as it should be while the inversion goes on.
LEMMA MaskStays ==
  ASSUME EncodeInv, pc \in Inverting, pc' \in Inverting, mask' = mask, call' = call
  PROVE  Masked'
<1>1. \A g \in GroupIds, l \in Lanes : l \in Live(g)' <=> TakesPart(g, l)'
  BY MaskKept DEF EncodeInv, Masked
<1>2. \E g \in GroupIds : Live(g)' # {}
  BY MaskKept DEF EncodeInv, Masked
<1> QED BY <1>1, <1>2 DEF EncodeInv, Masked, Inverting

\* A lane of a comparison that takes no part does not match.
LEMMA LeftOut ==
  ASSUME call \in Calls, call.op = "compare", NEW g \in GroupIds, NEW l \in Lanes, ~ TakesPart(g, l)
  PROVE  Wanted(g)[l] = FALSE
<1> DEFINE p == call.points[g][l]  e == call.encoded[g][l]
<1>1. SUFFICES ASSUME l \in ActiveIn(g), Encode(p) = e PROVE FALSE
  BY DEF Wanted
<1>2. p.X \in Fe /\ p.Y \in Fe /\ p.Z \in Fe /\ e = <<e[1], e[2]>> /\ e[1] \in Nat
  BY CallHolds
<1>3. ~ (e[1] < P /\ p.Y = Times(e[1], p.Z))
  BY <1>1 DEF TakesPart
<1> HIDE DEF p, e
<1>4. p.Z # 0 /\ e[1] = Times(p.Y, Inverses[p.Z])
  BY <1>1, <1>2 DEF Encode, Untouched
<1>5. e[1] \in Fe
  BY <1>2, <1>4, InverseIs, TimesRing
<1>6. p.Y = Times(e[1], p.Z)
  BY <1>2, <1>4, <1>5, QuotientIs
<1> QED BY <1>3, <1>5, <1>6, Elements DEF Fe

\* One step over the y coordinates of a comparison keeps the invariant.
LEMMA CompareYStep ==
  ASSUME EncodeInv, CompareY
  PROVE  EncodeInv'
<1> DEFINE survivors == [g \in GroupIds |->
              {l \in canonicalCompressedY(call.encoded[g], Live(g)) :
                 call.points[g][l].Y = Times(call.encoded[g][l][1], call.points[g][l].Z)}]
           nothing == [g \in GroupIds |-> [l \in Lanes |-> FALSE]]
<1>1. /\ pc = "y" /\ call.op = "compare" /\ call \in Calls
      /\ UNCHANGED <<call, group, prefix, inverseZ, staged, inverseProduct>>
      /\ call.groups \in 1 .. MaxGroups /\ MaxGroups \in Nat
  BY BatchEncodeAssumption DEF CompareY, workspace, EncodeInv, Masked, Pending
<1>2. \A g \in GroupIds, l \in Lanes : l \in survivors[g] <=> TakesPart(g, l)
  BY <1>1 DEF EncodeInv, Masked, TakesPart, canonicalCompressedY
<1>3. \A g \in GroupIds : survivors[g] \subseteq Lanes
  BY DEF canonicalCompressedY, Live
<1>4. CASE /\ \A g \in GroupIds : survivors[g] = {}
           /\ Return("none") /\ Commit(nothing)
  <2>1. ASSUME NEW g \in 1 .. call.groups, g \in GroupIds
        PROVE  nothing[g] = Wanted(g)
    <3>1. \A l \in Lanes : Wanted(g)[l] = FALSE
      BY <1>1, <1>2, <1>4, <2>1, LeftOut
    <3>2. Wanted(g) = [l \in Lanes |-> Wanted(g)[l]]
      BY DEF Wanted
    <3> HIDE DEF survivors
    <3>3. Wanted(g) = [l \in Lanes |-> FALSE]
      BY <3>1, <3>2
    <3> QED BY <3>3, <2>1
  <2> HIDE DEF survivors, nothing
  <2>2. EncodeExact' /\ Pending' /\ out' = [g \in GroupIds |-> out'[g]]
    BY <1>1, <1>4, <2>1, Committed DEF Return
  <2>3. Shapes'
    BY <1>1, <2>2 DEF EncodeInv, Shapes
  <2> QED BY <1>4, <2>2, <2>3, Ended DEF Return
<1>5. CASE /\ ~ \A g \in GroupIds : survivors[g] = {}
           /\ mask' = survivors /\ pc' = "prefix" /\ UNCHANGED <<out, err>>
  <2>1. Pending' /\ EncodeExact' /\ out' = [g \in GroupIds |-> out'[g]]
    BY <1>1, <1>5, Ongoing DEF EncodeLabels
  <2>2. Shapes'
    BY <1>1, <2>1 DEF EncodeInv, Shapes
  <2>3. \A g \in GroupIds : Live(g)' = survivors[g]
    <3> HIDE DEF survivors
    <3> QED BY <1>3, <1>5 DEF Live
  <2>4. \A g \in GroupIds, l \in Lanes : TakesPart(g, l)' = TakesPart(g, l)
    BY <1>1 DEF TakesPart, ActiveIn
  <2>5. Masked'
    <3> HIDE DEF survivors
    <3> QED BY <1>1, <1>2, <1>5, <2>3, <2>4 DEF Masked, Inverting
  <2>6. Progress'
    <3>1. group = 0
      BY <1>1 DEF EncodeInv, Masked
    <3> HIDE DEF survivors
    <3> QED BY <1>1, <1>5, <3>1 DEF Progress
  <2>7. Staging'
    BY <1>1 DEF Staging
  <2> QED BY <2>1, <2>2, <2>5, <2>6, <2>7 DEF EncodeInv
<1> QED
  <2> HIDE DEF survivors, nothing
  <2>1. \/ /\ \A g \in GroupIds : survivors[g] = {}
           /\ Return("none") /\ Commit(nothing)
        \/ /\ ~ \A g \in GroupIds : survivors[g] = {}
           /\ mask' = survivors /\ pc' = "prefix" /\ UNCHANGED <<out, err>>
    BY DEF CompareY, survivors, nothing
  <2> QED BY <2>1, <1>4, <1>5

\* A prefix product is formed.
LEMMA PrefixStep ==
  ASSUME EncodeInv, pc = "prefix", NEW CONSTANT g, g = NextGroup, Prefix(g)
  PROVE  EncodeInv'
<1>1. /\ group' = g /\ pc' = (IF g = call.groups THEN "total" ELSE "prefix")
      /\ prefix' = [prefix EXCEPT ![g] =
           IF group = 0 THEN SanitizedZ(g)
           ELSE IF Live(g) = {} THEN prefix[g - 1]
           ELSE [l \in Lanes |-> Times(prefix[g - 1][l], SanitizedZ(g)[l])]]
      /\ UNCHANGED <<call, mask, inverseZ, staged, inverseProduct, out, err>>
  BY DEF Prefix
<1>2. /\ First \in 1 .. call.groups /\ \A h \in 1 .. (First - 1) : Live(h) = {}
      /\ call.groups \in 1 .. MaxGroups /\ MaxGroups \in Nat /\ 1 .. call.groups \subseteq GroupIds
  BY FirstIs DEF Inverting
<1>3. \/ group = 0 /\ g = First
      \/ /\ group \in First .. (call.groups - 1) /\ Prefixed(group) /\ g = group + 1 /\ group # 0
  BY <1>2 DEF EncodeInv, Progress, NextGroup
<1>4. g \in First .. call.groups /\ g \in GroupIds /\ (g # First => group # 0)
  BY <1>2, <1>3
<1>5. pc' \in EncodeLabels \ {"idle", "done"} /\ pc' \in Inverting /\ pc \in Inverting
  BY <1>1 DEF EncodeLabels, Inverting
<1>6. Pending' /\ EncodeExact' /\ out' = [h \in GroupIds |-> out'[h]]
  BY <1>1, <1>5, Ongoing
<1>7. call \in Calls
  BY DEF EncodeInv, Pending
<1>8. \A l \in Lanes :
        prefix'[g][l] = IF g = First THEN SanitizedZ(g)[l] ELSE Times(prefix[g - 1][l], SanitizedZ(g)[l])
  <2>1. SUFFICES ASSUME NEW l \in Lanes
                 PROVE  prefix'[g][l] = IF g = First THEN SanitizedZ(g)[l]
                                        ELSE Times(prefix[g - 1][l], SanitizedZ(g)[l])
    OBVIOUS
  <2>2. prefix'[g] = IF group = 0 THEN SanitizedZ(g)
                     ELSE IF Live(g) = {} THEN prefix[g - 1]
                     ELSE [k \in Lanes |-> Times(prefix[g - 1][k], SanitizedZ(g)[k])]
    BY <1>1, <1>4 DEF EncodeInv, Shapes
  <2>3. CASE group = 0
    BY <2>2, <2>3, <1>3, <1>2
  <2>4. CASE group # 0 /\ Live(g) = {}
    <3>1. g - 1 \in GroupIds /\ g # First
      BY <1>2, <1>3, <2>4
    <3>2. prefix[g - 1][l] \in Fe /\ SanitizedZ(g)[l] = 1
      BY <3>1, <2>4, SanitizedIs DEF EncodeInv, Shapes
    <3>3. Times(prefix[g - 1][l], 1) = prefix[g - 1][l]
      BY <3>2, TimesRing, Elements
    <3> QED BY <2>2, <2>4, <3>1, <3>2, <3>3
  <2>5. CASE group # 0 /\ Live(g) # {}
    <3>1. g # First
      BY <1>2, <1>3, <2>5
    <3> QED BY <2>2, <2>5, <3>1
  <2> QED BY <2>3, <2>4, <2>5
<1>9. \A h \in GroupIds : h # g => prefix'[h] = prefix[h]
  BY <1>1 DEF EncodeInv, Shapes
<1>10. prefix' \in [GroupIds -> [Lanes -> Fe]]
  <2>1. prefix'[g] \in [Lanes -> Fe]
    <3>1. \A l \in Lanes : SanitizedZ(g)[l] \in Fe
      BY <1>4, <1>7, SanitizedIn
    <3>2. group # 0 => g - 1 \in GroupIds
      BY <1>2, <1>3
    <3>3. CASE group = 0
      <4>1. SanitizedZ(g) = [l \in Lanes |-> SanitizedZ(g)[l]]
        BY DEF SanitizedZ, sanitizedBatchEncodeZ, sanitizedBatchEncodeZX8
      <4>2. SanitizedZ(g) \in [Lanes -> Fe]
        BY <3>1, <4>1
      <4> QED BY <3>3, <4>2, <1>1, <1>4 DEF EncodeInv, Shapes
    <3>4. CASE group # 0
      <4>1. prefix[g - 1] \in [Lanes -> Fe]
        BY <3>2, <3>4 DEF EncodeInv, Shapes
      <4>2. [l \in Lanes |-> Times(prefix[g - 1][l], SanitizedZ(g)[l])] \in [Lanes -> Fe]
        <5>1. \A l \in Lanes : Times(prefix[g - 1][l], SanitizedZ(g)[l]) \in Fe
          BY <3>1, <4>1, TimesRing
        <5> QED BY <5>1
      <4> QED BY <3>4, <4>1, <4>2, <1>1, <1>4 DEF EncodeInv, Shapes
    <3> QED BY <3>3, <3>4
  <2> QED BY <2>1, <1>1, <1>4 DEF EncodeInv, Shapes
<1>11. Shapes'
  BY <1>1, <1>6, <1>10 DEF EncodeInv, Shapes
<1>12. Masked'
  BY <1>1, <1>5, MaskStays
<1>13. Prefixed(g)'
  <2>1. SUFFICES ASSUME NEW h \in First .. g, NEW l \in Lanes
                 PROVE  /\ prefix'[h][l] = IF h = First THEN SanitizedZ(h)[l]
                                           ELSE Times(prefix'[h - 1][l], SanitizedZ(h)[l])
                        /\ prefix'[h][l] = 0 => \E j \in 1 .. h : ZeroIn(j, l)
    <3>1. First .. g \subseteq GroupIds /\ \A h \in First .. g : 1 .. h \subseteq GroupIds
      BY <1>2, <1>4
    <3>2. First' = First
      BY <1>1, MaskKept
    <3>3. \A h \in First .. g : SanitizedZ(h)' = SanitizedZ(h)
      BY <1>1, <3>1, MaskKept
    <3>4. \A h \in First .. g : \A j \in 1 .. h, l \in Lanes : ZeroIn(j, l)' = ZeroIn(j, l)
      BY <1>1, <3>1, MaskKept
    <3> QED BY <2>1, <3>2, <3>3, <3>4 DEF Prefixed
  <2>2. h \in GroupIds /\ (h # First => h - 1 \in GroupIds /\ h - 1 # g /\ h - 1 \in First .. g)
    BY <1>2, <1>4
  <2>3. prefix'[h][l] = IF h = First THEN SanitizedZ(h)[l]
                        ELSE Times(prefix'[h - 1][l], SanitizedZ(h)[l])
    <3>1. CASE h = g
      BY <3>1, <2>2, <1>8, <1>9
    <3>2. CASE h # g
      <4>1. h \in First .. group /\ Prefixed(group)
        BY <3>2, <1>2, <1>3, <1>4
      <4> QED BY <4>1, <3>2, <2>2, <1>9 DEF Prefixed
    <3> QED BY <3>1, <3>2
  <2>4. ASSUME prefix'[h][l] = 0 PROVE \E j \in 1 .. h : ZeroIn(j, l)
    <3>1. CASE h # g
      <4>1. h \in First .. group /\ Prefixed(group)
        BY <3>1, <1>2, <1>3, <1>4
      <4> QED BY <4>1, <3>1, <2>2, <2>4, <1>9 DEF Prefixed
    <3>2. CASE h = g
      <4>1. SanitizedZ(g)[l] = 0 => ZeroIn(g, l)
        BY SanitizedIs DEF ZeroIn
      <4>2. CASE g = First
        <5>1. ZeroIn(g, l)
          BY <4>1, <4>2, <3>2, <2>3, <2>4
        <5> QED BY <5>1, <3>2, <1>2, <1>4
      <4>3. CASE g # First
        <5>1. Times(prefix[g - 1][l], SanitizedZ(g)[l]) = 0
          BY <4>3, <3>2, <1>8, <2>4
        <5>2. prefix[g - 1][l] \in Fe /\ SanitizedZ(g)[l] \in Fe
          BY <4>3, <3>2, <2>2, <1>4, <1>7, SanitizedIn DEF EncodeInv, Shapes
        <5>3. prefix[g - 1][l] = 0 \/ SanitizedZ(g)[l] = 0
          BY <5>1, <5>2, ZeroProduct
        <5>4. prefix[g - 1][l] = 0 => \E j \in 1 .. (g - 1) : ZeroIn(j, l)
          <6>1. g - 1 \in First .. group /\ Prefixed(group)
            BY <4>3, <1>2, <1>3, <1>4
          <6> QED BY <6>1 DEF Prefixed
        <5> QED BY <5>3, <5>4, <4>1, <3>2, <1>2, <1>4
      <4> QED BY <4>2, <4>3
    <3> QED BY <3>1, <3>2
  <2> QED BY <2>3, <2>4
<1>14. Progress'
  <2>1. First' = First
    BY <1>1, MaskKept
  <2>2. CASE pc' = "prefix"
    <3>1. g # call.groups
      BY <1>1, <2>2
    <3>2. group' \in First' .. (call.groups' - 1)
      BY <1>1, <1>2, <1>4, <2>1, <3>1
    <3>3. Prefixed(group)'
      BY <1>1, <1>13 DEF Prefixed
    <3> QED BY <2>2, <3>2, <3>3 DEF Progress
  <2>3. CASE pc' = "total"
    BY <1>1, <1>13, <2>3 DEF Progress
  <2> QED BY <1>1, <2>2, <2>3
<1>15. Staging'
  BY <1>1, <1>5 DEF EncodeInv, Staging, Inverting
<1> QED BY <1>6, <1>11, <1>12, <1>14, <1>15 DEF EncodeInv

\* The total is inverted, unless it is zero in a live lane.
LEMMA TotalStep ==
  ASSUME EncodeInv, Total
  PROVE  EncodeInv'
<1>1. pc = "total" /\ UNCHANGED <<call, mask, group, prefix, inverseZ, staged, out>>
  BY DEF Total, workspace
<1>2. /\ First \in 1 .. call.groups /\ \A h \in 1 .. (First - 1) : Live(h) = {}
      /\ call.groups \in 1 .. MaxGroups /\ MaxGroups \in Nat /\ 1 .. call.groups \subseteq GroupIds
  BY <1>1, FirstIs DEF Inverting
<1>3. Prefixed(call.groups) /\ call \in Calls
  BY <1>1 DEF EncodeInv, Progress, Pending
<1>4. \A l \in Lanes : prefix[call.groups][l] \in Fe
  BY <1>2 DEF EncodeInv, Shapes
<1>5. \A l \in Lanes : prefix[call.groups][l] = 0 => \E h \in 1 .. call.groups : ZeroIn(h, l)
  BY <1>2, <1>3 DEF Prefixed
<1>6. CASE /\ \E l \in UNION {Live(g) : g \in First .. call.groups} : prefix[call.groups][l] = 0
           /\ Return("zeroZ")
  <2>1. \E g \in 1 .. call.groups : \E l \in ActiveIn(g) : call.points[g][l].Z = 0
    <3>1. PICK g \in First .. call.groups : \E l \in Live(g) : prefix[call.groups][l] = 0
      BY <1>6
    <3>2. PICK l \in Live(g) : prefix[call.groups][l] = 0
      BY <3>1
    <3>3. l \in Lanes
      BY <3>2 DEF Live
    <3>4. PICK h \in 1 .. call.groups : ZeroIn(h, l)
      BY <1>5, <3>2, <3>3
    <3>5. l \in ActiveIn(h)
      BY <1>1, <1>2, <3>3, <3>4 DEF ZeroIn, EncodeInv, Masked, Inverting, TakesPart
    <3> QED BY <3>4, <3>5 DEF ZeroIn
  <2>2. EncodeExact' /\ Pending' /\ out' = [g \in GroupIds |-> out'[g]]
    BY <1>1, <1>3, <1>6, <2>1, Refused DEF Return
  <2>3. Shapes'
    BY <1>1, <2>2 DEF EncodeInv, Shapes
  <2> QED BY <1>6, <2>2, <2>3, Ended DEF Return
<1>7. CASE /\ ~ \E l \in UNION {Live(g) : g \in First .. call.groups} : prefix[call.groups][l] = 0
           /\ inverseProduct' = [l \in Lanes |-> Inverses[prefix[call.groups][l]]]
           /\ pc' = "recover" /\ UNCHANGED err
  <2>1. pc' \in EncodeLabels \ {"idle", "done"} /\ pc' \in Inverting /\ pc \in Inverting
    BY <1>1, <1>7 DEF EncodeLabels, Inverting
  <2>2. Pending' /\ EncodeExact' /\ out' = [g \in GroupIds |-> out'[g]]
    BY <1>1, <1>7, <2>1, Ongoing
  <2>3. Shapes'
    BY <1>1, <2>2 DEF EncodeInv, Shapes
  <2>4. Masked'
    BY <1>1, <2>1, MaskStays
  <2>5. ASSUME NEW l \in Lanes PROVE prefix[call.groups][l] # 0
    <3>1. SUFFICES ASSUME prefix[call.groups][l] = 0 PROVE FALSE
      OBVIOUS
    <3>2. PICK h \in 1 .. call.groups : ZeroIn(h, l)
      BY <1>5, <3>1
    <3>3. h \in First .. call.groups /\ l \in Live(h)
      BY <1>2, <3>2 DEF ZeroIn
    <3>4. l \in UNION {Live(g) : g \in First .. call.groups}
      BY <3>3
    <3> QED BY <3>1, <3>4, <1>7
  <2>6. \A l \in Lanes : inverseProduct'[l] \in Fe /\ Times(inverseProduct'[l], prefix[call.groups][l]) = 1
    BY <1>4, <1>7, <2>5, InverseIs, TimesRing
  <2>7. group = call.groups
    BY <1>1 DEF EncodeInv, Progress
  <2>8. Progress'
    <3>1. Prefixed(call.groups)'
      <4>1. 1 .. call.groups \subseteq GroupIds /\ \A g \in First .. call.groups : 1 .. g \subseteq GroupIds
        BY <1>2
      <4>2. First' = First /\ \A g \in First .. call.groups : SanitizedZ(g)' = SanitizedZ(g)
        BY <1>1, <1>2, <4>1, MaskKept
      <4>3. \A g \in First .. call.groups : \A h \in 1 .. g, l \in Lanes : ZeroIn(h, l)' = ZeroIn(h, l)
        BY <1>1, <4>1, MaskKept
      <4> QED BY ZenonT(60), <1>1, <1>3, <4>2, <4>3 DEF Prefixed
    <3>2. group' \in First' .. call.groups'
      BY <1>1, <1>2, <2>7, MaskKept
    <3>3. inverseProduct' \in [Lanes -> Fe]
      BY <1>7, <2>6
    <3>4. \A l \in Lanes : Times(inverseProduct'[l], prefix'[group'][l]) = 1
      BY <1>1, <2>6, <2>7
    <3>5. Inverted(group + 1)'
      BY <1>1, <1>2, <2>7 DEF Inverted
    <3> QED BY <1>7, <3>1, <3>2, <3>3, <3>4, <3>5 DEF Progress
  <2>9. Staging'
    BY <1>1, <1>7, <2>1 DEF EncodeInv, Staging, Inverting
  <2> QED BY <2>2, <2>3, <2>4, <2>8, <2>9 DEF EncodeInv
<1> QED BY <1>6, <1>7 DEF Total

\* The prefixes are kept with what they depend on.
LEMMA PrefixesKept ==
  ASSUME EncodeInv, pc \in {"recover", "emit"}, UNCHANGED <<call, mask, prefix>>
  PROVE  Prefixed(call.groups)'
<1>1. /\ First \in 1 .. call.groups /\ 1 .. call.groups \subseteq GroupIds
      /\ \A g \in First .. call.groups : 1 .. g \subseteq GroupIds
  <2>1. First \in 1 .. call.groups /\ 1 .. call.groups \subseteq GroupIds /\ call.groups \in Nat
    BY FirstIs DEF Inverting
  <2> QED BY <2>1
<1>2. First' = First /\ \A g \in First .. call.groups : SanitizedZ(g)' = SanitizedZ(g)
  BY <1>1, MaskKept
<1>3. \A g \in First .. call.groups : \A h \in 1 .. g, l \in Lanes : ZeroIn(h, l)' = ZeroIn(h, l)
  BY <1>1, MaskKept
<1>4. Prefixed(call.groups)
  BY DEF EncodeInv, Progress
<1> QED BY <1>2, <1>3, <1>4 DEF Prefixed

\* The inverse of the first live group is what is left.
LEMMA RecoverFirst ==
  ASSUME EncodeInv, pc = "recover", group = First,
         inverseZ' = [inverseZ EXCEPT ![group] = inverseProduct],
         pc' = "emit", group' = 1, UNCHANGED <<inverseProduct, call, mask, prefix, staged, out, err>>
  PROVE  EncodeInv'
<1>1. /\ First \in 1 .. call.groups /\ \A h \in 1 .. (First - 1) : Live(h) = {}
      /\ call.groups \in 1 .. MaxGroups /\ MaxGroups \in Nat /\ 1 .. call.groups \subseteq GroupIds
  BY FirstIs DEF Inverting
<1>2. /\ group \in First .. call.groups /\ inverseProduct \in [Lanes -> Fe] /\ Prefixed(call.groups)
      /\ \A l \in Lanes : Times(inverseProduct[l], prefix[group][l]) = 1
      /\ Inverted(group + 1)
  BY DEF EncodeInv, Progress
<1>3. pc' \in EncodeLabels \ {"idle", "done"} /\ pc' \in Inverting /\ pc \in Inverting
  BY DEF EncodeLabels, Inverting
<1>4. Pending' /\ EncodeExact' /\ out' = [g \in GroupIds |-> out'[g]]
  BY <1>3, Ongoing
<1>5. Shapes'
  BY <1>1, <1>2, <1>4 DEF EncodeInv, Shapes
<1>6. Masked'
  BY <1>3, MaskStays
<1>7. ASSUME NEW h \in 1 .. call.groups, NEW l \in Live(h)
      PROVE  Times(inverseZ'[h][l], call.points[h][l].Z) = 1
  <2>1. h >= First /\ h \in GroupIds /\ l \in Lanes
    BY <1>1, <1>7 DEF Live
  <2>2. CASE h = First
    <3>1. inverseZ'[h] = inverseProduct
      BY <2>1, <2>2 DEF EncodeInv, Shapes
    <3>2. prefix[First][l] = SanitizedZ(First)[l]
      BY <1>1, <1>2, <2>1 DEF Prefixed
    <3>3. SanitizedZ(First)[l] = call.points[First][l].Z
      BY <1>7, <2>1, <2>2, SanitizedIs
    <3> QED BY <1>2, <2>1, <2>2, <3>1, <3>2, <3>3
  <2>3. CASE h # First
    <3>1. inverseZ'[h] = inverseZ[h]
      BY <2>1, <2>3 DEF EncodeInv, Shapes
    <3>2. h \in (group + 1) .. call.groups
      BY <1>1, <2>1, <2>3
    <3> QED BY <1>2, <1>7, <3>1, <3>2 DEF Inverted
  <2> QED BY <2>2, <2>3
<1>8. Progress'
  <2>1. Inverted(1)'
    <3>1. \A h \in 1 .. call.groups : Live(h)' = Live(h)
      BY <1>1, MaskKept
    <3> QED BY <1>7, <3>1 DEF Inverted
  <2>2. group' \in 1 .. call.groups'
    BY <1>1
  <2> QED BY <2>1, <2>2, PrefixesKept DEF Progress
<1>9. Staging'
  BY <1>1, <1>3 DEF EncodeInv, Staging, Inverting
<1> QED BY <1>4, <1>5, <1>6, <1>8, <1>9 DEF EncodeInv

\* The inverse of a later group, and what is left without it.
LEMMA RecoverLater ==
  ASSUME EncodeInv, pc = "recover", group # First,
         \/ Live(group) = {} /\ UNCHANGED <<inverseZ, inverseProduct>>
         \/ /\ Live(group) # {}
            /\ inverseZ' = [inverseZ EXCEPT ![group] = [l \in Lanes |-> Times(inverseProduct[l], prefix[group - 1][l])]]
            /\ inverseProduct' = [l \in Lanes |-> Times(inverseProduct[l], SanitizedZ(group)[l])],
         group' = group - 1, UNCHANGED <<pc, call, mask, prefix, staged, out, err>>
  PROVE  EncodeInv'
<1>1. /\ First \in 1 .. call.groups
      /\ call.groups \in 1 .. MaxGroups /\ MaxGroups \in Nat /\ 1 .. call.groups \subseteq GroupIds
  BY FirstIs DEF Inverting
<1>2. /\ group \in First .. call.groups /\ inverseProduct \in [Lanes -> Fe] /\ Prefixed(call.groups)
      /\ \A l \in Lanes : Times(inverseProduct[l], prefix[group][l]) = 1
      /\ Inverted(group + 1)
  BY DEF EncodeInv, Progress
<1>3. group \in (First + 1) .. call.groups /\ group - 1 \in First .. call.groups /\ group \in GroupIds /\ group - 1 \in GroupIds
  BY <1>1, <1>2
<1>4. pc' \in EncodeLabels \ {"idle", "done"} /\ pc' \in Inverting /\ pc \in Inverting
  BY DEF EncodeLabels, Inverting
<1>5. Pending' /\ EncodeExact' /\ out' = [g \in GroupIds |-> out'[g]]
  BY <1>4, Ongoing
<1>6. call \in Calls
  BY DEF EncodeInv, Pending
<1>7. \A l \in Lanes : /\ inverseProduct[l] \in Fe /\ prefix[group - 1][l] \in Fe /\ SanitizedZ(group)[l] \in Fe
                       /\ prefix[group][l] = Times(prefix[group - 1][l], SanitizedZ(group)[l])
  <2>1. \A l \in Lanes : prefix[group][l] = Times(prefix[group - 1][l], SanitizedZ(group)[l])
    BY <1>1, <1>2, <1>3 DEF Prefixed
  <2> QED BY <2>1, <1>2, <1>3, <1>6, SanitizedIn DEF EncodeInv, Shapes
<1>8. inverseProduct' \in [Lanes -> Fe] /\ inverseZ' \in [GroupIds -> [Lanes -> Fe]]
  <2>1. CASE UNCHANGED <<inverseZ, inverseProduct>>
    BY <2>1, <1>2 DEF EncodeInv, Shapes
  <2>2. CASE /\ inverseZ' = [inverseZ EXCEPT ![group] = [l \in Lanes |-> Times(inverseProduct[l], prefix[group - 1][l])]]
             /\ inverseProduct' = [l \in Lanes |-> Times(inverseProduct[l], SanitizedZ(group)[l])]
    <3>1. \A l \in Lanes : Times(inverseProduct[l], prefix[group - 1][l]) \in Fe /\ Times(inverseProduct[l], SanitizedZ(group)[l]) \in Fe
      BY <1>7, TimesRing
    <3>2. [l \in Lanes |-> Times(inverseProduct[l], prefix[group - 1][l])] \in [Lanes -> Fe]
      BY <3>1
    <3>3. inverseProduct' \in [Lanes -> Fe]
      BY <2>2, <3>1
    <3> QED BY <2>2, <3>2, <3>3 DEF EncodeInv, Shapes
  <2> QED BY <2>1, <2>2
<1>9. Shapes'
  BY <1>5, <1>8 DEF EncodeInv, Shapes
<1>10. Masked'
  BY <1>4, MaskStays
<1>11. ASSUME NEW l \in Lanes
       PROVE  Times(inverseProduct'[l], prefix[group - 1][l]) = 1
  <2> DEFINE i == inverseProduct[l]  a == prefix[group - 1][l]  z == SanitizedZ(group)[l]
  <2>1. i \in Fe /\ a \in Fe /\ z \in Fe /\ Times(i, Times(a, z)) = 1
    BY <1>2, <1>7
  <2>2. CASE Live(group) = {}
    <3>1. inverseProduct' = inverseProduct /\ z = 1
      BY <2>2, SanitizedIs
    <3> HIDE DEF i, a, z
    <3>2. Times(a, z) = a
      BY <2>1, <3>1, TimesRing, Elements
    <3> QED BY <2>1, <3>1, <3>2 DEF i, a
  <2>3. CASE Live(group) # {}
    <3>1. inverseProduct'[l] = Times(i, z)
      BY <2>3
    <3> HIDE DEF i, a, z
    <3>2. Times(Times(i, z), a) = Times(i, Times(z, a)) /\ Times(z, a) = Times(a, z)
      BY <2>1, TimesAssoc, TimesRing
    <3> QED BY <2>1, <3>1, <3>2 DEF a
  <2> QED BY <2>2, <2>3
<1>12. ASSUME NEW h \in group .. call.groups, NEW l \in Live(h)
       PROVE  Times(inverseZ'[h][l], call.points[h][l].Z) = 1
  <2>1. h \in GroupIds /\ l \in Lanes
    BY <1>1, <1>3, <1>12 DEF Live
  <2>2. CASE h # group
    <3>1. inverseZ'[h] = inverseZ[h]
      BY <2>1, <2>2 DEF EncodeInv, Shapes
    <3>2. h \in (group + 1) .. call.groups
      BY <1>3, <2>2
    <3> QED BY <1>2, <1>12, <3>1, <3>2 DEF Inverted
  <2>3. CASE h = group
    <3> DEFINE i == inverseProduct[l]  a == prefix[group - 1][l]  z == SanitizedZ(group)[l]
    <3>1. i \in Fe /\ a \in Fe /\ z \in Fe /\ Times(i, Times(a, z)) = 1
      BY <1>2, <1>7, <2>1
    <3>2. inverseZ'[h][l] = Times(i, a)
      BY <1>3, <1>12, <2>1, <2>3 DEF EncodeInv, Shapes
    <3>3. z = call.points[h][l].Z
      BY <1>12, <2>1, <2>3, SanitizedIs
    <3> HIDE DEF i, a, z
    <3> QED BY <3>1, <3>2, <3>3, TimesAssoc
  <2> QED BY <2>2, <2>3
<1>13. Progress'
  <2>1. First' = First /\ \A h \in group .. call.groups : Live(h)' = Live(h)
    <3>1. \A h \in group .. call.groups : h \in GroupIds
      BY <1>1, <1>3
    <3> QED BY <3>1, MaskKept
  <2>2. Inverted(group + 1)'
    <3>1. SUFFICES ASSUME NEW h \in (group' + 1) .. call.groups, NEW l \in Live(h)'
                   PROVE  Times(inverseZ'[h][l], call.points[h][l].Z) = 1
      BY DEF Inverted
    <3>2. h \in group .. call.groups
      BY <1>3
    <3> QED BY <3>2, <1>12, <2>1
  <2>3. group' \in First' .. call.groups'
    BY <1>1, <1>3, <2>1
  <2>4. \A l \in Lanes : Times(inverseProduct'[l], prefix'[group'][l]) = 1
    BY <1>11
  <2> QED BY <1>8, <2>2, <2>3, <2>4, PrefixesKept DEF Progress
<1>14. Staging'
  BY <1>1, <1>4 DEF EncodeInv, Staging, Inverting
<1> QED BY <1>5, <1>9, <1>10, <1>13, <1>14 DEF EncodeInv

-----------------------------------------------------------------------------
\* The results.

\* A live lane has the inverse of its own Z.
LEMMA LiveLane ==
  ASSUME EncodeInv, pc = "emit", NEW g \in 1 .. call.groups, NEW l \in Live(g)
  PROVE  /\ call.points[g][l].Z # 0 /\ inverseZ[g][l] = Inverses[call.points[g][l].Z]
         /\ g \in GroupIds /\ l \in Lanes /\ TakesPart(g, l)
<1>1. g \in GroupIds /\ l \in Lanes /\ call \in Calls
  BY FirstIs DEF Inverting, Live, EncodeInv, Pending
<1>2. Times(inverseZ[g][l], call.points[g][l].Z) = 1
  BY DEF EncodeInv, Progress, Inverted
<1>3. inverseZ[g][l] \in Fe /\ call.points[g][l].Z \in Fe
  BY <1>1, CallHolds DEF EncodeInv, Shapes
<1>4. TakesPart(g, l)
  BY <1>1 DEF EncodeInv, Masked, Inverting
<1>5. Times(call.points[g][l].Z, inverseZ[g][l]) = 1
  BY <1>2, <1>3, TimesRing
<1> QED BY <1>1, <1>3, <1>4, <1>5, InverseOnly

\* The staged encoding of a group.
LEMMA StagedWanted ==
  ASSUME EncodeInv, pc = "emit", call.op = "encode", NEW l \in Lanes
  PROVE  Staged(group)[l] = Wanted(group)[l]
<1>1. group \in 1 .. call.groups /\ call.groups \in Nat /\ group \in GroupIds
  BY FirstIs DEF EncodeInv, Progress, Inverting
<1>2. l \in Live(group) <=> l \in ActiveIn(group)
  BY <1>1 DEF EncodeInv, Masked, Inverting, TakesPart
<1>3. staged[group][l] = ZeroBytes
  BY <1>1 DEF EncodeInv, Staging, Inverting
<1>4. Staged(group)[l] = IF l \in Live(group)
                         THEN <<Times(call.points[group][l].Y, inverseZ[group][l]),
                                Times(call.points[group][l].X, inverseZ[group][l]) % 2>>
                         ELSE staged[group][l]
  BY DEF Staged, encodeAffine, encodeAffineX8
<1>5. Wanted(group)[l] = IF l \in ActiveIn(group) THEN Encode(call.points[group][l]) ELSE ZeroBytes
  BY DEF Wanted
<1>6. CASE l \in Live(group)
  <2>1. call.points[group][l].Z # 0 /\ inverseZ[group][l] = Inverses[call.points[group][l].Z]
    BY <1>1, <1>6, LiveLane
  <2> QED BY <1>2, <1>4, <1>5, <1>6, <2>1 DEF Encode
<1> QED BY <1>2, <1>3, <1>4, <1>5, <1>6

\* The comparison of a group.
LEMMA SignWanted ==
  ASSUME EncodeInv, pc = "emit", call.op = "compare", NEW g \in 1 .. call.groups
  PROVE  compareSign(g) = Wanted(g)
<1>1. g \in GroupIds /\ call \in Calls
  BY FirstIs DEF Inverting, EncodeInv, Pending
<1>2. SUFFICES ASSUME NEW l \in Lanes
               PROVE  (/\ l \in Live(g)
                       /\ Times(call.points[g][l].X, inverseZ[g][l]) % 2 = call.encoded[g][l][2]) = Wanted(g)[l]
  BY DEF compareSign, Wanted
<1>3. CASE l \notin Live(g)
  <2>1. ~ TakesPart(g, l)
    BY <1>1, <1>3 DEF EncodeInv, Masked, Inverting
  <2> QED BY <1>1, <1>3, <2>1, LeftOut
<1>4. CASE l \in Live(g)
  <2> DEFINE p == call.points[g][l]  e == call.encoded[g][l]
  <2>1. p.Z # 0 /\ inverseZ[g][l] = Inverses[p.Z] /\ TakesPart(g, l)
    BY <1>4, LiveLane
  <2>2. p.X \in Fe /\ p.Y \in Fe /\ p.Z \in Fe /\ e = <<e[1], e[2]>> /\ e[1] \in Nat
    BY <1>1, CallHolds
  <2>3. e[1] < P /\ p.Y = Times(e[1], p.Z) /\ l \in ActiveIn(g)
    BY <2>1 DEF TakesPart
  <2>4. Wanted(g)[l] = (Encode(p) = e)
    BY <2>3 DEF Wanted
  <2> HIDE DEF p, e
  <2>5. e[1] \in Fe
    BY <2>2, <2>3, Elements DEF Fe
  <2>6. Times(p.Y, Inverses[p.Z]) = e[1]
    BY <2>1, <2>2, <2>3, <2>5, QuotientIs
  <2>7. Encode(p) = <<e[1], Times(p.X, Inverses[p.Z]) % 2>>
    BY <2>1, <2>6 DEF Encode
  <2>8. (Encode(p) = e) = (Times(p.X, Inverses[p.Z]) % 2 = e[2])
    BY <2>2, <2>7
  <2> QED BY <1>4, <2>1, <2>4, <2>8 DEF p, e
<1> QED BY <1>3, <1>4

\* Emitting a group keeps the invariant: its affine coordinates are final.
LEMMA EmitStepStep ==
  ASSUME EncodeInv, EmitStep
  PROVE  EncodeInv'
<1> DEFINE results == [staged EXCEPT ![group] = IF call.op = "encode" THEN Staged(group) ELSE staged[group]]
           final == IF call.op = "encode" THEN results ELSE [g \in GroupIds |-> compareSign(g)]
<1>1. /\ pc = "emit" /\ staged' = results /\ UNCHANGED <<call, mask, prefix, inverseZ, inverseProduct>>
      /\ \/ group = call.groups /\ Return("none") /\ Commit(final)
         \/ group # call.groups /\ group' = group + 1 /\ UNCHANGED <<pc, out, err>>
  BY DEF EmitStep
<1>2. /\ First \in 1 .. call.groups /\ group \in 1 .. call.groups /\ Inverted(1) /\ call.groups \in Nat
      /\ 1 .. call.groups \subseteq GroupIds
  BY <1>1, FirstIs DEF Inverting, EncodeInv, Progress
<1>3. call \in Calls /\ call.op \in {"encode", "compare"}
  BY <1>1, CallHolds DEF EncodeInv, Pending
<1>4. /\ results = [g \in GroupIds |-> results[g]]
      /\ \A g \in GroupIds : results[g] = [l \in Lanes |-> results[g][l]]
  <2>1. Staged(group) = [l \in Lanes |-> Staged(group)[l]]
    BY DEF Staged, encodeAffine, encodeAffineX8
  <2> QED BY <2>1, <1>2 DEF EncodeInv, Shapes
<1>5. ASSUME call.op = "encode"
      PROVE  \A g \in 1 .. call.groups, l \in Lanes :
               results[g][l] = IF g < group + 1 THEN Wanted(g)[l] ELSE ZeroBytes
  <2>1. SUFFICES ASSUME NEW g \in 1 .. call.groups, NEW l \in Lanes
                 PROVE  results[g][l] = IF g < group + 1 THEN Wanted(g)[l] ELSE ZeroBytes
    OBVIOUS
  <2>2. g \in GroupIds /\ group \in Nat /\ g \in Nat
    BY <1>2
  <2>3. CASE g = group
    BY <1>1, <1>2, <1>5, <2>2, <2>3, StagedWanted DEF EncodeInv, Shapes
  <2>4. CASE g # group
    <3>1. results[g] = staged[g]
      BY <2>2, <2>4 DEF EncodeInv, Shapes
    <3>2. staged[g][l] = IF g < group THEN Wanted(g)[l] ELSE ZeroBytes
      BY <1>1, <1>5 DEF EncodeInv, Staging, Inverting
    <3> HIDE DEF results
    <3> QED BY <2>2, <2>4, <3>1, <3>2
  <2> QED BY <2>3, <2>4
<1> HIDE DEF results
<1>6. CASE group = call.groups /\ Return("none") /\ Commit(final)
  <2>1. ASSUME NEW g \in 1 .. call.groups, g \in GroupIds
        PROVE  final[g] = Wanted(g)
    <3>1. CASE call.op = "encode"
      <4>1. \A l \in Lanes : results[g][l] = Wanted(g)[l]
        BY <1>2, <1>5, <1>6, <3>1
      <4>2. Wanted(g) = [l \in Lanes |-> Wanted(g)[l]]
        BY DEF Wanted
      <4>3. results[g] = [l \in Lanes |-> results[g][l]]
        BY <2>1, <1>4
      <4>4. results[g] = Wanted(g)
        BY <4>1, <4>2, <4>3
      <4> QED BY <3>1, <4>4
    <3>2. CASE call.op = "compare"
      BY <1>1, <2>1, <3>2, SignWanted
    <3> QED BY <1>3, <3>1, <3>2
  <2> HIDE DEF final
  <2>2. EncodeExact' /\ Pending' /\ out' = [g \in GroupIds |-> out'[g]]
    BY <1>1, <1>3, <1>6, <2>1, Committed DEF Return
  <2>3. Shapes'
    BY <1>1, <1>4, <2>2 DEF EncodeInv, Shapes
  <2> QED BY <1>6, <2>2, <2>3, Ended DEF Return
<1>7. CASE group # call.groups /\ group' = group + 1 /\ UNCHANGED <<pc, out, err>>
  <2>1. pc' \in EncodeLabels \ {"idle", "done"} /\ pc' \in Inverting /\ pc \in Inverting
    BY <1>1, <1>7 DEF EncodeLabels, Inverting
  <2>2. Pending' /\ EncodeExact' /\ out' = [g \in GroupIds |-> out'[g]]
    BY <1>1, <1>7, <2>1, Ongoing
  <2>3. Shapes'
    BY <1>1, <1>4, <2>2 DEF EncodeInv, Shapes
  <2>4. Masked'
    BY <1>1, <2>1, MaskStays
  <2>5. Progress'
    <3>1. group' \in 1 .. call.groups'
      BY <1>1, <1>2, <1>7
    <3>2. \A g \in 1 .. call.groups : Live(g)' = Live(g)
      BY <1>1, <1>2, MaskKept
    <3>3. Inverted(1)'
      BY <1>1, <1>2, <3>2 DEF Inverted
    <3>4. Prefixed(call.groups)'
      BY <1>1, PrefixesKept
    <3> QED BY <1>1, <1>7, <3>1, <3>3, <3>4 DEF Progress
  <2>6. Staging'
    <3>1. \A g \in 1 .. call.groups : Wanted(g)' = Wanted(g)
      BY <1>1, <1>2, MaskKept
    <3> QED BY <1>1, <1>5, <1>7, <3>1 DEF Staging
  <2> QED BY <2>2, <2>3, <2>4, <2>5, <2>6 DEF EncodeInv
<1> QED BY <1>1, <1>6, <1>7

\* A product fails.
LEMMA FailStep ==
  ASSUME EncodeInv, Fail
  PROVE  EncodeInv'
<1>1. /\ pc \notin {"idle", "done"} /\ pc' = "done" /\ err' = "arithmetic"
      /\ UNCHANGED <<call, mask, group, prefix, inverseZ, staged, inverseProduct, out>>
  BY DEF Fail, Return, workspace
<1>2. EncodeExact' /\ Pending' /\ out' = [g \in GroupIds |-> out'[g]]
  BY <1>1, Refused DEF EncodeInv, Pending
<1>3. Shapes'
  BY <1>1, <1>2 DEF EncodeInv, Shapes
<1> QED BY <1>1, <1>2, <1>3, Ended

-----------------------------------------------------------------------------
\* The inversion of either register width.
LEMMA InvertStep ==
  ASSUME EncodeInv,
         \/ pc = "prefix" /\ Prefix(NextGroup)
         \/ pc = "recover" /\ Recover
  PROVE  EncodeInv'
<1>1. CASE pc = "prefix" /\ Prefix(NextGroup)
  <2>1. PICK g : g = NextGroup
    OBVIOUS
  <2>2. Prefix(g)
    BY <1>1, <2>1
  <2> QED BY <1>1, <2>1, <2>2, PrefixStep
<1>2. CASE pc = "recover" /\ Recover /\ group = First
  BY <1>2, RecoverFirst DEF Recover
<1>3. CASE pc = "recover" /\ Recover /\ group # First
  BY <1>3, RecoverLater DEF Recover
<1> QED BY <1>1, <1>2, <1>3

\* Every encoding and every comparison is that of the lane's own point, for any
\* number of groups and lanes, any field and any workspace: lanes without a
\* point take no part, and a call that fails writes nothing.
THEOREM EncodeAlwaysExact == EncodeSpec => []EncodeExact
<1>1. EncodeInit => EncodeInv
  BY EncodeInitInv
<1>2. EncodeInv /\ [EncodeNext]_encodeVars => EncodeInv'
  <2> SUFFICES ASSUME EncodeInv, [EncodeNext]_encodeVars PROVE EncodeInv'
    OBVIOUS
  <2>1. CASE Begin BY <2>1, BeginStep
  <2>2. CASE CheckEncodeX4 BY <2>2, CheckEncodeX4Step
  <2>3. CASE CheckEncodeX8 BY <2>3, CheckEncodeX8Step
  <2>4. CASE CheckCompare BY <2>4, CheckCompareStep
  <2>5. CASE CompareY BY <2>5, CompareYStep
  <2>6. CASE batchInvertPointZX4 BY <2>6, InvertStep DEF batchInvertPointZX4
  <2>7. CASE batchInvertPointZX8 BY <2>7, InvertStep DEF batchInvertPointZX8
  <2>8. CASE Total BY <2>8, TotalStep
  <2>9. CASE EmitStep BY <2>9, EmitStepStep
  <2>10. CASE Fail BY <2>10, FailStep
  <2>11. CASE UNCHANGED encodeVars
    <3>1. UNCHANGED <<pc, call, mask, group, prefix, inverseZ, staged, inverseProduct, out, err>>
      BY <2>11 DEF encodeVars
    <3>2. First' = First /\ \A g \in GroupIds : Live(g)' = Live(g) /\ Wanted(g)' = Wanted(g)
      BY <3>1, MaskKept
    <3>3. Shapes' /\ Pending' /\ EncodeExact'
      BY <3>1 DEF EncodeInv, Shapes, Pending, EncodeExact, EncodingsExact, CompareExact, ZeroZBlamed, OutAtomic, ActiveIn
    <3>4. Masked' /\ Progress' /\ Staging'
      BY <3>1 DEF EncodeInv, Masked, Progress, Staging, Prefixed, Inverted, First, Live, SanitizedZ,
         sanitizedBatchEncodeZ, sanitizedBatchEncodeZX8, TakesPart, ActiveIn, Wanted, ZeroIn
    <3> QED BY <3>3, <3>4 DEF EncodeInv
  <2> QED BY <2>1, <2>2, <2>3, <2>4, <2>5, <2>6, <2>7, <2>8, <2>9, <2>10, <2>11 DEF EncodeNext
<1>3. EncodeInv => EncodeExact
  BY DEF EncodeInv
<1> QED BY <1>1, <1>2, <1>3, PTL DEF EncodeSpec

-----------------------------------------------------------------------------
\* Recodings: bits of a number.

\* The low bits and the rest.
LEMMA LowHigh ==
  ASSUME NEW x \in Nat, NEW a \in Nat
  PROVE  /\ Low(x, a) \in Nat /\ Low(x, a) < 2 ^ a /\ Shr(x, a) \in Nat
         /\ x = Shr(x, a) * 2 ^ a + Low(x, a)
<1>1. 2 ^ a \in Nat \ {0}
  BY PowerStep
<1> DEFINE p == 2 ^ a  u == x \div p  v == x % p
<1>2. p \in Nat \ {0}
  BY <1>1
<1> HIDE DEF p
<1>3. x = u * p + v /\ v \in 0 .. p - 1 /\ u \in Nat
  BY <1>2, DivMod
<1>4. Low(x, a) = v /\ Shr(x, a) = u
  BY DEF p, Low, Shr
<1> HIDE DEF u, v
<1>5. Low(x, a) \in Nat /\ Low(x, a) < p /\ Shr(x, a) \in Nat /\ x = Shr(x, a) * p + Low(x, a)
  BY <1>2, <1>3, <1>4
<1> QED BY <1>5 DEF p

\* The quotient and the remainder are the only ones.
LEMMA ShrIs ==
  ASSUME NEW x \in Nat, NEW n \in Nat, NEW k \in Nat, NEW r \in Nat, r < 2 ^ n, x = k * 2 ^ n + r
  PROVE  Shr(x, n) = k /\ Low(x, n) = r
<1>1. PICK p \in Nat \ {0} : p = 2 ^ n
  BY PowerStep
<1>2. r \in 0 .. p - 1 /\ x = k * p + r
  BY <1>1
<1>3. x \div p = k /\ x % p = r
  BY <1>2, DivUnique
<1> QED BY <1>1, <1>3 DEF Shr, Low

\* Shifting and masking in two steps.
LEMMA Shifts ==
  ASSUME NEW x \in Nat, NEW a \in Nat, NEW b \in Nat
  PROVE  /\ Shr(Shr(x, a), b) = Shr(x, a + b)
         /\ Shr(Low(x, a + b), a) = Low(Shr(x, a), b)
         /\ Low(Low(x, a + b), a) = Low(x, a)
         /\ Low(x, a + b) = Low(x, a) + Low(Shr(x, a), b) * 2 ^ a
<1>1. PICK p \in Nat \ {0}, q \in Nat \ {0}, m \in Nat \ {0} :
             p = 2 ^ a /\ q = 2 ^ b /\ m = 2 ^ (a + b) /\ m = p * q
  BY PowerStep, PowerSum
<1>2. PICK u \in Nat, r \in 0 .. p - 1 : x = u * p + r
  BY DivExists
<1>8. PICK v \in Nat, s \in 0 .. q - 1 : u = v * q + s
  BY DivExists
<1>9. \E t \in 0 .. m - 1 : t = s * p + r /\ x = v * m + t
  <2>1. PICK sp \in Nat, qp \in Nat, up \in Nat, vm \in Nat :
             sp = s * p /\ qp = q * p /\ up = u * p /\ vm = v * m
    OBVIOUS
  <2>2. qp = m
    <3>1. q * p = p * q
      OBVIOUS
    <3> QED BY <3>1, <2>1, <1>1
  <2>3. sp + p <= qp
    <3>1. (s + 1) * p <= q * p
      BY MulMono
    <3>2. (s + 1) * p = s * p + p
      OBVIOUS
    <3> QED BY <3>1, <3>2, <2>1
  <2>4. up = vm + sp
    <3>1. u * p = (v * q) * p + s * p
      BY <1>8
    <3>2. (v * q) * p = v * (q * p)
      OBVIOUS
    <3>3. v * (q * p) = v * m
      BY <2>1, <2>2
    <3> QED BY <3>1, <3>2, <3>3, <2>1
  <2>5. x = up + r
    BY <1>2, <2>1
  <2>6. sp + r \in 0 .. m - 1 /\ x = vm + (sp + r)
    BY <2>2, <2>3, <2>4, <2>5
  <2>7. PICK t \in 0 .. m - 1 : t = sp + r /\ x = vm + t
    BY <2>6
  <2>8. t = s * p + r /\ x = v * m + t
    BY <2>7, <2>1
  <2> QED BY <2>8
<1>10. PICK t \in 0 .. m - 1 : t = s * p + r /\ x = v * m + t
  BY <1>9
<1>3. Shr(x, a) = u /\ Low(x, a) = r
  <2>1. r < 2 ^ a /\ x = u * 2 ^ a + r /\ r \in Nat
    BY <1>1, <1>2, <1>8, <1>10
  <2> QED BY <2>1, ShrIs
<1>4. Shr(u, b) = v /\ Low(u, b) = s
  <2>1. s < 2 ^ b /\ u = v * 2 ^ b + s /\ s \in Nat
    BY <1>1, <1>2, <1>8, <1>10
  <2> QED BY <2>1, ShrIs
<1>5. Shr(x, a + b) = v /\ Low(x, a + b) = t
  <2>1. t < 2 ^ (a + b) /\ x = v * 2 ^ (a + b) + t /\ t \in Nat /\ a + b \in Nat
    BY <1>1, <1>2, <1>8, <1>10
  <2> QED BY <2>1, ShrIs
<1>6. Shr(t, a) = s /\ Low(t, a) = r
  <2>1. r < 2 ^ a /\ t = s * 2 ^ a + r /\ r \in Nat /\ s \in Nat /\ t \in Nat
    BY <1>1, <1>2, <1>8, <1>10
  <2> QED BY <2>1, ShrIs
<1>7. t = r + s * 2 ^ a
  <2>1. t = r + s * p
    BY <1>10
  <2> QED BY <2>1, <1>1
<1> QED BY <1>3, <1>4, <1>5, <1>6, <1>7

\* Each by itself.
LEMMA ShrShr ==
  ASSUME NEW x \in Nat, NEW a \in Nat, NEW b \in Nat
  PROVE  Shr(Shr(x, a), b) = Shr(x, a + b)
BY ZenonT(60), Shifts

\* Shifting what was masked.
LEMMA ShrLow ==
  ASSUME NEW x \in Nat, NEW a \in Nat, NEW b \in Nat
  PROVE  Shr(Low(x, a + b), a) = Low(Shr(x, a), b)
BY ZenonT(60), Shifts

\* Masking twice.
LEMMA LowLow ==
  ASSUME NEW x \in Nat, NEW a \in Nat, NEW b \in Nat
  PROVE  Low(Low(x, a + b), a) = Low(x, a)
BY ZenonT(60), Shifts

\* More low bits.
LEMMA LowMore ==
  ASSUME NEW x \in Nat, NEW a \in Nat, NEW b \in Nat
  PROVE  Low(x, a + b) = Low(x, a) + Low(Shr(x, a), b) * 2 ^ a
BY ZenonT(60), Shifts

\* A number of n bits has no others.
LEMMA Small ==
  ASSUME NEW x \in Nat, NEW n \in Nat, x < 2 ^ n
  PROVE  Low(x, n) = x /\ Shr(x, n) = 0
<1>1. 0 * 2 ^ n = 0 /\ x = 0 * 2 ^ n + x
  BY PowerStep
<1> QED BY <1>1, ShrIs

\* Shifted right it has fewer.
LEMMA ShrSmall ==
  ASSUME NEW x \in Nat, NEW a \in Nat, NEW b \in Nat, x < 2 ^ (a + b)
  PROVE  Shr(x, a) < 2 ^ b
<1> DEFINE p == 2 ^ a  q == 2 ^ b
<1>1. p \in Nat \ {0} /\ q \in Nat /\ x < p * q
  BY PowerStep, PowerSum
<1> HIDE DEF p, q
<1>2. x \div p < q
  BY <1>1, DivSmall
<1> QED BY <1>2 DEF Shr, p, q

-----------------------------------------------------------------------------
\* The digits a scalar holds, however they are read.

\* width bits of x from a bit on.
Bits(x, bit, width) == Low(Shr(x, bit), width)

\* They form a digit.
LEMMA BitsType ==
  ASSUME NEW x \in Nat, NEW bit \in Nat, NEW width \in Nat
  PROVE  Bits(x, bit, width) \in Nat /\ Bits(x, bit, width) < 2 ^ width
<1>1. Shr(x, bit) \in Nat
  BY LowHigh
<1> QED BY <1>1, LowHigh DEF Bits

\* The low bits of more bits.
LEMMA BitsOfBits ==
  ASSUME NEW x \in Nat, NEW bit \in Nat, NEW width \in Nat, NEW more \in Nat, width <= more
  PROVE  Low(Bits(x, bit, more), width) = Bits(x, bit, width)
<1>1. PICK c \in Nat : more = width + c
  <2>1. more - width \in Nat /\ more = width + (more - width)
    OBVIOUS
  <2> QED BY <2>1
<1>2. Shr(x, bit) \in Nat
  BY LowHigh
<1>3. Low(Low(Shr(x, bit), width + c), width) = Low(Shr(x, bit), width)
  BY <1>2, LowLow
<1> QED BY <1>1, <1>3 DEF Bits

\* Bits inside a window of the scalar.
LEMMA BitsOfWindow ==
  ASSUME NEW x \in Nat, NEW from \in Nat, NEW skip \in Nat, NEW size \in Nat, NEW width \in Nat, skip + width <= size
  PROVE  Low(Shr(Bits(x, from, size), skip), width) = Bits(x, from + skip, width)
<1>1. PICK c \in Nat : size = skip + c /\ width <= c
  <2>1. size - skip \in Nat /\ size = skip + (size - skip) /\ width <= size - skip
    OBVIOUS
  <2> QED BY <2>1
<1>2. PICK y \in Nat : y = Shr(x, from)
  BY LowHigh
<1>3. Shr(Low(y, skip + c), skip) = Low(Shr(y, skip), c) /\ Shr(y, skip) = Shr(x, from + skip)
  <2>1. Shr(Low(y, skip + c), skip) = Low(Shr(y, skip), c)
    BY ShrLow
  <2>2. Shr(Shr(x, from), skip) = Shr(x, from + skip)
    BY ShrShr
  <2> QED BY <1>2, <2>1, <2>2
<1>4. Shr(Bits(x, from, size), skip) = Bits(x, from + skip, c)
  BY <1>1, <1>2, <1>3 DEF Bits
<1>5. from + skip \in Nat
  OBVIOUS
<1> QED BY <1>1, <1>4, <1>5, BitsOfBits

\* Where a bit lies among units of a size.
LEMMA Position ==
  ASSUME NEW bit \in Nat, NEW unit \in Nat \ {0}
  PROVE  /\ bit \div unit \in Nat /\ (bit \div unit) * unit \in Nat /\ bit % unit \in 0 .. unit - 1
         /\ bit = (bit \div unit) * unit + (bit % unit)
<1> DEFINE u == bit \div unit  v == bit % unit
<1>1. u \in Nat /\ v \in 0 .. unit - 1 /\ bit = u * unit + v
  BY DivMod
<1> HIDE DEF u, v
<1>2. u * unit \in Nat
  BY <1>1
<1> QED BY <1>1, <1>2 DEF u, v

\* Two bytes around the bit hold a digit of at most a byte and a bit.
LEMMA ByteExtraction ==
  ASSUME NEW x \in Nat, NEW bit \in Nat, NEW width \in Nat, ByteBits \in Nat \ {0}, width <= ByteBits + 1
  PROVE  fixedScalarBits(x, bit, width) = Bits(x, bit, width)
<1> DEFINE from == (bit \div ByteBits) * ByteBits  skip == bit % ByteBits
<1>1. from \in Nat /\ skip \in 0 .. ByteBits - 1 /\ bit = from + skip
  BY Position
<1>2. fixedScalarBits(x, bit, width) = Low(Shr(Bits(x, from, 2 * ByteBits), skip), width)
  BY DEF fixedScalarBits, Bits
<1> HIDE DEF from, skip
<1>3. 2 * ByteBits \in Nat /\ skip \in Nat /\ skip + width <= 2 * ByteBits
  BY <1>1
<1>4. Low(Shr(Bits(x, from, 2 * ByteBits), skip), width) = Bits(x, from + skip, width)
  BY <1>1, <1>3, BitsOfWindow
<1> QED BY <1>1, <1>2, <1>4

\* Above bit n a number of n bits has none.
LEMMA BitsAbove ==
  ASSUME NEW x \in Nat, NEW n \in Nat, x < 2 ^ n, NEW bit \in Nat, NEW width \in Nat, n <= bit + width
  PROVE  Bits(x, bit, width) = Shr(x, bit)
<1>1. bit + width \in Nat /\ 2 ^ n <= 2 ^ (bit + width) /\ 2 ^ n \in Nat /\ 2 ^ (bit + width) \in Nat
  BY PowerMono, PowerStep
<1>2. x < 2 ^ (bit + width)
  BY <1>1
<1>3. Shr(x, bit) < 2 ^ width /\ Shr(x, bit) \in Nat
  BY <1>2, ShrSmall, LowHigh
<1> QED BY <1>3, Small DEF Bits

\* The last byte has no successor to be read.
LEMMA LastByte ==
  ASSUME NEW x \in Nat, x < 2 ^ StorageBits, NEW bit \in Nat, NEW width \in Nat,
         ByteBits \in Nat \ {0}, StorageBits \in Nat \ {0}, StorageBits % ByteBits = 0, width <= ByteBits + 1
  PROVE  LET byte == bit \div ByteBits
             word == Low(Shr(x, byte * ByteBits), IF byte < StorageBits \div ByteBits - 1 THEN 2 * ByteBits ELSE ByteBits)
         IN Low(Shr(word, bit % ByteBits), width) = Bits(x, bit, width)
<1> DEFINE byte == bit \div ByteBits  from == byte * ByteBits  last == StorageBits \div ByteBits - 1
<1>1. from \in Nat /\ byte \in Nat
  BY Position
<1>2. Low(Shr(Bits(x, from, 2 * ByteBits), bit % ByteBits), width) = Bits(x, bit, width)
  BY ZenonT(60), ByteExtraction DEF fixedScalarBits, Bits
<1>3. ASSUME ~(byte < last) PROVE Bits(x, from, ByteBits) = Bits(x, from, 2 * ByteBits)
  <2> DEFINE n == StorageBits \div ByteBits
  <2>1. n \in Nat /\ StorageBits = n * ByteBits
    <3>1. n \in Nat /\ StorageBits = n * ByteBits + (StorageBits % ByteBits) /\ n * ByteBits \in Nat
      BY Position
    <3> QED BY <3>1
  <2> HIDE DEF n, byte
  <2>2. n <= byte + 1 /\ byte + 1 \in Nat
    BY <1>1, <1>3, <2>1 DEF n
  <2>3. n * ByteBits <= (byte + 1) * ByteBits
    BY <2>1, <2>2, MulMono
  <2>4. (byte + 1) * ByteBits = from + ByteBits
    BY <1>1
  <2>5. StorageBits <= from + ByteBits /\ StorageBits <= from + 2 * ByteBits /\ 2 * ByteBits \in Nat /\ from \in Nat
    BY <1>1, <2>1, <2>3, <2>4
  <2> HIDE DEF from
  <2>6. Bits(x, from, ByteBits) = Shr(x, from)
    BY <2>5, BitsAbove
  <2>7. Bits(x, from, 2 * ByteBits) = Shr(x, from)
    BY <2>5, BitsAbove
  <2> QED BY <2>6, <2>7
<1> QED BY <1>2, <1>3 DEF Bits

\* A word and the next, or a word alone, hold a digit of at most a word.
LEMMA WordExtraction ==
  ASSUME NEW x \in Nat, NEW bit \in Nat, NEW width \in Nat, WordBits \in Nat \ {0}, width <= WordBits
  PROVE  LET i == bit \div WordBits
             shift == bit % WordBits
             low == Shr(Low(Shr(x, i * WordBits), WordBits), shift)
             next == Low(Shr(x, (i + 1) * WordBits), WordBits)
         IN /\ shift + width <= WordBits => Low(low, width) = Bits(x, bit, width)
            /\ Low(low + next * 2 ^ (WordBits - shift), width) = Bits(x, bit, width)
<1> DEFINE quotient == bit \div WordBits  remainder == bit % WordBits
<1>0. PICK i \in Nat, shift \in 0 .. WordBits - 1, from \in Nat :
             i = quotient /\ shift = remainder /\ from = i * WordBits /\ bit = from + shift
  BY Position
<1> HIDE DEF quotient, remainder
<1> DEFINE low == Shr(Low(Shr(x, from), WordBits), shift)
           next == Low(Shr(x, (i + 1) * WordBits), WordBits)
<1>1. from \in Nat /\ shift \in 0 .. WordBits - 1 /\ bit = from + shift /\ i \in Nat
  BY <1>0
<1>2. PICK rest \in Nat : rest = WordBits - shift /\ WordBits = shift + rest
  BY <1>1
<1>3. low = Bits(x, bit, rest)
  <2>1. PICK y \in Nat : y = Shr(x, from)
    BY LowHigh
  <2>2. Shr(Low(y, shift + rest), shift) = Low(Shr(y, shift), rest)
    BY <1>1, ShrLow
  <2>3. Shr(Shr(x, from), shift) = Shr(x, from + shift)
    BY <1>1, ShrShr
  <2> QED BY <2>1, <2>2, <2>3, <1>1, <1>2 DEF Bits
<1>4. next = Bits(x, bit + rest, WordBits)
  <2>1. (i + 1) * WordBits = from + WordBits
    BY <1>0
  <2>2. from + WordBits = bit + rest
    BY <1>1, <1>2
  <2> QED BY <2>1, <2>2 DEF Bits
<1>5. low + next * 2 ^ rest = Bits(x, bit, rest + WordBits)
  <2>1. PICK y \in Nat : y = Shr(x, bit)
    BY LowHigh
  <2>2. Low(y, rest + WordBits) = Low(y, rest) + Low(Shr(y, rest), WordBits) * 2 ^ rest
    BY LowMore
  <2>3. Shr(Shr(x, bit), rest) = Shr(x, bit + rest)
    BY ShrShr
  <2> HIDE DEF low, next
  <2> QED BY <2>1, <2>2, <2>3, <1>3, <1>4 DEF Bits
<1>6. shift + width <= WordBits => Low(low, width) = Bits(x, bit, width)
  <2>1. SUFFICES ASSUME width <= rest PROVE Low(Bits(x, bit, rest), width) = Bits(x, bit, width)
    <3> HIDE DEF low
    <3> QED BY <1>1, <1>2, <1>3
  <2> QED BY <2>1, BitsOfBits
<1>7. Low(Bits(x, bit, rest + WordBits), width) = Bits(x, bit, width)
  <2>1. rest + WordBits \in Nat /\ width <= rest + WordBits
    OBVIOUS
  <2> QED BY <2>1, BitsOfBits
<1> HIDE DEF low, next
<1>8. Low(low + next * 2 ^ (WordBits - shift), width) = Bits(x, bit, width)
  BY <1>2, <1>5, <1>7
<1> QED BY <1>0, <1>6, <1>8 DEF low, next, quotient, remainder

\* asymmetricFixedBScalarWordBits reads the second word only if it must.
LEMMA AsymmetricExtraction ==
  ASSUME NEW x \in Nat, NEW bit \in Nat, NEW width \in Nat, WordBits \in Nat \ {0}, width <= WordBits
  PROVE  asymmetricFixedBScalarWordBits(x, bit, width) = Bits(x, bit, width)
<1> DEFINE i == bit \div WordBits
           shift == bit % WordBits
           low == Shr(Low(Shr(x, i * WordBits), WordBits), shift)
           next == Low(Shr(x, (i + 1) * WordBits), WordBits)
           both == low + next * 2 ^ (WordBits - shift)
<1>1. /\ shift + width <= WordBits => Low(low, width) = Bits(x, bit, width)
      /\ Low(both, width) = Bits(x, bit, width)
  BY WordExtraction
<1>2. asymmetricFixedBScalarWordBits(x, bit, width) = Low(IF shift + width > WordBits THEN both ELSE low, width)
  BY DEF asymmetricFixedBScalarWordBits
<1>3. shift \in Nat
  BY Position
<1> HIDE DEF i, shift, low, next, both
<1> QED BY <1>1, <1>2, <1>3

\* And so does the non-adjacent form, one position earlier.
LEMMA NafExtraction ==
  ASSUME NEW x \in Nat, NEW bit \in Nat, NEW width \in Nat, WordBits \in Nat \ {0}, width <= WordBits
  PROVE  NafWindow(x, bit, width) = Bits(x, bit, width)
<1> DEFINE i == bit \div WordBits
           shift == bit % WordBits
           low == Shr(Low(Shr(x, i * WordBits), WordBits), shift)
           next == Low(Shr(x, (i + 1) * WordBits), WordBits)
           both == low + next * 2 ^ (WordBits - shift)
<1>1. /\ shift + width <= WordBits => Low(low, width) = Bits(x, bit, width)
      /\ Low(both, width) = Bits(x, bit, width)
  BY WordExtraction
<1>2. NafWindow(x, bit, width) = Low(IF shift < WordBits - width THEN low ELSE both, width)
  BY DEF NafWindow
<1>3. shift \in Nat
  BY Position
<1> HIDE DEF i, shift, low, next, both
<1> QED BY <1>1, <1>2, <1>3

-----------------------------------------------------------------------------
\* What digits stand for.

\* Sums that grow by one digit after another end in the value.
LEMMA ValueBy ==
  ASSUME NEW n \in Nat, NEW w \in Nat, NEW digits, DOMAIN digits = 0 .. (n - 1),
         NEW sum \in [0 .. n -> Int], sum[0] = 0,
         \A i \in 0 .. (n - 1) : sum[i + 1] = sum[i] + digits[i] * 2 ^ (w * i)
  PROVE  Value(digits, w) = sum[n]
<1>1. Cardinality(DOMAIN digits) = n
  <2>1. Cardinality(0 .. (n - 1)) = IF 0 > n - 1 THEN 0 ELSE (n - 1) - 0 + 1
    BY FS_Interval
  <2> QED BY <2>1
<1> DEFINE Sum(f) == [i \in 0 .. n |-> IF i = 0 THEN 0 ELSE f[i - 1] + digits[i - 1] * 2 ^ (w * (i - 1))]
           g == CHOOSE f : f = Sum(f)
<1>2. sum = Sum(sum)
  <2>1. ASSUME NEW i \in 0 .. n, i # 0
        PROVE  sum[i] = sum[i - 1] + digits[i - 1] * 2 ^ (w * (i - 1))
    <3>1. i - 1 \in 0 .. (n - 1) /\ (i - 1) + 1 = i
      BY <2>1
    <3>2. sum[(i - 1) + 1] = sum[i - 1] + digits[i - 1] * 2 ^ (w * (i - 1))
      BY <3>1
    <3> QED BY <3>1, <3>2
  <2> QED BY <2>1
<1>3. g = Sum(g)
  BY <1>2
<1>4. Value(digits, w) = g[n]
  BY <1>1 DEF Value
<1> HIDE DEF g
<1> DEFINE S == {i \in Nat : i <= n => g[i] = sum[i]}
<1>5. 0 \in S
  BY <1>3
<1>6. ASSUME NEW i \in Nat, i \in S PROVE i + 1 \in S
  <2>1. SUFFICES ASSUME i + 1 <= n PROVE g[i + 1] = sum[i + 1]
    OBVIOUS
  <2>2. i + 1 \in 0 .. n /\ i + 1 # 0 /\ (i + 1) - 1 = i /\ i \in 0 .. (n - 1)
    BY <2>1
  <2>3. g[i + 1] = g[i] + digits[i] * 2 ^ (w * i)
    <3>1. g[i + 1] = g[(i + 1) - 1] + digits[(i + 1) - 1] * 2 ^ (w * ((i + 1) - 1))
      BY <1>3, <2>2
    <3> QED BY <3>1, <2>2
  <2> QED BY <2>2, <2>3, <1>6
<1>7. n \in S
  <2> HIDE DEF S
  <2> QED BY <1>5, <1>6, SetInduction
<1> QED BY <1>4, <1>7

-----------------------------------------------------------------------------
\* Balanced digits.

\* The carries into the digits.
Carries(raw, w, n) ==
  LET carry[i \in 0 .. n] ==
        IF i = 0 THEN 0 ELSE Shr(raw[i - 1] + carry[i - 1] + 2 ^ (w - 1), w)
  IN carry

\* Half a digit and a whole one.
LEMMA Halves ==
  ASSUME NEW w \in Nat \ {0}
  PROVE  2 ^ (w - 1) \in Nat \ {0} /\ 2 ^ w = 2 * 2 ^ (w - 1) /\ 2 ^ w \in Nat \ {0}
<1>1. w - 1 \in Nat /\ (w - 1) + 1 = w
  OBVIOUS
<1>2. 2 ^ (w - 1) \in Nat \ {0} /\ 2 ^ ((w - 1) + 1) = 2 * 2 ^ (w - 1)
  BY <1>1, PowerStep
<1>3. 2 ^ w \in Nat \ {0}
  BY PowerStep
<1> QED BY <1>1, <1>2, <1>3

\* A digit that reaches half is carried, once.
LEMMA CarryOut ==
  ASSUME NEW w \in Nat \ {0}, NEW t \in Nat, t <= 2 ^ w
  PROVE  Shr(t + 2 ^ (w - 1), w) = IF t >= 2 ^ (w - 1) THEN 1 ELSE 0
<1>1. PICK h \in Nat \ {0} : h = 2 ^ (w - 1) /\ 2 ^ w = 2 * h
  BY Halves
<1>2. CASE t >= h
  <2>1. t - h \in Nat /\ t - h < 2 ^ w /\ t + h = 1 * 2 ^ w + (t - h) /\ t + h \in Nat
    BY <1>1, <1>2
  <2> QED BY <2>1, <1>1, <1>2, ShrIs
<1>3. CASE t < h
  <2>1. t + h \in Nat /\ t + h < 2 ^ w /\ t + h = 0 * 2 ^ w + (t + h)
    BY <1>1, <1>3
  <2> QED BY <2>1, <1>1, <1>3, ShrIs
<1> QED BY <1>1, <1>2, <1>3

\* Carries are 0 or 1 and follow from the digit before.
LEMMA CarryRecursion ==
  ASSUME NEW w \in Nat \ {0}, NEW n \in Nat, NEW raw,
         \A i \in 0 .. (n - 1) : raw[i] \in Nat /\ raw[i] < 2 ^ w
  PROVE  /\ Carries(raw, w, n) \in [0 .. n -> {0, 1}] /\ Carries(raw, w, n)[0] = 0
         /\ \A i \in 0 .. (n - 1) :
              Carries(raw, w, n)[i + 1] = IF raw[i] + Carries(raw, w, n)[i] >= 2 ^ (w - 1) THEN 1 ELSE 0
<1> DEFINE H == 2 ^ (w - 1)
           step == [p \in (1 .. n) \X {0, 1} |-> Shr(raw[p[1] - 1] + p[2] + H, w)]
           C == Carries(raw, w, n)
<1>1. ASSUME NEW i \in 1 .. n, NEW c \in {0, 1}
      PROVE  Shr(raw[i - 1] + c + H, w) = IF raw[i - 1] + c >= H THEN 1 ELSE 0
  <2>1. i - 1 \in 0 .. (n - 1)
    OBVIOUS
  <2>2. raw[i - 1] \in Nat /\ raw[i - 1] < 2 ^ w /\ 2 ^ w \in Nat
    BY <2>1, Halves
  <2>3. raw[i - 1] + c \in Nat /\ raw[i - 1] + c <= 2 ^ w
    BY <2>2
  <2>4. PICK t \in Nat : t = raw[i - 1] + c
    BY <2>3
  <2>5. Shr(t + 2 ^ (w - 1), w) = IF t >= 2 ^ (w - 1) THEN 1 ELSE 0
    BY <2>3, <2>4, CarryOut
  <2> QED BY <2>4, <2>5
<1>2. step \in [(1 .. n) \X {0, 1} -> {0, 1}]
  <2>1. \A p \in (1 .. n) \X {0, 1} : p[1] \in 1 .. n /\ p[2] \in {0, 1}
    OBVIOUS
  <2>2. \A p \in (1 .. n) \X {0, 1} : Shr(raw[p[1] - 1] + p[2] + H, w) \in {0, 1}
    BY <2>1, <1>1
  <2> QED BY <2>2
<1>3. PICK f \in [0 .. n -> {0, 1}] : Computed(f, n, 0, step)
  <2> HIDE DEF step
  <2>1. 0 \in {0, 1}
    OBVIOUS
  <2> QED BY <1>2, <2>1, Computable
<1> DEFINE Carry(g) == [i \in 0 .. n |-> IF i = 0 THEN 0 ELSE Shr(raw[i - 1] + g[i - 1] + H, w)]
<1>4. f = Carry(f)
  <2>1. ASSUME NEW i \in 0 .. n, i # 0
        PROVE  step[<<i, f[i - 1]>>] = Shr(raw[i - 1] + f[i - 1] + H, w)
    <3>1. i \in 1 .. n /\ i - 1 \in 0 .. n
      BY <2>1
    <3>2. <<i, f[i - 1]>> \in (1 .. n) \X {0, 1}
      BY <3>1
    <3> QED BY <3>2
  <2> HIDE DEF step, H
  <2> QED BY <1>3, <2>1 DEF Computed
<1>5. C = CHOOSE g : g = Carry(g)
  BY DEF Carries
<1> HIDE DEF C, step
<1>6. C = Carry(C)
  BY <1>4, <1>5
<1> DEFINE S == {i \in Nat : i <= n => C[i] \in {0, 1}}
<1>7. 0 \in S
  BY <1>6
<1>8. ASSUME NEW i \in Nat, i < n, C[i] \in {0, 1}
      PROVE  C[i + 1] = IF raw[i] + C[i] >= H THEN 1 ELSE 0
  <2>1. i + 1 \in 1 .. n /\ (i + 1) - 1 = i /\ i + 1 \in 0 .. n /\ i + 1 # 0
    BY <1>8
  <2>2. C[i + 1] = Shr(raw[(i + 1) - 1] + C[(i + 1) - 1] + H, w)
    BY <1>6, <2>1
  <2> HIDE DEF H
  <2> QED BY <2>1, <2>2, <1>1, <1>8
<1>9. ASSUME NEW i \in Nat, i \in S PROVE i + 1 \in S
  <2> HIDE DEF H
  <2> QED BY <1>8, <1>9
<1>10. \A i \in Nat : i \in S
  <2> HIDE DEF S
  <2> QED BY <1>7, <1>9, SetInduction
<1>11. C \in [0 .. n -> {0, 1}]
  <2>1. C = [i \in 0 .. n |-> C[i]]
    BY <1>6
  <2>2. \A i \in 0 .. n : C[i] \in {0, 1}
    BY <1>10
  <2> QED BY <2>1, <2>2
<1>12. C[0] = 0
  BY <1>6
<1>13. \A i \in 0 .. (n - 1) : C[i + 1] = IF raw[i] + C[i] >= H THEN 1 ELSE 0
  <2>1. ASSUME NEW i \in 0 .. (n - 1) PROVE i \in Nat /\ i < n /\ C[i] \in {0, 1}
    BY <1>11
  <2> HIDE DEF H
  <2> QED BY <2>1, <1>8
<1> QED BY <1>11, <1>12, <1>13 DEF C

\* raw holds n digits.
RawDigits(raw, w, n) == \A i \in 0 .. (n - 1) : raw[i] \in Nat /\ raw[i] < 2 ^ w

\* They are those of x.
DigitsOf(raw, x, w, n) == \A i \in 0 .. (n - 1) : raw[i] = Bits(x, i * w, w)

\* sum adds up digits.
Sums(sum, digits, w, n) ==
  /\ sum \in [0 .. n -> Int] /\ sum[0] = 0
  /\ \A i \in 0 .. (n - 1) : sum[i + 1] = sum[i] + digits[i] * 2 ^ (w * i)

\* The shape of balanced digits: each within half a radix, and a carry of 0 or 1.
LEMMA BalancedDigits ==
  ASSUME NEW w \in Nat \ {0}, NEW n \in Nat, NEW raw, RawDigits(raw, w, n),
         NEW r, r = Balanced(raw, w, n)
  PROVE  /\ r = [digits |-> [i \in 0 .. (n - 1) |-> r.digits[i]], carry |-> r.carry]
         /\ DOMAIN r.digits = 0 .. (n - 1) /\ r.carry = Carries(raw, w, n)[n] /\ r.carry \in {0, 1}
         /\ \A i \in 0 .. (n - 1) :
              /\ r.digits[i] = raw[i] + Carries(raw, w, n)[i] - Carries(raw, w, n)[i + 1] * 2 ^ w
              /\ r.digits[i] \in Int /\ -(2 ^ (w - 1)) <= r.digits[i] /\ r.digits[i] < 2 ^ (w - 1)
<1> DEFINE C == Carries(raw, w, n)
<1>1. /\ C \in [0 .. n -> {0, 1}] /\ C[0] = 0
      /\ \A i \in 0 .. (n - 1) : C[i + 1] = IF raw[i] + C[i] >= 2 ^ (w - 1) THEN 1 ELSE 0
  BY CarryRecursion DEF RawDigits
<1>2. r = [digits |-> [i \in 0 .. (n - 1) |-> raw[i] + C[i] - C[i + 1] * 2 ^ w], carry |-> C[n]]
  BY DEF Balanced, Carries
<1> HIDE DEF C
<1>3. /\ r = [digits |-> [i \in 0 .. (n - 1) |-> r.digits[i]], carry |-> r.carry]
      /\ DOMAIN r.digits = 0 .. (n - 1) /\ r.carry = C[n]
      /\ \A i \in 0 .. (n - 1) : r.digits[i] = raw[i] + C[i] - C[i + 1] * 2 ^ w
  BY <1>2
<1>4. C[n] \in {0, 1}
  BY <1>1
<1>5. ASSUME NEW i \in 0 .. (n - 1)
      PROVE  r.digits[i] \in Int /\ -(2 ^ (w - 1)) <= r.digits[i] /\ r.digits[i] < 2 ^ (w - 1)
  <2>1. PICK h \in Nat \ {0} : h = 2 ^ (w - 1) /\ 2 ^ w = 2 * h
    BY Halves
  <2>2. PICK t \in Nat : t = raw[i] + C[i] /\ t <= 2 * h
    <3>1. raw[i] \in Nat /\ raw[i] < 2 * h /\ C[i] \in {0, 1}
      BY <1>1, <2>1 DEF RawDigits
    <3>2. raw[i] + C[i] \in Nat /\ raw[i] + C[i] <= 2 * h
      BY <3>1
    <3> QED BY <3>2
  <2>3. C[i + 1] = IF t >= h THEN 1 ELSE 0
    BY <1>1, <2>1, <2>2
  <2>4. r.digits[i] = t - C[i + 1] * (2 * h)
    <3>1. r.digits[i] = raw[i] + C[i] - C[i + 1] * 2 ^ w
      BY <1>3
    <3>2. PICK a \in Nat, b \in {0, 1}, c \in {0, 1} : a = raw[i] /\ b = C[i] /\ c = C[i + 1]
      BY <1>1 DEF RawDigits
    <3> QED BY <3>1, <3>2, <2>1, <2>2
  <2>5. CASE t >= h
    <3>1. C[i + 1] = 1
      BY <2>3, <2>5
    <3>2. r.digits[i] = t - 2 * h
      BY <2>4, <3>1
    <3> QED BY <2>1, <2>2, <2>5, <3>2
  <2>6. CASE t < h
    <3>1. C[i + 1] = 0
      BY <2>3, <2>6
    <3>2. r.digits[i] = t
      BY <2>4, <3>1
    <3> QED BY <2>1, <2>2, <2>6, <3>2
  <2> QED BY <2>1, <2>2, <2>5, <2>6
<1> QED BY <1>3, <1>4, <1>5 DEF C

\* Balanced digits add up to the bits they were made of, less the carry.
LEMMA BalancedSums ==
  ASSUME NEW w \in Nat \ {0}, NEW n \in Nat, NEW raw, RawDigits(raw, w, n),
         NEW x \in Nat, DigitsOf(raw, x, w, n), NEW r, r = Balanced(raw, w, n)
  PROVE  \E sum : /\ Sums(sum, r.digits, w, n)
                  /\ sum[n] = Low(x, n * w) - r.carry * 2 ^ (n * w)
<1> DEFINE C == Carries(raw, w, n)
           sum == [i \in 0 .. n |-> Low(x, i * w) - C[i] * 2 ^ (i * w)]
<1>1. C \in [0 .. n -> {0, 1}] /\ C[0] = 0
  BY CarryRecursion DEF RawDigits
<1>2. r.carry = C[n] /\ \A i \in 0 .. (n - 1) : r.digits[i] = raw[i] + C[i] - C[i + 1] * 2 ^ w
  BY BalancedDigits
<1> HIDE DEF C
<1>3. \A i \in 0 .. n : i * w \in Nat /\ Low(x, i * w) \in Nat /\ 2 ^ (i * w) \in Nat
  <2>1. ASSUME NEW i \in 0 .. n PROVE i * w \in Nat
    OBVIOUS
  <2> QED BY <2>1, LowHigh, PowerStep
<1>4. sum \in [0 .. n -> Int]
  <2>1. ASSUME NEW i \in 0 .. n PROVE Low(x, i * w) - C[i] * 2 ^ (i * w) \in Int
    <3>1. PICK l \in Nat, p \in Nat, c \in {0, 1} : l = Low(x, i * w) /\ p = 2 ^ (i * w) /\ c = C[i]
      BY <1>1, <1>3
    <3> QED BY <3>1
  <2> QED BY <2>1
<1>5. sum[0] = 0
  <2>1. 0 * w = 0 /\ 2 ^ 0 = 1
    OBVIOUS
  <2>2. Low(x, 0) = 0
    <3>1. Low(x, 0) \in Nat /\ Low(x, 0) < 2 ^ 0
      BY LowHigh
    <3> QED BY <3>1, <2>1
  <2> QED BY <1>1, <2>1, <2>2
<1>6. ASSUME NEW i \in 0 .. (n - 1)
      PROVE  sum[i + 1] = sum[i] + r.digits[i] * 2 ^ (w * i)
  <2>1. i \in 0 .. n /\ i + 1 \in 0 .. n /\ i \in Nat /\ i * w \in Nat
    OBVIOUS
  <2>2. PICK p \in Nat, W \in Nat, l \in Nat, b \in Nat, c \in {0, 1}, d \in {0, 1} :
             p = 2 ^ (i * w) /\ W = 2 ^ w /\ l = Low(x, i * w) /\ b = raw[i] /\ c = C[i] /\ d = C[i + 1]
    <3>1. 2 ^ (i * w) \in Nat /\ 2 ^ w \in Nat /\ Low(x, i * w) \in Nat /\ raw[i] \in Nat
      BY <1>3, <2>1, PowerStep DEF RawDigits
    <3>2. C[i] \in {0, 1} /\ C[i + 1] \in {0, 1}
      BY <1>1, <2>1
    <3> QED BY <3>1, <3>2
  <2>3. (i + 1) * w = i * w + w /\ w * i = i * w
    OBVIOUS
  <2>4. 2 ^ (i * w + w) = p * W
    BY <2>1, <2>2, PowerSum
  <2>5. Low(x, i * w + w) = l + b * p
    <3>1. Low(x, i * w + w) = Low(x, i * w) + Low(Shr(x, i * w), w) * 2 ^ (i * w)
      BY <2>1, LowMore
    <3>2. b = Low(Shr(x, i * w), w)
      BY <2>2 DEF DigitsOf, Bits
    <3> QED BY <3>1, <3>2, <2>2
  <2>6. sum[i + 1] = (l + b * p) - d * (p * W)
    BY <2>1, <2>2, <2>3, <2>4, <2>5
  <2>7. sum[i] = l - c * p
    BY <2>1, <2>2
  <2>8. r.digits[i] * 2 ^ (w * i) = (b + c - d * W) * p
    BY <1>2, <2>2, <2>3
  <2> HIDE DEF sum
  <2>9. (b + c - d * W) * p = b * p + c * p - d * (p * W)
    <3>1. CASE d = 0
      BY <3>1
    <3>2. CASE d = 1
      <4>1. (b + c - W) * p = b * p + c * p - W * p
        OBVIOUS
      <4> QED BY <3>2, <4>1
    <3> QED BY <3>1, <3>2
  <2>10. PICK bp \in Nat, cp \in Nat, dpW \in Nat : bp = b * p /\ cp = c * p /\ dpW = d * (p * W)
    <3>1. p * W \in Nat /\ c \in Nat /\ d \in Nat
      OBVIOUS
    <3> QED BY <3>1
  <2> QED BY <2>6, <2>7, <2>8, <2>9, <2>10
<1>7. sum[n] = Low(x, n * w) - r.carry * 2 ^ (n * w)
  <2> HIDE DEF C
  <2> QED BY <1>2
<1>8. Sums(sum, r.digits, w, n)
  <2> HIDE DEF sum
  <2> QED BY <1>4, <1>5, <1>6 DEF Sums
<1> QED BY <1>7, <1>8

\* A sum is the value of its digits, and the sign goes through.
LEMMA SumsValue ==
  ASSUME NEW n \in Nat, NEW w \in Nat, NEW digits, NEW sum, Sums(sum, digits, w, n), NEW d, DOMAIN d = 0 .. (n - 1)
  PROVE  /\ (\A i \in 0 .. (n - 1) : d[i] = digits[i]) => Value(d, w) = sum[n]
         /\ (\A i \in 0 .. (n - 1) : digits[i] \in Int /\ d[i] = -digits[i]) => Value(d, w) = -sum[n]
<1>1. ASSUME \A i \in 0 .. (n - 1) : d[i] = digits[i]
      PROVE  Value(d, w) = sum[n]
  <2>1. sum \in [0 .. n -> Int] /\ sum[0] = 0 /\ \A i \in 0 .. (n - 1) : sum[i + 1] = sum[i] + d[i] * 2 ^ (w * i)
    BY <1>1 DEF Sums
  <2> QED BY ZenonT(60), <2>1, ValueBy
<1>2. ASSUME \A i \in 0 .. (n - 1) : digits[i] \in Int /\ d[i] = -digits[i]
      PROVE  Value(d, w) = -sum[n]
  <2> DEFINE minus == [i \in 0 .. n |-> -sum[i]]
  <2>1. minus \in [0 .. n -> Int] /\ minus[0] = 0 /\ minus[n] = -sum[n]
    BY DEF Sums
  <2>2. ASSUME NEW i \in 0 .. (n - 1) PROVE minus[i + 1] = minus[i] + d[i] * 2 ^ (w * i)
    <3>1. i \in 0 .. n /\ i + 1 \in 0 .. n /\ w * i \in Nat
      OBVIOUS
    <3>2. PICK g \in Int, p \in Nat, s \in Int, t \in Int : g = digits[i] /\ p = 2 ^ (w * i) /\ s = sum[i] /\ t = sum[i + 1]
      BY <1>2, <3>1, PowerStep DEF Sums
    <3>3. t = s + g * p
      BY <3>2 DEF Sums
    <3>4. (-g) * p = -(g * p) /\ g * p \in Int
      OBVIOUS
    <3>5. -t = -s + (-g) * p
      BY <3>3, <3>4
    <3> QED BY <1>2, <3>1, <3>2, <3>5
  <2> HIDE DEF minus
  <2>3. Value(d, w) = minus[n]
    BY ZenonT(60), <2>1, <2>2, ValueBy
  <2> QED BY <2>1, <2>3
<1> QED BY <1>1, <1>2

\* The same with nothing changed.
LEMMA SumsOwn ==
  ASSUME NEW n \in Nat, NEW w \in Nat, NEW digits, NEW sum, Sums(sum, digits, w, n), DOMAIN digits = 0 .. (n - 1)
  PROVE  Value(digits, w) = sum[n]
BY ZenonT(60), ValueBy DEF Sums

\* A digit more.
LEMMA SumsMore ==
  ASSUME NEW n \in Nat, NEW w \in Nat, NEW digits, NEW sum, Sums(sum, digits, w, n),
         NEW d, NEW top \in Int, d[n] = top, \A i \in 0 .. (n - 1) : d[i] = digits[i]
  PROVE  \E more : Sums(more, d, w, n + 1) /\ more[n + 1] = sum[n] + top * 2 ^ (w * n)
<1> DEFINE more == [i \in 0 .. (n + 1) |-> IF i = n + 1 THEN sum[n] + top * 2 ^ (w * n) ELSE sum[i]]
<1>1. sum[n] + top * 2 ^ (w * n) \in Int
  <2>1. w * n \in Nat /\ sum[n] \in Int
    BY DEF Sums
  <2>2. 2 ^ (w * n) \in Nat
    BY <2>1, PowerStep
  <2> QED BY <2>1, <2>2
<1>2. more \in [0 .. (n + 1) -> Int]
  BY <1>1 DEF Sums
<1>3. more[0] = 0
  BY DEF Sums
<1>4. ASSUME NEW i \in 0 .. ((n + 1) - 1) PROVE more[i + 1] = more[i] + d[i] * 2 ^ (w * i)
  <2>1. CASE i = n
    BY <2>1
  <2>2. CASE i # n
    <3>1. i \in 0 .. (n - 1) /\ i + 1 # n + 1 /\ i # n + 1 /\ i + 1 \in 0 .. (n + 1) /\ i \in 0 .. (n + 1)
      BY <2>2
    <3>2. sum[i + 1] = sum[i] + digits[i] * 2 ^ (w * i) /\ d[i] = digits[i]
      BY <3>1 DEF Sums
    <3> QED BY <3>1, <3>2
  <2> QED BY <2>1, <2>2
<1>5. more[n + 1] = sum[n] + top * 2 ^ (w * n)
  OBVIOUS
<1> HIDE DEF more
<1>6. Sums(more, d, w, n + 1)
  BY <1>2, <1>3, <1>4 DEF Sums
<1> QED BY <1>5, <1>6

\* A carry leaves a digit behind only if more than a third of the range lies
\* below it.
LEMMA CarryMeansThird ==
  ASSUME NEW w \in Nat, w >= 2, NEW n \in Nat, NEW raw, RawDigits(raw, w, n),
         NEW x \in Nat, DigitsOf(raw, x, w, n)
  PROVE  \A i \in 0 .. n : Carries(raw, w, n)[i] = 1 => 3 * Low(x, i * w) > 2 ^ (i * w)
<1> DEFINE C == Carries(raw, w, n)
           S == {i \in Nat : i <= n /\ C[i] = 1 => 3 * Low(x, i * w) > 2 ^ (i * w)}
<1>1. /\ C \in [0 .. n -> {0, 1}] /\ C[0] = 0
      /\ \A i \in 0 .. (n - 1) : C[i + 1] = IF raw[i] + C[i] >= 2 ^ (w - 1) THEN 1 ELSE 0
  <2>1. w \in Nat \ {0}
    OBVIOUS
  <2> QED BY <2>1, CarryRecursion DEF RawDigits
<1> HIDE DEF C
<1>2. 0 \in S
  BY <1>1
<1>3. ASSUME NEW i \in Nat, i \in S PROVE i + 1 \in S
  <2>1. SUFFICES ASSUME i + 1 <= n, C[i + 1] = 1 PROVE 3 * Low(x, (i + 1) * w) > 2 ^ ((i + 1) * w)
    OBVIOUS
  <2>2. i \in 0 .. n /\ i \in 0 .. (n - 1) /\ i * w \in Nat
    BY <2>1
  <2>3. PICK p \in Nat \ {0}, h \in Nat, l \in Nat, b \in Nat, c \in {0, 1} :
             p = 2 ^ (i * w) /\ h = 2 ^ (w - 1) /\ 2 ^ w = 2 * h /\ h >= 2
             /\ l = Low(x, i * w) /\ b = raw[i] /\ c = C[i]
    <3>1. 2 ^ (i * w) \in Nat \ {0} /\ Low(x, i * w) \in Nat
      BY <2>2, PowerStep, LowHigh
    <3>2. PICK h \in Nat \ {0} : h = 2 ^ (w - 1) /\ 2 ^ w = 2 * h
      <4>1. w \in Nat \ {0}
        OBVIOUS
      <4> QED BY <4>1, Halves
    <3>3. h >= 2
      <4>1. 1 \in Nat /\ w - 1 \in Nat /\ 1 <= w - 1 /\ 2 ^ 1 = 2
        OBVIOUS
      <4> QED BY <4>1, <3>2, PowerMono
    <3>4. raw[i] \in Nat /\ C[i] \in {0, 1}
      BY <1>1, <2>2 DEF RawDigits
    <3> QED BY <3>1, <3>2, <3>3, <3>4
  <2>4. b + c >= h
    <3>1. C[i + 1] = IF raw[i] + C[i] >= 2 ^ (w - 1) THEN 1 ELSE 0
      BY <1>1, <2>2
    <3> QED BY <3>1, <2>1, <2>3
  <2>5. (i + 1) * w = i * w + w
    OBVIOUS
  <2>6. 2 ^ (i * w + w) = p * (2 * h)
    <3>1. 2 ^ (i * w + w) = 2 ^ (i * w) * 2 ^ w
      BY <2>2, PowerSum
    <3> QED BY <3>1, <2>3
  <2>7. Low(x, i * w + w) = l + b * p
    <3>1. Low(x, i * w + w) = Low(x, i * w) + Low(Shr(x, i * w), w) * 2 ^ (i * w)
      BY <2>2, LowMore
    <3>2. b = Low(Shr(x, i * w), w)
      BY <2>2, <2>3 DEF DigitsOf, Bits
    <3> QED BY <3>1, <3>2, <2>3
  <2>8. c = 1 => 3 * l > p
    <3>1. i <= n /\ C[i] = 1 => 3 * Low(x, i * w) > 2 ^ (i * w)
      BY <1>3
    <3> QED BY <3>1, <2>2, <2>3
  <2>9. 3 * (l + b * p) > p * (2 * h)
    <3>1. PICK bp \in Nat, hp \in Nat : bp = b * p /\ hp = h * p
      OBVIOUS
    <3>2. p * (2 * h) = 2 * hp
      BY <3>1
    <3>3. hp >= 2 * p
      BY <2>3, <3>1, MulMono
    <3>4. CASE c = 0
      <4>1. h * p <= b * p
        BY <2>4, <3>4, MulMono
      <4> QED BY <4>1, <3>1, <3>2, <3>3
    <3>5. CASE c = 1
      <4>1. h <= b + 1
        BY <2>4, <3>5
      <4>2. h * p <= (b + 1) * p
        BY <4>1, MulMono
      <4>3. (b + 1) * p = bp + p
        BY <3>1
      <4>4. hp <= bp + p /\ 3 * l > p
        BY <4>2, <4>3, <3>1, <2>8, <3>5
      <4> QED BY <4>4, <3>1, <3>2, <3>3
    <3> QED BY <3>4, <3>5
  <2> QED BY <2>5, <2>6, <2>7, <2>9
<1>4. \A i \in Nat : i \in S
  <2> HIDE DEF S
  <2> QED BY <1>2, <1>3, SetInduction
<1>5. \A i \in 0 .. n : C[i] = 1 => 3 * Low(x, i * w) > 2 ^ (i * w)
  BY <1>4
<1> QED BY <1>5 DEF C

\* With room for a third, the digits are exact and leave no carry.
LEMMA ExactDigits ==
  ASSUME NEW w \in Nat, w >= 2, NEW n \in Nat, NEW raw, RawDigits(raw, w, n),
         NEW x \in Nat, DigitsOf(raw, x, w, n), 3 * x <= 2 ^ (n * w), NEW r, r = Balanced(raw, w, n)
  PROVE  r.carry = 0 /\ \E sum : Sums(sum, r.digits, w, n) /\ sum[n] = x
<1>1. n * w \in Nat /\ w \in Nat \ {0}
  OBVIOUS
<1>2. 2 ^ (n * w) \in Nat \ {0}
  BY <1>1, PowerStep
<1>3. x < 2 ^ (n * w)
  BY <1>2
<1>4. Low(x, n * w) = x
  BY <1>1, <1>3, Small
<1>5. r.carry = Carries(raw, w, n)[n] /\ r.carry \in {0, 1}
  BY <1>1, BalancedDigits
<1>6. r.carry = 0
  <2>1. Carries(raw, w, n)[n] = 1 => 3 * Low(x, n * w) > 2 ^ (n * w)
    BY CarryMeansThird
  <2> QED BY <2>1, <1>2, <1>4, <1>5
<1>7. PICK sum : Sums(sum, r.digits, w, n) /\ sum[n] = Low(x, n * w) - r.carry * 2 ^ (n * w)
  BY <1>1, BalancedSums
<1>8. sum[n] = x
  BY <1>2, <1>4, <1>6, <1>7
<1> QED BY <1>6, <1>7, <1>8

\* A recoding with the sign applied to every digit.
Signed(r, negative) == [r EXCEPT !.digits = [i \in DOMAIN r.digits |-> IF negative THEN -r.digits[i] ELSE r.digits[i]]]

\* raw holds the digits of x, with room for its carry.
Extracted(raw, x, w, n) ==
  /\ w \in Nat /\ w >= 2 /\ n \in Nat /\ x \in Nat
  /\ RawDigits(raw, w, n) /\ DigitsOf(raw, x, w, n) /\ 3 * x <= 2 ^ (n * w)

\* A recoding of x: no carry left, and every digit in a table of 2^(w-1) multiples.
Recodes(r, x, w) ==
  /\ r.carry = 0 /\ Value(r.digits, w) = x
  /\ \A i \in DOMAIN r.digits : r.digits[i] \in (-(2 ^ (w - 1))) .. (2 ^ (w - 1))

\* The sign a recoder applies to every digit is that of the scalar.
LEMMA SignedExact ==
  ASSUME NEW w, NEW n, NEW raw, NEW x, Extracted(raw, x, w, n), NEW negative \in BOOLEAN
  PROVE  /\ Recodes(Signed(Balanced(raw, w, n), negative), IF negative THEN -x ELSE x, w)
         /\ negative = FALSE => Signed(Balanced(raw, w, n), negative) = Balanced(raw, w, n)
<1>0. /\ w \in Nat /\ w >= 2 /\ n \in Nat /\ x \in Nat
      /\ RawDigits(raw, w, n) /\ DigitsOf(raw, x, w, n) /\ 3 * x <= 2 ^ (n * w)
  BY DEF Extracted
<1>r. PICK r, s : r = Balanced(raw, w, n) /\ s = Signed(r, negative)
  OBVIOUS
<1>1. w \in Nat \ {0}
  BY <1>0
<1>2. /\ r = [digits |-> [i \in 0 .. (n - 1) |-> r.digits[i]], carry |-> r.carry]
      /\ DOMAIN r.digits = 0 .. (n - 1)
      /\ \A i \in 0 .. (n - 1) :
           r.digits[i] \in Int /\ -(2 ^ (w - 1)) <= r.digits[i] /\ r.digits[i] < 2 ^ (w - 1)
  BY SMTT(30), <1>0, <1>1, <1>r, BalancedDigits
<1>3. /\ s.carry = r.carry /\ DOMAIN s.digits = 0 .. (n - 1)
      /\ \A i \in 0 .. (n - 1) : s.digits[i] = IF negative THEN -r.digits[i] ELSE r.digits[i]
      /\ s = [digits |-> [i \in 0 .. (n - 1) |-> s.digits[i]], carry |-> s.carry]
  BY <1>2, <1>r DEF Signed
<1>4. r.carry = 0
  BY <1>0, <1>r, ExactDigits
<1>5. PICK sum : Sums(sum, r.digits, w, n) /\ sum[n] = x
  BY <1>0, <1>r, ExactDigits
<1>6. /\ (\A i \in 0 .. (n - 1) : s.digits[i] = r.digits[i]) => Value(s.digits, w) = sum[n]
      /\ (\A i \in 0 .. (n - 1) : r.digits[i] \in Int /\ s.digits[i] = -r.digits[i]) => Value(s.digits, w) = -sum[n]
  <2>1. PICK d, e : d = s.digits /\ e = r.digits
    OBVIOUS
  <2>2. Sums(sum, e, w, n) /\ DOMAIN d = 0 .. (n - 1)
    BY <1>3, <1>5, <2>1
  <2>3. /\ (\A i \in 0 .. (n - 1) : d[i] = e[i]) => Value(d, w) = sum[n]
        /\ (\A i \in 0 .. (n - 1) : e[i] \in Int /\ d[i] = -e[i]) => Value(d, w) = -sum[n]
    BY <1>0, <2>2, SumsValue
  <2> QED BY <2>1, <2>3
<1>7. Value(s.digits, w) = (IF negative THEN -x ELSE x)
  BY <1>2, <1>3, <1>5, <1>6
<1>8. ASSUME NEW i \in DOMAIN s.digits PROVE s.digits[i] \in (-(2 ^ (w - 1))) .. (2 ^ (w - 1))
  <2>1. i \in 0 .. (n - 1)
    BY <1>3
  <2>2. PICK h \in Nat : h = 2 ^ (w - 1)
    BY <1>1, Halves
  <2>3. PICK d \in Int : d = r.digits[i] /\ -h <= d /\ d < h
    BY <1>2, <2>1, <2>2
  <2>4. s.digits[i] = IF negative THEN -d ELSE d
    BY <1>3, <2>1, <2>3
  <2> QED BY <2>2, <2>3, <2>4
<1>9. negative = FALSE => s = r
  <2>1. negative = FALSE => \A i \in 0 .. (n - 1) : s.digits[i] = r.digits[i]
    BY <1>3
  <2> QED BY <2>1, <1>2, <1>3
<1>10. Recodes(s, IF negative THEN -x ELSE x, w)
  BY <1>3, <1>4, <1>7, <1>8 DEF Recodes
<1> QED BY <1>r, <1>9, <1>10

-----------------------------------------------------------------------------
\* The recoders.

\* A multiple is a quotient times the divisor.
LEMMA Divides ==
  ASSUME NEW x \in Nat, NEW p \in Nat \ {0}, x % p = 0
  PROVE  \E u \in Nat : u = x \div p /\ x = u * p
<1> DEFINE q == x \div p  v == x % p
<1>1. q \in Nat /\ x = q * p + v
  BY DivMod
<1>2. v = 0
  OBVIOUS
<1> HIDE DEF q, v
<1>3. PICK u \in Nat : u = q
  BY <1>1
<1>4. u * p \in Nat /\ x = u * p
  BY <1>1, <1>2, <1>3
<1> QED BY <1>3, <1>4 DEF q

\* What the assumption says of the sizes.
LEMMA SizesAre ==
  /\ ByteBits \in Nat \ {0} /\ 2 <= ByteBits /\ WordBits \in Nat \ {0} /\ StorageBits \in Nat \ {0}
  /\ StorageBits % WordBits = 0 /\ WordBits % ByteBits = 0 /\ StorageBits % ByteBits = 0 /\ ByteBits % 2 = 0
  /\ ScalarBits \in Nat \ {0} /\ ScalarBits + 1 <= StorageBits
  /\ Order \in Nat /\ Order < 2 ^ ScalarBits /\ 3 * Order <= 2 ^ (ScalarBits + 1)
<1>1. /\ ByteBits \in Nat \ {0} /\ WordBits \in Nat \ {0} /\ StorageBits \in Nat \ {0}
      /\ StorageBits % WordBits = 0 /\ WordBits % ByteBits = 0 /\ ByteBits % 2 = 0
      /\ ScalarBits \in Nat \ {0} /\ ScalarBits + 1 <= StorageBits
      /\ Order \in Nat /\ Order < 2 ^ ScalarBits /\ 3 * Order <= 2 ^ (ScalarBits + 1)
  BY RecodingAssumption DEF RecodeAssumption
<1>2. 2 <= ByteBits
  <2>1. ByteBits # 1
    <3>1. 1 % 2 = 1
      OBVIOUS
    <3> QED BY <1>1, <3>1
  <2> QED BY <1>1, <2>1
<1>3. StorageBits % ByteBits = 0
  <2>0. PICK u \in Nat : StorageBits = u * WordBits
    BY ZenonT(60), <1>1, Divides
  <2>1. PICK v \in Nat : WordBits = v * ByteBits
    BY <1>1, Divides
  <2>2. StorageBits = (u * v) * ByteBits + 0
    <3>1. u * (v * ByteBits) = (u * v) * ByteBits
      BY <1>1
    <3>2. StorageBits = u * (v * ByteBits)
      BY <2>0, <2>1
    <3>3. (u * v) * ByteBits \in Nat
      BY <1>1
    <3> QED BY <3>1, <3>2, <3>3
  <2>3. PICK k \in Nat : k = u * v
    OBVIOUS
  <2>4. StorageBits = k * ByteBits + 0 /\ 0 \in 0 .. ByteBits - 1
    BY <2>2, <2>3, <1>1
  <2> QED BY <2>4, <1>1, DivUnique
<1> QED BY <1>1, <1>2, <1>3

\* Room enough for a canonical scalar.
LEMMA Room ==
  ASSUME NEW x \in Nat, canonicalScalarBytes(x), NEW bits \in Nat, bits > ScalarBits
  PROVE  3 * x <= 2 ^ bits /\ x < 2 ^ ScalarBits
<1>1. ScalarBits + 1 \in Nat /\ ScalarBits + 1 <= bits /\ 2 ^ (ScalarBits + 1) \in Nat /\ 2 ^ bits \in Nat
  BY SizesAre, PowerStep
<1>2. 2 ^ (ScalarBits + 1) <= 2 ^ bits
  BY <1>1, PowerMono
<1>3. x < Order /\ Order \in Nat /\ Order < 2 ^ ScalarBits /\ 3 * Order <= 2 ^ (ScalarBits + 1) /\ 2 ^ ScalarBits \in Nat
  BY SizesAre, PowerStep DEF canonicalScalarBytes
<1> QED BY <1>1, <1>2, <1>3

\* Bits read one digit after another are raw digits.
LEMMA RawBits ==
  ASSUME NEW x \in Nat, NEW w \in Nat, NEW n \in Nat, NEW raw,
         \A i \in 0 .. (n - 1) : raw[i] = Bits(x, i * w, w)
  PROVE  RawDigits(raw, w, n) /\ DigitsOf(raw, x, w, n)
<1>1. ASSUME NEW i \in 0 .. (n - 1) PROVE raw[i] \in Nat /\ raw[i] < 2 ^ w
  <2>1. PICK bit \in Nat : bit = i * w
    OBVIOUS
  <2>2. Bits(x, bit, w) \in Nat /\ Bits(x, bit, w) < 2 ^ w
    BY BitsType
  <2> QED BY <2>1, <2>2
<1> QED BY <1>1 DEF RawDigits, DigitsOf

\* The radices of the fixed schedules.
LEMMA FixedWidth ==
  ASSUME NEW w \in DOMAIN RoundCount
  PROVE  w \in Nat \ {0} /\ w >= 2 /\ w <= ByteBits + 1 /\ RoundCount[w] \in Nat /\ RoundCount[w] * w > ScalarBits
         /\ RoundCount[w] * w \in Nat
<1>1. w \in Nat /\ w >= 2 /\ w <= ByteBits + 1 /\ RoundCount[w] \in Nat /\ RoundCount[w] * w > ScalarBits
  BY RecodingAssumption DEF RecodeAssumption
<1> QED BY <1>1

\* The raw digits of a fixed schedule.
FixedRaw(x, w) == [i \in 0 .. (RoundCount[w] - 1) |-> fixedScalarBits(x, i * w, w)]

\* They are the bits of the scalar.
LEMMA FixedRawBits ==
  ASSUME NEW x \in Nat, NEW w \in DOMAIN RoundCount
  PROVE  /\ \A i \in 0 .. (RoundCount[w] - 1) : i * w \in Nat /\ FixedRaw(x, w)[i] = Bits(x, i * w, w)
         /\ RawDigits(FixedRaw(x, w), w, RoundCount[w]) /\ DigitsOf(FixedRaw(x, w), x, w, RoundCount[w])
<1>1. w \in Nat /\ w <= ByteBits + 1 /\ RoundCount[w] \in Nat /\ ByteBits \in Nat \ {0}
  BY FixedWidth, SizesAre
<1>2. ASSUME NEW i \in 0 .. (RoundCount[w] - 1) PROVE i * w \in Nat /\ FixedRaw(x, w)[i] = Bits(x, i * w, w)
  <2>1. i * w \in Nat
    BY <1>1
  <2>2. fixedScalarBits(x, i * w, w) = Bits(x, i * w, w)
    BY <1>1, <2>1, ByteExtraction
  <2> QED BY <2>1, <2>2 DEF FixedRaw
<1>3. RawDigits(FixedRaw(x, w), w, RoundCount[w]) /\ DigitsOf(FixedRaw(x, w), x, w, RoundCount[w])
  <2>1. PICK n \in Nat : n = RoundCount[w]
    BY <1>1
  <2>2. PICK raw : raw = FixedRaw(x, w)
    OBVIOUS
  <2>3. RawDigits(raw, w, n) /\ DigitsOf(raw, x, w, n)
    BY <1>1, <1>2, <2>1, <2>2, RawBits
  <2> QED BY <2>1, <2>2, <2>3
<1> QED BY <1>2, <1>3

\* With room for any canonical scalar.
LEMMA FixedExtracted ==
  ASSUME NEW x \in Nat, canonicalScalarBytes(x), NEW w \in DOMAIN RoundCount
  PROVE  Extracted(FixedRaw(x, w), x, w, RoundCount[w])
<1>1. PICK n \in Nat : n = RoundCount[w]
  BY FixedWidth
<1>2. /\ w \in Nat /\ w >= 2 /\ n * w \in Nat /\ n * w > ScalarBits
      /\ RawDigits(FixedRaw(x, w), w, n) /\ DigitsOf(FixedRaw(x, w), x, w, n)
  BY <1>1, FixedWidth, FixedRawBits
<1>3. 3 * x <= 2 ^ (n * w)
  BY <1>2, Room
<1> QED BY <1>1, <1>2, <1>3 DEF Extracted

\* What the recoder returns.
LEMMA CanonicalIs ==
  ASSUME NEW x, NEW w, NEW negative
  PROVE  RecodeCanonicalScalar(x, w, negative) = Signed(Balanced(FixedRaw(x, w), w, RoundCount[w]), negative)
BY DEF RecodeCanonicalScalar, FixedRaw, Signed

\* The scalars of the fixed schedules, whichever sign.
LEMMA CanonicalExact ==
  ASSUME NEW x \in Nat, canonicalScalarBytes(x), NEW w \in DOMAIN RoundCount, NEW negative \in BOOLEAN
  PROVE  Recodes(RecodeCanonicalScalar(x, w, negative), IF negative THEN -x ELSE x, w)
<1>1. Extracted(FixedRaw(x, w), x, w, RoundCount[w])
  BY FixedExtracted
<1>2. Recodes(Signed(Balanced(FixedRaw(x, w), w, RoundCount[w]), negative), IF negative THEN -x ELSE x, w)
  BY <1>1, SignedExact, Zenon
<1> QED BY <1>2, CanonicalIs

\* The comb's other radices are the same recoding without a sign.
LEMMA FixedBaseSame ==
  ASSUME NEW x \in Nat, canonicalScalarBytes(x), NEW w \in DOMAIN RoundCount
  PROVE  RecodeFixedBase(x, w) = RecodeCanonicalScalar(x, w, FALSE)
<1>1. Extracted(FixedRaw(x, w), x, w, RoundCount[w]) /\ FALSE \in BOOLEAN
  BY FixedExtracted
<1>2. Signed(Balanced(FixedRaw(x, w), w, RoundCount[w]), FALSE) = Balanced(FixedRaw(x, w), w, RoundCount[w])
  BY <1>1, SignedExact, Zenon
<1>3. RecodeFixedBase(x, w) = Balanced(FixedRaw(x, w), w, RoundCount[w])
  BY DEF RecodeFixedBase, FixedRaw
<1> QED BY <1>2, <1>3, CanonicalIs

\* Its own extraction reads the same digits.
LEMMA NegatedFullSame ==
  ASSUME NEW x \in Nat, canonicalScalarBytes(x), NEW w \in DOMAIN RoundCount
  PROVE  RecodeNegatedFull(x, w) = RecodeCanonicalScalar(x, w, TRUE)
<1> DEFINE last == StorageBits \div ByteBits - 1
           digit(i) == LET byte == (i * w) \div ByteBits
                           word == Low(Shr(x, byte * ByteBits), IF byte < last THEN 2 * ByteBits ELSE ByteBits)
                       IN Low(Shr(word, (i * w) % ByteBits), w)
           own == [i \in 0 .. (RoundCount[w] - 1) |-> digit(i)]
<1>1. ASSUME NEW i \in 0 .. (RoundCount[w] - 1) PROVE digit(i) = FixedRaw(x, w)[i]
  <2>1. i * w \in Nat /\ FixedRaw(x, w)[i] = Bits(x, i * w, w)
    BY FixedRawBits
  <2>2. x < 2 ^ StorageBits
    <3>1. x < 2 ^ ScalarBits /\ 2 ^ ScalarBits <= 2 ^ StorageBits /\ 2 ^ ScalarBits \in Nat /\ 2 ^ StorageBits \in Nat
      <4>1. ScalarBits + 1 \in Nat /\ ScalarBits + 1 > ScalarBits /\ ScalarBits \in Nat /\ StorageBits \in Nat /\ ScalarBits <= StorageBits
        BY SizesAre
      <4> QED BY <4>1, Room, PowerMono, PowerStep
    <3> QED BY <3>1
  <2>3. PICK bit \in Nat : bit = i * w
    BY <2>1
  <2>4. w \in Nat /\ w <= ByteBits + 1
    BY FixedWidth
  <2>5. LET byte == bit \div ByteBits
            word == Low(Shr(x, byte * ByteBits), IF byte < StorageBits \div ByteBits - 1 THEN 2 * ByteBits ELSE ByteBits)
        IN Low(Shr(word, bit % ByteBits), w) = Bits(x, bit, w)
    BY <2>2, <2>4, SizesAre, LastByte
  <2> QED BY <2>1, <2>3, <2>5
<1>2. own = FixedRaw(x, w)
  <2> HIDE DEF digit
  <2>1. FixedRaw(x, w) = [i \in 0 .. (RoundCount[w] - 1) |-> FixedRaw(x, w)[i]]
    BY DEF FixedRaw
  <2> QED BY <1>1, <2>1
<1> DEFINE Opposite(b) == [b EXCEPT !.digits = [i \in DOMAIN b.digits |-> -b.digits[i]]]
<1>3. RecodeNegatedFull(x, w) = Opposite(Balanced(own, w, RoundCount[w]))
  BY DEF RecodeNegatedFull
<1>4. RecodeCanonicalScalar(x, w, TRUE) = Opposite(Balanced(FixedRaw(x, w), w, RoundCount[w]))
  BY DEF RecodeCanonicalScalar, FixedRaw
<1> HIDE DEF own, Opposite
<1> QED BY <1>2, <1>3, <1>4

\* A byte is a digit of the comb.
LEMMA BytesExact ==
  ASSUME NEW x \in Nat, canonicalScalarBytes(x), NEW r, r = RecodeFixedBaseBytes(x)
  PROVE  r.carry = 0 /\ Value(r.digits, ByteBits) = x
<1>1. PICK n \in Nat : n = StorageBits \div ByteBits /\ n * ByteBits = StorageBits
  <2>1. PICK u \in Nat, v \in 0 .. ByteBits - 1 : u = StorageBits \div ByteBits /\ v = StorageBits % ByteBits
               /\ StorageBits = u * ByteBits + v
    BY SizesAre, DivMod
  <2> QED BY <2>1, SizesAre
<1>2. PICK raw : raw = [i \in 0 .. (n - 1) |-> Low(Shr(x, i * ByteBits), ByteBits)]
  OBVIOUS
<1>3. r = Balanced(raw, ByteBits, n)
  BY <1>1, <1>2 DEF RecodeFixedBaseBytes
<1>4. ByteBits \in Nat /\ ByteBits \in Nat \ {0} /\ ByteBits >= 2 /\ StorageBits \in Nat /\ StorageBits > ScalarBits
  BY SizesAre
<1>5. \A i \in 0 .. (n - 1) : raw[i] = Bits(x, i * ByteBits, ByteBits)
  BY <1>2 DEF Bits
<1>6. RawDigits(raw, ByteBits, n) /\ DigitsOf(raw, x, ByteBits, n)
  BY <1>4, <1>5, RawBits
<1>7. 3 * x <= 2 ^ (n * ByteBits)
  BY <1>1, <1>4, Room
<1>8. r.carry = 0 /\ \E sum : Sums(sum, r.digits, ByteBits, n) /\ sum[n] = x
  BY <1>3, <1>4, <1>6, <1>7, ExactDigits
<1>9. DOMAIN r.digits = 0 .. (n - 1)
  BY <1>3, <1>4, <1>6, BalancedDigits
<1>10. PICK sum, d : Sums(sum, d, ByteBits, n) /\ sum[n] = x /\ d = r.digits
  BY <1>8
<1>11. Value(d, ByteBits) = sum[n]
  <2>1. PICK w \in Nat : w = ByteBits
    BY <1>4
  <2>2. Sums(sum, d, w, n) /\ DOMAIN d = 0 .. (n - 1)
    BY <1>9, <1>10, <2>1
  <2>3. Value(d, w) = sum[n]
    BY <2>2, SumsOwn
  <2> QED BY <2>1, <2>3
<1> QED BY <1>8, <1>10, <1>11

\* The asymmetric schedule, read by words.
LEMMA AsymmetricExact ==
  ASSUME NEW x \in Nat, canonicalScalarBytes(x), NEW w \in AsymmetricWidths
  PROVE  Recodes(RecodeAsymmetric(x, w, TRUE), -x, w)
<1>1. w \in Nat \ {0} /\ w >= 2 /\ w <= WordBits /\ asymmetricFixedBRoundCount(w) * w > ScalarBits
  BY RecodingAssumption, SizesAre
<1>2. PICK n \in Nat : n = asymmetricFixedBRoundCount(w)
  <2>1. ScalarBits + w - 1 \in Nat
    BY <1>1, SizesAre
  <2>2. (ScalarBits + w - 1) \div w \in Nat
    BY <1>1, <2>1, Position
  <2> QED BY <2>2 DEF asymmetricFixedBRoundCount
<1>3. PICK raw : raw = [i \in 0 .. (n - 1) |-> asymmetricFixedBScalarWordBits(x, i * w, w)]
  OBVIOUS
<1>5. RecodeAsymmetric(x, w, TRUE) = Signed(Balanced(raw, w, n), TRUE)
  BY <1>2, <1>3 DEF RecodeAsymmetric, Signed
<1>6. \A i \in 0 .. (n - 1) : raw[i] = Bits(x, i * w, w)
  <2>1. ASSUME NEW i \in 0 .. (n - 1) PROVE raw[i] = Bits(x, i * w, w)
    <3>1. i * w \in Nat
      BY <1>1
    <3>2. asymmetricFixedBScalarWordBits(x, i * w, w) = Bits(x, i * w, w)
      BY <1>1, <3>1, SizesAre, AsymmetricExtraction
    <3> QED BY <3>2, <1>3
  <2> QED BY <2>1
<1>7. RawDigits(raw, w, n) /\ DigitsOf(raw, x, w, n) /\ w \in Nat
  BY <1>1, <1>6, RawBits
<1>8. 3 * x <= 2 ^ (n * w)
  <2>1. n * w \in Nat /\ n * w > ScalarBits
    BY <1>1, <1>2
  <2> QED BY <2>1, Room
<1>9. Extracted(raw, x, w, n) /\ TRUE \in BOOLEAN
  BY <1>1, <1>7, <1>8 DEF Extracted
<1>10. Recodes(Signed(Balanced(raw, w, n), TRUE), -x, w)
  <2>1. Recodes(Signed(Balanced(raw, w, n), TRUE), IF TRUE THEN -x ELSE x, w)
    BY <1>9, SignedExact, Zenon
  <2> QED BY <2>1
<1> QED BY <1>5, <1>10

\* Half bytes, the top one with its carry: exact for every scalar without the
\* high bit.
LEMMA Radix16IsExact ==
  ASSUME NEW x \in Nat, x < 2 ^ (StorageBits - 1)
  PROVE  Radix16Exact(x)
<1>1. PICK w \in Nat \ {0} : w = ByteBits \div 2 /\ StorageBits % w = 0
  <2>1. PICK w \in Nat : w = ByteBits \div 2 /\ ByteBits = w * 2
    BY SizesAre, Divides
  <2>2. w # 0
    BY <2>1, SizesAre
  <2>3. PICK u \in Nat : StorageBits = u * ByteBits
    BY SizesAre, Divides
  <2>4. PICK k \in Nat : k = u * 2
    OBVIOUS
  <2>5. StorageBits = k * w + 0 /\ 0 \in 0 .. w - 1 /\ StorageBits \in Nat
    <3>1. u * (w * 2) = (u * 2) * w
      OBVIOUS
    <3>2. k * w \in Nat /\ StorageBits = k * w
      BY <3>1, <2>1, <2>3, <2>4
    <3> QED BY <3>2, <2>2
  <2> QED BY <2>1, <2>2, <2>5, DivUnique
<1>2. PICK n \in Nat : n = StorageBits \div w /\ StorageBits = n * w
  BY <1>1, SizesAre, Divides
<1>3. PICK m \in Nat : n = m + 1 /\ m = n - 1 /\ StorageBits = m * w + w
  <2>1. n # 0
    BY <1>2, SizesAre
  <2>2. (n - 1) * w + w = n * w /\ n - 1 \in Nat
    BY <2>1
  <2> QED BY <2>2, <1>2
<1>4. PICK raw : raw = [i \in 0 .. (n - 1) |-> Low(Shr(x, i * w), w)]
  OBVIOUS
<1>5. RawDigits(raw, w, m) /\ DigitsOf(raw, x, w, m)
  <2>1. \A i \in 0 .. (m - 1) : raw[i] = Bits(x, i * w, w)
    BY <1>3, <1>4 DEF Bits
  <2> QED BY <2>1, RawBits
<1>6. PICK r : r = Balanced(raw, w, m)
  OBVIOUS
<1>7. /\ DOMAIN r.digits = 0 .. (m - 1) /\ r.carry \in {0, 1}
      /\ \A i \in 0 .. (m - 1) :
           r.digits[i] \in Int /\ -(2 ^ (w - 1)) <= r.digits[i] /\ r.digits[i] < 2 ^ (w - 1)
  BY SMTT(30), <1>5, <1>6, BalancedDigits
<1>8. PICK sum, digits : digits = r.digits /\ Sums(sum, digits, w, m) /\ sum[m] = Low(x, m * w) - r.carry * 2 ^ (m * w)
  BY <1>5, <1>6, BalancedSums
<1>9. PICK d : d = signedRadix16(x) /\ d = [i \in 0 .. (n - 1) |-> IF i = n - 1 THEN raw[n - 1] + r.carry ELSE r.digits[i]]
  <2>1. signedRadix16(x) = [i \in 0 .. (n - 1) |-> IF i = n - 1 THEN raw[i] + r.carry ELSE r.digits[i]]
    BY <1>1, <1>2, <1>3, <1>4, <1>6 DEF signedRadix16
  <2> QED BY <2>1
<1>10. PICK b \in Nat, p \in Nat, c \in {0, 1}, l \in Nat, top \in Nat :
            /\ b = raw[m] /\ p = 2 ^ (m * w) /\ c = r.carry /\ l = Low(x, m * w) /\ top = b + c
            /\ b = Low(Shr(x, m * w), w) /\ m * w \in Nat
  <2>1. m * w \in Nat
    OBVIOUS
  <2>2. raw[m] = Low(Shr(x, m * w), w)
    BY <1>3, <1>4
  <2>3. Low(Shr(x, m * w), w) \in Nat /\ 2 ^ (m * w) \in Nat /\ Low(x, m * w) \in Nat
    BY <2>1, LowHigh, PowerStep
  <2> QED BY <1>7, <2>1, <2>2, <2>3
<1>11. d[m] = top /\ \A i \in 0 .. (m - 1) : d[i] = digits[i]
  BY <1>3, <1>8, <1>9, <1>10
<1>12. PICK more : Sums(more, d, w, m + 1) /\ more[m + 1] = sum[m] + top * 2 ^ (w * m)
  <2>1. w \in Nat
    OBVIOUS
  <2>2. PICK g \in Int : g = top
    OBVIOUS
  <2>3. Sums(sum, digits, w, m) /\ d[m] = g /\ \A i \in 0 .. (m - 1) : d[i] = digits[i]
    BY <1>8, <1>11, <2>2
  <2>4. \E more : Sums(more, d, w, m + 1) /\ more[m + 1] = sum[m] + g * 2 ^ (w * m)
    BY <2>1, <2>3, SumsMore
  <2> QED BY <2>2, <2>4
<1>13. Value(d, w) = x
  <2>1. Value(d, w) = more[m + 1]
    <3>1. DOMAIN d = 0 .. ((m + 1) - 1)
      BY <1>3, <1>9
    <3>2. PICK k \in Nat : k = m + 1
      OBVIOUS
    <3>3. Sums(more, d, w, k) /\ DOMAIN d = 0 .. (k - 1) /\ w \in Nat
      BY <1>12, <3>1, <3>2
    <3>4. Value(d, w) = more[k]
      BY <3>3, SumsOwn
    <3> QED BY <3>2, <3>4
  <2>2. w * m = m * w
    OBVIOUS
  <2>3. more[m + 1] = (l - c * p) + (b + c) * p
    BY <1>8, <1>10, <1>12, <2>2
  <2>4. Low(x, m * w + w) = l + b * p
    <3>1. Low(x, m * w + w) = Low(x, m * w) + Low(Shr(x, m * w), w) * 2 ^ (m * w)
      BY <1>10, LowMore
    <3> QED BY <3>1, <1>10
  <2>5. Low(x, StorageBits) = x
    <3>1. 2 ^ (StorageBits - 1) <= 2 ^ StorageBits /\ 2 ^ (StorageBits - 1) \in Nat /\ 2 ^ StorageBits \in Nat
      <4>1. StorageBits - 1 \in Nat /\ StorageBits \in Nat /\ StorageBits - 1 <= StorageBits
        BY SizesAre
      <4> QED BY <4>1, PowerMono, PowerStep
    <3>2. x < 2 ^ StorageBits /\ StorageBits \in Nat
      BY <3>1, SizesAre
    <3> QED BY <3>2, Small
  <2>6. (l - c * p) + (b + c) * p = l + b * p
    <3>1. (b + c) * p = b * p + c * p /\ b * p \in Nat /\ c * p \in Nat
      OBVIOUS
    <3> QED BY <3>1
  <2> QED BY <1>3, <2>1, <2>3, <2>4, <2>5, <2>6
<1>14. ASSUME NEW i \in DOMAIN d PROVE d[i] \in (-(2 ^ (w - 1))) .. (2 ^ (w - 1))
  <2>1. PICK h \in Nat : h = 2 ^ (w - 1)
    BY Halves
  <2>2. CASE i = m
    <3>1. Shr(x, m * w) < h /\ Shr(x, m * w) \in Nat
      <4>1. StorageBits - 1 = m * w + (w - 1) /\ w - 1 \in Nat
        BY <1>3, <1>10
      <4>2. PICK k \in Nat, a \in Nat : k = w - 1 /\ a = m * w
        BY <4>1, <1>10
      <4>3. x < 2 ^ (a + k)
        BY <4>1, <4>2
      <4>4. Shr(x, a) < 2 ^ k
        BY <4>3, ShrSmall
      <4> QED BY <4>2, <4>4, <2>1, LowHigh
    <3>2. Low(Shr(x, m * w), w) = Shr(x, m * w)
      <4>1. PICK s \in Nat : s = Shr(x, m * w)
        BY <3>1
      <4>2. PICK H \in Nat \ {0} : H = 2 ^ (w - 1) /\ 2 ^ w = 2 * H
        BY Halves
      <4>3. s < 2 ^ w
        BY <2>1, <3>1, <4>1, <4>2
      <4> QED BY <4>1, <4>3, Small
    <3>3. top <= h
      BY <1>10, <3>1, <3>2
    <3> QED BY <1>11, <2>1, <2>2, <3>3
  <2>3. CASE i # m
    <3>1. i \in 0 .. (m - 1)
      BY <1>3, <1>9, <2>3
    <3>2. PICK g \in Int : g = r.digits[i] /\ -h <= g /\ g < h
      BY <1>7, <2>1, <3>1
    <3>3. d[i] = g
      BY <1>8, <1>11, <3>1, <3>2
    <3> QED BY <2>1, <3>2, <3>3
  <2> QED BY <2>2, <2>3
<1> QED BY <1>1, <1>9, <1>13, <1>14 DEF Radix16Exact

\* The bit length bounds the number.
LEMMA BitLenBounds ==
  ASSUME NEW x \in Nat
  PROVE  BitLen(x) \in Nat /\ x < 2 ^ BitLen(x)
<1> DEFINE S == {n \in Nat : x < 2 ^ n}
<1>1. x \in S
  <2> DEFINE T == {n \in Nat : n < 2 ^ n}
  <2>1. 0 \in T
    <3>1. 2 ^ 0 = 1
      OBVIOUS
    <3> QED BY <3>1
  <2>2. ASSUME NEW n \in Nat, n \in T PROVE n + 1 \in T
    <3>1. PICK p \in Nat \ {0} : p = 2 ^ n /\ 2 ^ (n + 1) = 2 * p
      BY PowerStep
    <3> QED BY <2>2, <3>1
  <2>3. \A n \in Nat : n \in T
    <3> HIDE DEF T
    <3> QED BY <2>1, <2>2, SetInduction
  <2> QED BY <2>3
<1>2. S \in SUBSET Nat /\ S # {}
  BY <1>1
<1>3. PICK n \in S : \A m \in S : n <= m
  <2> HIDE DEF S
  <2> QED BY <1>2, LeastNat
<1>4. n \in 0 .. x /\ x < 2 ^ n
  BY <1>1, <1>3
<1>5. n > 0 => x >= 2 ^ (n - 1)
  <2>1. SUFFICES ASSUME n > 0, ~(x >= 2 ^ (n - 1)) PROVE FALSE
    OBVIOUS
  <2>2. n - 1 \in Nat /\ 2 ^ (n - 1) \in Nat
    BY <1>4, <2>1, PowerStep
  <2>3. n - 1 \in S
    BY <2>1, <2>2
  <2>4. n <= n - 1
    BY <1>3, <2>3
  <2> QED BY <1>4, <2>4
<1>6. \E k \in 0 .. x : x < 2 ^ k /\ (k > 0 => x >= 2 ^ (k - 1))
  BY <1>4, <1>5
<1>7. BitLen(x) \in 0 .. x /\ x < 2 ^ BitLen(x)
  BY <1>6 DEF BitLen
<1> QED BY <1>7

\* Digits enough for that many bits.
LEMMA DigitsEnough ==
  ASSUME NEW bits \in Nat, NEW w \in Nat \ {0}
  PROVE  \E n \in Nat : /\ n = Max({1, (bits + w - 1) \div w}) /\ n * w \in Nat /\ bits <= n * w
<1>1. PICK q \in Nat, v \in 0 .. w - 1 : q = (bits + w - 1) \div w /\ bits + w - 1 = q * w + v
  <2>1. PICK z \in Nat : z = bits + w - 1
    OBVIOUS
  <2>2. z \div w \in Nat /\ z % w \in 0 .. w - 1 /\ z = (z \div w) * w + (z % w)
    BY DivMod
  <2> QED BY <2>1, <2>2
<1>2. PICK n \in Nat : n = Max({1, q}) /\ n >= q
  <2>1. \E t \in {1, q} : \A y \in {1, q} : t >= y
    <3>1. CASE q >= 1
      BY <3>1
    <3>2. CASE ~(q >= 1)
      BY <3>2
    <3> QED BY <3>1, <3>2
  <2>2. Max({1, q}) \in {1, q} /\ \A y \in {1, q} : Max({1, q}) >= y
    BY <2>1 DEF Max
  <2> QED BY <2>2
<1>3. q * w <= n * w /\ q * w \in Nat /\ n * w \in Nat
  BY <1>2, MulMono
<1>4. bits <= n * w
  BY <1>1, <1>3
<1> QED BY <1>1, <1>2, <1>3, <1>4

\* As many digits as the magnitude has, one more for a carry, and its sign.
LEMMA RegularDigits ==
  ASSUME NEW x \in Nat, NEW w \in DOMAIN RoundCount, NEW y \in Int, x = IF y < 0 THEN -y ELSE y,
         NEW d, d = RecodeRegularRadix(y, w)
  PROVE  Value(d, w) = y /\ \A i \in DOMAIN d : d[i] \in (-(2 ^ (w - 1))) .. (2 ^ (w - 1))
<1>1. w \in Nat /\ w \in Nat \ {0} /\ w >= 2 /\ w <= ByteBits + 1 /\ ByteBits \in Nat \ {0}
  BY FixedWidth, SizesAre
<1>2. PICK bits \in Nat : bits = BitLen(x) /\ x < 2 ^ bits
  BY BitLenBounds
<1>3. PICK n \in Nat : n = Max({1, (bits + w - 1) \div w}) /\ n * w \in Nat /\ bits <= n * w
  BY <1>1, DigitsEnough
<1>4. Low(x, n * w) = x
  <2>1. 2 ^ bits <= 2 ^ (n * w) /\ 2 ^ bits \in Nat /\ 2 ^ (n * w) \in Nat
    BY <1>3, PowerMono, PowerStep
  <2>2. x < 2 ^ (n * w)
    BY <1>2, <2>1
  <2> QED BY <1>3, <2>2, Small
<1>5. PICK raw : raw = [i \in 0 .. (n - 1) |-> fixedScalarBits(x, i * w, w)]
  OBVIOUS
<1>6. RawDigits(raw, w, n) /\ DigitsOf(raw, x, w, n)
  <2>1. ASSUME NEW i \in 0 .. (n - 1) PROVE raw[i] = Bits(x, i * w, w)
    <3>1. i * w \in Nat
      BY <1>1
    <3>2. fixedScalarBits(x, i * w, w) = Bits(x, i * w, w)
      BY <1>1, <3>1, ByteExtraction
    <3> QED BY <1>5, <3>2
  <2> QED BY <1>1, <2>1, RawBits
<1>7. PICK r, c : r = Balanced(raw, w, n) /\ c = r.carry
  OBVIOUS
<1>8. /\ DOMAIN r.digits = 0 .. (n - 1) /\ c \in {0, 1}
      /\ \A i \in 0 .. (n - 1) :
           r.digits[i] \in Int /\ -(2 ^ (w - 1)) <= r.digits[i] /\ r.digits[i] < 2 ^ (w - 1)
  BY SMTT(30), <1>1, <1>6, <1>7, BalancedDigits
<1>9. PICK sum, digits : digits = r.digits /\ Sums(sum, digits, w, n) /\ sum[n] = x - c * 2 ^ (n * w)
  <2>1. \E sum : Sums(sum, r.digits, w, n) /\ sum[n] = Low(x, n * w) - r.carry * 2 ^ (n * w)
    BY <1>1, <1>6, <1>7, BalancedSums
  <2> QED BY <2>1, <1>4, <1>7
<1>k. PICK k \in Nat : k = IF c = 0 THEN n ELSE n + 1
  BY <1>8
<1>10. PICK all :
          /\ k = IF c = 0 THEN n ELSE n + 1
          /\ all = [i \in 0 .. (k - 1) |-> IF i = n THEN c ELSE digits[i]]
          /\ d = [i \in 0 .. (k - 1) |-> IF y < 0 THEN -all[i] ELSE all[i]]
  <2> DEFINE A == [i \in 0 .. (IF c = 0 THEN n - 1 ELSE n) |-> IF i = n THEN c ELSE digits[i]]
  <2>1. d = [i \in DOMAIN A |-> IF y < 0 THEN -A[i] ELSE A[i]]
    BY <1>2, <1>3, <1>5, <1>7, <1>9 DEF RecodeRegularRadix
  <2>3. (IF c = 0 THEN n - 1 ELSE n) = k - 1
    BY <1>8, <1>k
  <2>4. A = [i \in 0 .. (k - 1) |-> IF i = n THEN c ELSE digits[i]]
    BY <2>3
  <2>5. DOMAIN A = 0 .. (k - 1)
    BY <2>4
  <2> HIDE DEF A
  <2> QED BY SMTT(30), <2>1, <1>k, <2>4, <2>5
<1>11. PICK full : Sums(full, all, w, k) /\ full[k] = x
  <2>1. \A i \in 0 .. (n - 1) : all[i] = digits[i]
    BY <1>8, <1>10
  <2>2. CASE c = 0
    <3>1. k = n /\ sum[n] = x
      <4>1. 2 ^ (n * w) \in Nat
        BY <1>3, PowerStep
      <4> QED BY <4>1, <2>2, <1>9, <1>10
    <3>2. Sums(sum, all, w, n)
      BY <1>9, <2>1 DEF Sums
    <3> QED BY <3>1, <3>2
  <2>3. CASE c = 1
    <3>1. k = n + 1 /\ all[n] = 1 /\ 1 \in Int
      BY <2>3, <1>10
    <3>t. PICK top \in Int : top = 1 /\ all[n] = top
      BY <3>1
    <3>2. PICK full : Sums(full, all, w, n + 1) /\ full[n + 1] = sum[n] + top * 2 ^ (w * n)
      <4>1. w \in Nat
        BY <1>1
      <4>2. Sums(sum, digits, w, n) /\ all[n] = top /\ \A i \in 0 .. (n - 1) : all[i] = digits[i]
        BY <1>9, <2>1, <3>t
      <4> QED BY <4>1, <4>2, SumsMore
    <3>3. w * n = n * w /\ 2 ^ (n * w) \in Nat
      BY <1>1, <1>3, PowerStep
    <3>4. full[n + 1] = x
      BY <1>9, <2>3, <3>2, <3>3, <3>t
    <3> QED BY <3>1, <3>2, <3>4
  <2> QED BY <1>8, <2>2, <2>3
<1>12. \A i \in 0 .. (k - 1) : all[i] \in Int /\ -(2 ^ (w - 1)) <= all[i] /\ all[i] <= 2 ^ (w - 1)
  <2>1. ASSUME NEW i \in 0 .. (k - 1) PROVE all[i] \in Int /\ -(2 ^ (w - 1)) <= all[i] /\ all[i] <= 2 ^ (w - 1)
    <3>1. PICK h \in Nat \ {0} : h = 2 ^ (w - 1)
      BY <1>1, Halves
    <3>2. CASE i = n
      BY <1>8, <1>10, <3>1, <3>2
    <3>3. CASE i # n
      <4>1. i \in 0 .. (n - 1) /\ all[i] = digits[i]
        BY <1>10, <3>3
      <4>2. PICK g \in Int : g = digits[i] /\ -h <= g /\ g < h
        BY <4>1, <1>8, <1>9, <3>1
      <4> QED BY <3>1, <4>1, <4>2
    <3> QED BY <3>2, <3>3
  <2> QED BY <2>1
<1>13. Value(d, w) = y
  <2>1. DOMAIN d = 0 .. (k - 1)
    BY <1>10
  <2>2. /\ (\A i \in 0 .. (k - 1) : d[i] = all[i]) => Value(d, w) = full[k]
        /\ (\A i \in 0 .. (k - 1) : all[i] \in Int /\ d[i] = -all[i]) => Value(d, w) = -full[k]
    BY SMTT(30), <1>1, <1>11, <2>1, SumsValue
  <2>3. CASE y < 0
    <3>1. Value(d, w) = -x
      BY <1>10, <1>11, <1>12, <2>2, <2>3
    <3> QED BY <3>1, <2>3
  <2>4. CASE ~(y < 0)
    <3>1. Value(d, w) = x
      BY <1>10, <1>11, <1>12, <2>2, <2>4
    <3> QED BY <3>1, <2>4
  <2> QED BY <2>3, <2>4
<1>14. ASSUME NEW i \in DOMAIN d PROVE d[i] \in (-(2 ^ (w - 1))) .. (2 ^ (w - 1))
  <2>1. PICK h \in Nat \ {0} : h = 2 ^ (w - 1)
    BY <1>1, Halves
  <2>2. i \in 0 .. (k - 1)
    BY <1>10
  <2>3. PICK g \in Int : g = all[i] /\ -h <= g /\ g <= h
    BY <1>12, <2>1, <2>2
  <2>4. d[i] = IF y < 0 THEN -g ELSE g
    BY <1>10, <2>2, <2>3
  <2> QED BY <2>1, <2>3, <2>4
<1> QED BY <1>13, <1>14

\* Both signs of a magnitude.
LEMMA RegularIsExact ==
  ASSUME NEW x \in Nat
  PROVE  RegularExact(x)
<1>1. ASSUME NEW w \in DOMAIN RoundCount, NEW y \in {x, -x}
      PROVE  LET d == RecodeRegularRadix(y, w)
             IN Value(d, w) = y /\ \A i \in DOMAIN d : d[i] \in (-(2 ^ (w - 1))) .. (2 ^ (w - 1))
  <2>1. y \in Int /\ x = IF y < 0 THEN -y ELSE y
    OBVIOUS
  <2>2. PICK d : d = RecodeRegularRadix(y, w)
    OBVIOUS
  <2>3. Value(d, w) = y /\ \A i \in DOMAIN d : d[i] \in (-(2 ^ (w - 1))) .. (2 ^ (w - 1))
    BY <2>1, <2>2, RegularDigits
  <2> QED BY <2>2, <2>3
<1> QED BY <1>1 DEF RegularExact

-----------------------------------------------------------------------------
\* The non-adjacent form.

\* The state its loop starts in.
NafStart == [skip |-> 0, carry |-> 0, digit |-> 0]

\* One step from the state q, with the window b.
NafNext(q, b, w) ==
  LET window == q.carry + b
  IN IF q.skip > 0 THEN [skip |-> q.skip - 1, carry |-> q.carry, digit |-> 0]
     ELSE IF window % 2 = 0 THEN [skip |-> 0, carry |-> q.carry, digit |-> 0]
     ELSE IF window < 2 ^ (w - 1)
          THEN [skip |-> w - 1, carry |-> 0, digit |-> window]
          ELSE [skip |-> w - 1, carry |-> 1, digit |-> window - 2 ^ w]

\* The state after each position.
NafStates(x, w) ==
  LET st[p \in 0 .. StorageBits] == IF p = 0 THEN NafStart ELSE NafNext(st[p - 1], NafWindow(x, p - 1, w), w)
  IN st

\* Positions still skipped, the carry, the digit written.
NafState == [skip : Nat, carry : {0, 1}, digit : Int]

\* A step leads from state to state.
LEMMA NafNextType ==
  ASSUME NEW w \in Nat \ {0}, NEW q \in NafState, NEW b \in Nat
  PROVE  NafNext(q, b, w) \in NafState
<1>1. PICK t \in Nat, h \in Nat, W \in Nat : t = q.carry + b /\ h = 2 ^ (w - 1) /\ W = 2 ^ w
  <2>1. q.carry + b \in Nat
    BY DEF NafState
  <2> QED BY <2>1, Halves
<1>2. PICK s \in Nat, c \in {0, 1} : s = q.skip /\ c = q.carry
  BY DEF NafState
<1>3. NafNext(q, b, w) = IF s > 0 THEN [skip |-> s - 1, carry |-> c, digit |-> 0]
                         ELSE IF t % 2 = 0 THEN [skip |-> 0, carry |-> c, digit |-> 0]
                         ELSE IF t < h THEN [skip |-> w - 1, carry |-> 0, digit |-> t]
                              ELSE [skip |-> w - 1, carry |-> 1, digit |-> t - W]
  BY <1>1, <1>2 DEF NafNext
<1> QED BY <1>3 DEF NafState

\* The loop is what the recursive function says.
LEMMA NafRecursion ==
  ASSUME NEW x \in Nat, NEW w \in Nat \ {0}, w <= WordBits
  PROVE  /\ NafStates(x, w) \in [0 .. StorageBits -> NafState] /\ NafStates(x, w)[0] = NafStart
         /\ \A p \in 0 .. (StorageBits - 1) :
              NafStates(x, w)[p + 1] = NafNext(NafStates(x, w)[p], Bits(x, p, w), w)
<1> DEFINE n == StorageBits
           step == [p \in (1 .. n) \X NafState |-> NafNext(p[2], NafWindow(x, p[1] - 1, w), w)]
           C == NafStates(x, w)
           Run(g) == [p \in 0 .. n |-> IF p = 0 THEN NafStart ELSE NafNext(g[p - 1], NafWindow(x, p - 1, w), w)]
<1>0. n \in Nat /\ WordBits \in Nat \ {0} /\ w \in Nat
  BY SizesAre
<1>1. ASSUME NEW p \in Nat PROVE NafWindow(x, p, w) = Bits(x, p, w) /\ Bits(x, p, w) \in Nat
  BY <1>0, NafExtraction, BitsType
<1>2. step \in [(1 .. n) \X NafState -> NafState]
  <2>1. ASSUME NEW p \in (1 .. n) \X NafState PROVE NafNext(p[2], NafWindow(x, p[1] - 1, w), w) \in NafState
    <3>1. p[1] - 1 \in Nat /\ p[2] \in NafState
      BY <1>0
    <3>2. PICK b \in Nat, q \in NafState : b = NafWindow(x, p[1] - 1, w) /\ q = p[2]
      BY <3>1, <1>1
    <3> QED BY <3>2, NafNextType
  <2> QED BY <2>1
<1>3. NafStart \in NafState
  BY DEF NafStart, NafState
<1>4. PICK f \in [0 .. n -> NafState] : Computed(f, n, NafStart, step)
  <2> HIDE DEF step, n
  <2> QED BY <1>0, <1>2, <1>3, Computable
<1>5. f = Run(f)
  <2>1. ASSUME NEW p \in 0 .. n, p # 0
        PROVE  step[<<p, f[p - 1]>>] = NafNext(f[p - 1], NafWindow(x, p - 1, w), w)
    <3>1. p \in 1 .. n /\ p - 1 \in 0 .. n
      BY <1>0, <2>1
    <3>2. <<p, f[p - 1]>> \in (1 .. n) \X NafState
      BY <3>1
    <3> QED BY <3>2
  <2> HIDE DEF step, n
  <2> QED BY <1>4, <2>1 DEF Computed
<1>6. C = CHOOSE g : g = Run(g)
  BY DEF NafStates
<1> HIDE DEF C, step
<1>7. C = Run(C)
  BY <1>5, <1>6
<1> DEFINE S == {p \in Nat : p <= n => C[p] \in NafState}
<1>8. C[0] = NafStart
  BY <1>0, <1>7
<1>9. ASSUME NEW p \in Nat, p < n, C[p] \in NafState
      PROVE  C[p + 1] = NafNext(C[p], Bits(x, p, w), w) /\ C[p + 1] \in NafState
  <2>1. p + 1 \in 0 .. n /\ p + 1 # 0 /\ (p + 1) - 1 = p
    BY <1>0, <1>9
  <2>2. C[p + 1] = NafNext(C[(p + 1) - 1], NafWindow(x, (p + 1) - 1, w), w)
    BY <1>7, <2>1
  <2>3. C[p + 1] = NafNext(C[p], Bits(x, p, w), w)
    BY <2>1, <2>2, <1>1
  <2> QED BY <2>3, <1>1, <1>9, NafNextType
<1>10. \A p \in Nat : p \in S
  <2>1. 0 \in S
    BY <1>3, <1>8
  <2>2. ASSUME NEW p \in Nat, p \in S PROVE p + 1 \in S
    <3> HIDE DEF n
    <3> QED BY <1>0, <1>9, <2>2
  <2> HIDE DEF S
  <2> QED BY <2>1, <2>2, SetInduction
<1>11. C \in [0 .. n -> NafState]
  <2>1. C = [p \in 0 .. n |-> C[p]]
    BY <1>7
  <2>2. \A p \in 0 .. n : C[p] \in NafState
    BY <1>0, <1>10
  <2> QED BY <2>1, <2>2
<1>12. \A p \in 0 .. (n - 1) : C[p + 1] = NafNext(C[p], Bits(x, p, w), w)
  <2>1. ASSUME NEW p \in 0 .. (n - 1) PROVE p \in Nat /\ p < n /\ C[p] \in NafState
    BY <1>0, <1>11
  <2> QED BY <2>1, <1>9
<1> QED BY <1>8, <1>11, <1>12 DEF C

\* The loop's digits are the form.
LEMMA NafDigits ==
  ASSUME NEW x, NEW w
  PROVE  nonAdjacentForm(x, w) = [i \in 0 .. (StorageBits - 1) |-> NafStates(x, w)[i + 1].digit]
BY DEF nonAdjacentForm, NafStates, NafStart, NafNext

\* Parity of a sum, bit by bit.
LEMMA Parity ==
  ASSUME NEW c \in {0, 1}, NEW b \in Nat, NEW t \in Nat, t = c + b
  PROVE  b % 2 \in {0, 1} /\ (t % 2 = 0 <=> b % 2 = c)
<1>1. PICK u \in Nat, v \in {0, 1} : b = u * 2 + v
  <2>1. PICK u \in Nat, v \in 0 .. 2 - 1 : b = u * 2 + v
    BY DivExists
  <2> QED BY <2>1
<1>2. b % 2 = v
  BY <1>1
<1> QED BY <1>1, <1>2

\* What the digits written so far stand for: the bits read, less the carry.
Written(x, q, p) == Low(x, p + q.skip) - q.carry * 2 ^ (p + q.skip)

\* A carry is only held when the top bit read is set.
CarryHeld(x, q, p) == q.carry = 1 => 2 ^ (p + q.skip) <= 2 * Low(x, p + q.skip)

\* The window as bits: its parity is that of the bit at the position.
LEMMA WindowParity ==
  ASSUME NEW x \in Nat, NEW p \in Nat, NEW w \in Nat \ {0}
  PROVE  Bits(x, p, 1) = Bits(x, p, w) % 2
<1>1. Low(Bits(x, p, w), 1) = Bits(x, p, 1)
  <2>1. 1 \in Nat /\ 1 <= w /\ w \in Nat
    OBVIOUS
  <2> QED BY <2>1, BitsOfBits
<1>2. 2 ^ 1 = 2
  OBVIOUS
<1> QED BY <1>1, <1>2 DEF Low

\* From the state q to r at position p.
NafGoes(x, w, q, r, p) ==
  /\ Written(x, r, p + 1) = Written(x, q, p) + r.digit * 2 ^ p
  /\ CarryHeld(x, r, p + 1)
  /\ q.skip > 0 => r.skip = q.skip - 1 /\ r.digit = 0
  /\ r.digit # 0 => r.skip = w - 1 /\ r.digit % 2 = 1 /\ r.digit < 2 ^ (w - 1) /\ -r.digit < 2 ^ (w - 1)

\* One position of the loop.
LEMMA NafStep ==
  ASSUME NEW x \in Nat, NEW w \in Nat \ {0}, w >= 2, NEW p \in Nat, NEW q \in NafState, CarryHeld(x, q, p),
         NEW r, r = NafNext(q, Bits(x, p, w), w)
  PROVE  NafGoes(x, w, q, r, p)
<1>1. PICK b \in Nat, c \in {0, 1}, s \in Nat, t \in Nat :
           b = Bits(x, p, w) /\ b < 2 ^ w /\ c = q.carry /\ s = q.skip /\ t = c + b
  <2>1. Bits(x, p, w) \in Nat /\ Bits(x, p, w) < 2 ^ w
    BY BitsType
  <2>2. q.carry \in {0, 1} /\ q.skip \in Nat
    BY DEF NafState
  <2> QED BY <2>1, <2>2
<1>2. PICK g \in Nat \ {0}, h \in Nat \ {0}, W \in Nat \ {0} : h = 2 ^ (w - 1) /\ W = 2 ^ w /\ W = 2 * h /\ h = 2 * g
  <2>1. PICK v \in Nat \ {0} : v = w - 1
    OBVIOUS
  <2>2. 2 ^ (v - 1) \in Nat \ {0} /\ 2 ^ v = 2 * 2 ^ (v - 1)
    BY Halves
  <2>3. 2 ^ (w - 1) \in Nat \ {0} /\ 2 ^ w = 2 * 2 ^ (w - 1) /\ 2 ^ w \in Nat \ {0}
    BY Halves
  <2> QED BY <2>1, <2>2, <2>3
<1>3. r = IF s > 0 THEN [skip |-> s - 1, carry |-> c, digit |-> 0]
          ELSE IF t % 2 = 0 THEN [skip |-> 0, carry |-> c, digit |-> 0]
          ELSE IF t < h THEN [skip |-> w - 1, carry |-> 0, digit |-> t]
               ELSE [skip |-> w - 1, carry |-> 1, digit |-> t - W]
  BY <1>1, <1>2 DEF NafNext
<1>4. PICK T \in Nat \ {0}, l \in Nat : T = 2 ^ p /\ l = Low(x, p)
  <2>1. 2 ^ p \in Nat \ {0} /\ Low(x, p) \in Nat
    BY PowerStep, LowHigh
  <2> QED BY <2>1
<1>5. CASE s > 0
  <2>1. r.skip = s - 1 /\ r.carry = c /\ r.digit = 0
    BY <1>3, <1>5
  <2>2. PICK z \in Nat : z = p + s /\ (p + 1) + r.skip = z
    BY <2>1, <1>5
  <2>3. PICK L \in Nat, Z \in Nat : L = Low(x, z) /\ Z = 2 ^ z
    BY LowHigh, PowerStep
  <2>4. Written(x, q, p) = L - c * Z /\ Written(x, r, p + 1) = L - c * Z
    BY <1>1, <2>1, <2>2, <2>3 DEF Written
  <2>5. CarryHeld(x, r, p + 1)
    BY <1>1, <2>1, <2>2, <2>3 DEF CarryHeld
  <2>6. Written(x, r, p + 1) = Written(x, q, p) + r.digit * 2 ^ p
    <3>1. L - c * Z \in Int
      OBVIOUS
    <3>2. r.digit * 2 ^ p = 0
      BY <2>1, <1>4
    <3> QED BY <2>4, <3>1, <3>2
  <2> QED BY <1>1, <1>5, <2>1, <2>5, <2>6 DEF NafGoes
<1>6. s = 0 => Written(x, q, p) = l - c * T
  <2>1. SUFFICES ASSUME s = 0 PROVE Written(x, q, p) = l - c * T
    OBVIOUS
  <2>2. p + q.skip = p
    BY <1>1, <2>1
  <2> QED BY <1>1, <1>4, <2>2 DEF Written
<1>7. CASE s = 0 /\ t % 2 = 0
  <2>1. r.skip = 0 /\ r.carry = c /\ r.digit = 0
    BY <1>3, <1>7
  <2>2. b % 2 = c
    BY <1>1, <1>7, Parity
  <2>3. Low(x, p + 1) = l + c * T
    <3>1. Low(x, p + 1) = Low(x, p) + Low(Shr(x, p), 1) * 2 ^ p
      <4>1. 1 \in Nat
        OBVIOUS
      <4> QED BY <4>1, LowMore
    <3>2. Low(Shr(x, p), 1) = c
      BY <1>1, <2>2, WindowParity DEF Bits
    <3> QED BY <1>4, <3>1, <3>2
  <2>4. 2 ^ (p + 1) = 2 * T
    BY <1>4, PowerStep
  <2>5. (p + 1) + r.skip = p + 1
    BY <2>1
  <2>6. Written(x, r, p + 1) = (l + c * T) - c * (2 * T)
    BY <2>1, <2>3, <2>4, <2>5 DEF Written
  <2>7. CarryHeld(x, r, p + 1)
    <3>1. c = 1 => 2 * T <= 2 * (l + c * T)
      OBVIOUS
    <3> QED BY <2>1, <2>3, <2>4, <2>5, <3>1 DEF CarryHeld
  <2>8. Written(x, r, p + 1) = Written(x, q, p) + r.digit * 2 ^ p
    <3>1. CASE c = 0
      BY <1>4, <1>6, <1>7, <2>1, <2>6, <3>1
    <3>2. CASE c = 1
      BY <1>4, <1>6, <1>7, <2>1, <2>6, <3>2
    <3> QED BY <3>1, <3>2
  <2> QED BY <1>1, <1>7, <2>1, <2>7, <2>8 DEF NafGoes
<1>8. Low(x, p + w) = l + b * T /\ 2 ^ (p + w) = W * T
  <2>1. Low(x, p + w) = Low(x, p) + Low(Shr(x, p), w) * 2 ^ p
    BY LowMore
  <2>2. 2 ^ (p + w) = 2 ^ p * 2 ^ w
    BY PowerSum
  <2>3. T * W = W * T
    OBVIOUS
  <2> QED BY <1>1, <1>2, <1>4, <2>1, <2>2, <2>3 DEF Bits
<1>9. CASE s = 0 /\ t % 2 # 0 /\ t < h
  <2>1. r.skip = w - 1 /\ r.carry = 0 /\ r.digit = t
    BY <1>3, <1>9
  <2>2. (p + 1) + r.skip = p + w
    BY <2>1
  <2>3. Written(x, r, p + 1) = l + b * T
    <3>1. PICK v \in Nat, u \in Nat : v = l + b * T /\ u = W * T
      OBVIOUS
    <3>2. Written(x, r, p + 1) = v - 0 * u
      BY <2>1, <2>2, <1>8, <3>1 DEF Written
    <3> QED BY <3>1, <3>2
  <2>4. CarryHeld(x, r, p + 1)
    BY <2>1 DEF CarryHeld
  <2>5. Written(x, r, p + 1) = Written(x, q, p) + r.digit * 2 ^ p
    <3>1. (c + b) * T = c * T + b * T /\ c * T \in Nat /\ b * T \in Nat
      OBVIOUS
    <3>2. PICK cp \in Nat, bp \in Nat : cp = c * T /\ bp = b * T
      BY <3>1
    <3>3. r.digit * 2 ^ p = cp + bp
      BY <1>1, <1>4, <2>1, <3>1, <3>2
    <3> QED BY <1>6, <1>9, <2>3, <3>2, <3>3
  <2>6. r.digit % 2 = 1 /\ r.digit < h /\ -r.digit < h
    BY <2>1, <1>9
  <2> QED BY <1>1, <1>2, <1>9, <2>1, <2>4, <2>5, <2>6 DEF NafGoes
<1>10. CASE s = 0 /\ t % 2 # 0 /\ ~(t < h)
  <2>1. r.skip = w - 1 /\ r.carry = 1 /\ r.digit = t - W
    BY <1>3, <1>10
  <2>2. (p + 1) + r.skip = p + w
    BY <2>1
  <2>3. Written(x, r, p + 1) = (l + b * T) - W * T
    <3>1. PICK v \in Nat, u \in Nat : v = l + b * T /\ u = W * T
      OBVIOUS
    <3>2. Written(x, r, p + 1) = v - 1 * u
      BY <2>1, <2>2, <1>8, <3>1 DEF Written
    <3> QED BY <3>1, <3>2
  <2>4. b >= h
    BY <1>1, <1>2, <1>10
  <2>5. CarryHeld(x, r, p + 1)
    <3>1. h * T <= b * T
      BY <2>4, MulMono
    <3>2. W * T = 2 * (h * T)
      BY <1>2
    <3>3. PICK hp \in Nat, bp \in Nat : hp = h * T /\ bp = b * T
      OBVIOUS
    <3>4. W * T <= 2 * (l + b * T)
      BY <3>1, <3>2, <3>3
    <3> QED BY <2>1, <2>2, <1>8, <3>4 DEF CarryHeld
  <2>6. Written(x, r, p + 1) = Written(x, q, p) + r.digit * 2 ^ p
    <3>1. ((c + b) - W) * T = c * T + b * T - W * T /\ c * T \in Nat /\ b * T \in Nat /\ W * T \in Nat
      OBVIOUS
    <3>2. PICK cp \in Nat, bp \in Nat, wp \in Nat : cp = c * T /\ bp = b * T /\ wp = W * T
      BY <3>1
    <3>3. r.digit * 2 ^ p = cp + bp - wp
      BY <1>1, <1>4, <2>1, <3>1, <3>2
    <3> QED BY <1>6, <1>10, <2>3, <3>2, <3>3
  <2>7. r.digit % 2 = 1 /\ r.digit < h /\ -r.digit < h
    <3>1. t <= W
      BY <1>1, <1>2
    <3>2. t # h /\ t # W
      BY <1>2, <1>10
    <3>3. (t - W) % 2 = 1
      BY <1>2, <1>10
    <3> QED BY <2>1, <3>1, <3>2, <3>3, <1>2, <1>10
  <2> QED BY <1>1, <1>2, <1>10, <2>1, <2>5, <2>6, <2>7 DEF NafGoes
<1> QED BY <1>5, <1>7, <1>9, <1>10

\* The loop's digits: carries held by a set bit, sums, odd digits within their
\* table, and digits no closer than their width.
LEMMA NafIsExact ==
  ASSUME NEW x \in Nat, x < 2 ^ (StorageBits - 1), NEW w \in Nat \ {0}, w >= 2, w <= WordBits,
         NEW d, d = nonAdjacentForm(x, w)
  PROVE  /\ Value(d, 1) = x
         /\ \A i \in DOMAIN d : d[i] # 0 => d[i] % 2 = 1 /\ d[i] < 2 ^ (w - 1) /\ -d[i] < 2 ^ (w - 1)
         /\ \A i, j \in DOMAIN d : d[i] # 0 /\ d[j] # 0 /\ i < j => j - i >= w
<1>1. PICK n \in Nat \ {0} : n = StorageBits
  BY SizesAre
<1>2. PICK C : C = NafStates(x, w)
  OBVIOUS
<1>3. /\ C \in [0 .. n -> NafState] /\ C[0] = NafStart
      /\ \A p \in 0 .. (n - 1) : C[p + 1] = NafNext(C[p], Bits(x, p, w), w)
  BY <1>1, <1>2, NafRecursion
<1>4. d = [i \in 0 .. (n - 1) |-> C[i + 1].digit]
  BY <1>1, <1>2, NafDigits
<1>5. ASSUME NEW p \in 0 .. (n - 1), CarryHeld(x, C[p], p)
      PROVE  /\ Written(x, C[p + 1], p + 1) = Written(x, C[p], p) + d[p] * 2 ^ p
             /\ CarryHeld(x, C[p + 1], p + 1)
             /\ C[p].skip > 0 => C[p + 1].skip = C[p].skip - 1 /\ d[p] = 0
             /\ d[p] # 0 => C[p + 1].skip = w - 1 /\ d[p] % 2 = 1 /\ d[p] < 2 ^ (w - 1) /\ -d[p] < 2 ^ (w - 1)
  <2>0. PICK q \in NafState : q = C[p]
    BY <1>3
  <2>1. PICK r : q = C[p] /\ r = C[p + 1]
    BY <2>0
  <2>2. p \in Nat /\ CarryHeld(x, q, p) /\ r = NafNext(q, Bits(x, p, w), w)
    BY <1>3, <1>5, <2>1
  <2>3. NafGoes(x, w, q, r, p)
    BY <2>2, NafStep, Zenon
  <2>4. r.digit = d[p]
    BY <1>4, <2>1
  <2> QED BY <2>1, <2>3, <2>4 DEF NafGoes
<1>6. \A p \in 0 .. n : CarryHeld(x, C[p], p)
  <2> DEFINE S == {p \in Nat : p <= n => CarryHeld(x, C[p], p)}
  <2>1. 0 \in S
    <3>1. CarryHeld(x, C[0], 0)
      BY <1>3 DEF CarryHeld, NafStart
    <3> QED BY <3>1
  <2>2. ASSUME NEW p \in Nat, p \in S PROVE p + 1 \in S
    <3>1. SUFFICES ASSUME p + 1 <= n PROVE CarryHeld(x, C[p + 1], p + 1)
      OBVIOUS
    <3>2. p \in 0 .. (n - 1) /\ CarryHeld(x, C[p], p)
      BY <2>2, <3>1
    <3> QED BY <3>2, <1>5
  <2>3. \A p \in Nat : p \in S
    <3> HIDE DEF S
    <3> QED BY <2>1, <2>2, SetInduction
  <2> QED BY <2>3
<1>7. ASSUME NEW p \in 0 .. (n - 1)
      PROVE  /\ Written(x, C[p + 1], p + 1) = Written(x, C[p], p) + d[p] * 2 ^ p
             /\ C[p].skip > 0 => C[p + 1].skip = C[p].skip - 1 /\ d[p] = 0
             /\ d[p] # 0 => C[p + 1].skip = w - 1 /\ d[p] % 2 = 1 /\ d[p] < 2 ^ (w - 1) /\ -d[p] < 2 ^ (w - 1)
  BY <1>5, <1>6
<1>8. ASSUME NEW p \in 0 .. n PROVE C[p].skip \in Nat /\ C[p].carry \in {0, 1} /\ Written(x, C[p], p) \in Int
  <2>1. C[p].skip \in Nat /\ C[p].carry \in {0, 1}
    BY <1>3 DEF NafState
  <2>2. PICK z \in Nat, c \in {0, 1} : z = p + C[p].skip /\ c = C[p].carry
    BY <2>1
  <2>3. PICK l \in Nat, Z \in Nat : l = Low(x, z) /\ Z = 2 ^ z
    BY LowHigh, PowerStep
  <2>4. Written(x, C[p], p) = l - c * Z
    BY <2>2, <2>3 DEF Written
  <2> QED BY <2>1, <2>4
<1> DEFINE sum == [p \in 0 .. n |-> Written(x, C[p], p)]
<1>9. Sums(sum, d, 1, n)
  <2>1. sum \in [0 .. n -> Int]
    BY <1>8
  <2>2. sum[0] = 0
    <3>1. C[0].skip = 0 /\ C[0].carry = 0
      BY <1>3 DEF NafStart
    <3>2. PICK l \in Nat, Z \in Nat : l = Low(x, 0) /\ Z = 2 ^ 0 /\ l < Z
      <4>1. 2 ^ 0 = 1
        OBVIOUS
      <4>2. 0 \in Nat
        OBVIOUS
      <4>3. Low(x, 0) \in Nat /\ Low(x, 0) < 2 ^ 0
        BY <4>2, LowHigh
      <4> QED BY <4>1, <4>3
    <3>3. l = 0
      BY <3>2
    <3>4. Written(x, C[0], 0) = l - 0 * Z
      BY <3>1, <3>2 DEF Written
    <3> QED BY <3>3, <3>4
  <2>3. ASSUME NEW p \in 0 .. (n - 1) PROVE sum[p + 1] = sum[p] + d[p] * 2 ^ (1 * p)
    <3>1. p + 1 \in 0 .. n /\ p \in 0 .. n /\ 1 * p = p
      OBVIOUS
    <3> QED BY <3>1, <1>7
  <2> HIDE DEF sum
  <2> QED BY <2>1, <2>2, <2>3 DEF Sums
<1>10. sum[n] = x
  <2>1. PICK s \in Nat, c \in {0, 1} : s = C[n].skip /\ c = C[n].carry
    BY <1>8
  <2>2. PICK z \in Nat, Z \in Nat, H \in Nat : z = n + s /\ Z = 2 ^ z /\ H = 2 ^ (n - 1) /\ 2 ^ n = 2 * H /\ 2 * H <= Z
    <3>1. n <= n + s /\ n + s \in Nat /\ n \in Nat
      OBVIOUS
    <3>2. 2 ^ n <= 2 ^ (n + s)
      BY <3>1, PowerMono
    <3>3. 2 ^ (n - 1) \in Nat /\ 2 ^ n = 2 * 2 ^ (n - 1)
      BY Halves
    <3>4. 2 ^ (n + s) \in Nat
      BY <3>1, PowerStep
    <3> QED BY <3>1, <3>2, <3>3, <3>4
  <2>3. x < Z /\ x < H
    BY <1>1, <2>2
  <2>4. Low(x, z) = x
    BY <2>2, <2>3, Small
  <2>5. c # 1
    <3>1. c = 1 => Z <= 2 * x
      <4>1. CarryHeld(x, C[n], n)
        BY <1>6
      <4> QED BY <4>1, <2>1, <2>2, <2>4 DEF CarryHeld
    <3> QED BY <3>1, <2>2, <2>3
  <2>6. Written(x, C[n], n) = x - c * Z
    BY <2>1, <2>2, <2>4 DEF Written
  <2> QED BY <2>5, <2>6
<1>11. Value(d, 1) = x
  <2>1. DOMAIN d = 0 .. (n - 1) /\ 1 \in Nat
    BY <1>4
  <2> HIDE DEF sum
  <2>2. PICK e : e = sum
    OBVIOUS
  <2>3. Sums(e, d, 1, n)
    BY <1>9, <2>2
  <2>4. Value(d, 1) = e[n]
    BY <2>1, <2>3, SumsOwn
  <2> QED BY <2>2, <2>4, <1>10
<1>12. ASSUME NEW i \in DOMAIN d, d[i] # 0
       PROVE  d[i] % 2 = 1 /\ d[i] < 2 ^ (w - 1) /\ -d[i] < 2 ^ (w - 1)
  <2>1. i \in 0 .. (n - 1)
    BY <1>4
  <2> QED BY <2>1, <1>7, <1>12
<1>13. ASSUME NEW i \in 0 .. (n - 1), d[i] # 0
       PROVE  \A p \in 0 .. n : i < p => i + w <= p + C[p].skip
  <2> DEFINE S == {p \in Nat : i < p /\ p <= n => i + w <= p + C[p].skip}
  <2>1. 0 \in S
    OBVIOUS
  <2>2. ASSUME NEW p \in Nat, p \in S PROVE p + 1 \in S
    <3>1. SUFFICES ASSUME i < p + 1, p + 1 <= n PROVE i + w <= (p + 1) + C[p + 1].skip
      OBVIOUS
    <3>2. p \in 0 .. (n - 1) /\ p \in 0 .. n /\ p + 1 \in 0 .. n
      BY <3>1
    <3>3. PICK s \in Nat, r \in Nat : s = C[p].skip /\ r = C[p + 1].skip
      BY <1>8, <3>2
    <3>4. CASE i = p
      <4>1. C[p + 1].skip = w - 1
        BY <1>7, <1>13, <3>2, <3>4
      <4> QED BY <4>1, <3>4
    <3>5. CASE i # p
      <4>1. i + w <= p + s
        BY <2>2, <3>1, <3>2, <3>3, <3>5
      <4>2. s > 0 => r = s - 1
        BY <1>7, <3>2, <3>3
      <4> QED BY <4>1, <4>2, <3>3
    <3> QED BY <3>4, <3>5
  <2>3. \A p \in Nat : p \in S
    <3> HIDE DEF S
    <3> QED BY <2>1, <2>2, SetInduction
  <2> QED BY <2>3
<1>14. ASSUME NEW i \in DOMAIN d, NEW j \in DOMAIN d, d[i] # 0, d[j] # 0, i < j PROVE j - i >= w
  <2>1. i \in 0 .. (n - 1) /\ j \in 0 .. (n - 1) /\ j \in 0 .. n
    BY <1>4
  <2>2. i + w <= j + C[j].skip
    BY <1>13, <1>14, <2>1
  <2>3. C[j].skip = 0
    <3>1. C[j].skip \in Nat
      BY <1>8, <2>1
    <3>2. ~(C[j].skip > 0)
      BY <1>7, <1>14, <2>1
    <3> QED BY <3>1, <3>2
  <2> QED BY <2>1, <2>2, <2>3
<1> QED BY <1>11, <1>12, <1>14

-----------------------------------------------------------------------------
\* Every recoding of every scalar.

\* Canonical scalars in balanced digits, whichever recoder.
LEMMA BalancedIsExact ==
  ASSUME NEW x \in Nat
  PROVE  BalancedExact(x, AsymmetricWidths)
<1>1. SUFFICES ASSUME canonicalScalarBytes(x)
               PROVE  BalancedExact(x, AsymmetricWidths)
  BY DEF BalancedExact
<1>2. ASSUME NEW w \in DOMAIN RoundCount, NEW negative \in BOOLEAN
      PROVE  LET r == RecodeCanonicalScalar(x, w, negative) IN
             /\ r.carry = 0 /\ Value(r.digits, w) = (IF negative THEN -x ELSE x)
             /\ \A i \in DOMAIN r.digits : r.digits[i] \in (-(2 ^ (w - 1))) .. (2 ^ (w - 1))
             /\ RecodeNegatedFull(x, w) = RecodeCanonicalScalar(x, w, TRUE)
  <2>1. Recodes(RecodeCanonicalScalar(x, w, negative), IF negative THEN -x ELSE x, w)
    BY <1>1, CanonicalExact
  <2>2. RecodeNegatedFull(x, w) = RecodeCanonicalScalar(x, w, TRUE)
    BY <1>1, NegatedFullSame
  <2> QED BY <2>1, <2>2 DEF Recodes
<1>3. \A w \in DOMAIN RoundCount : RecodeFixedBase(x, w) = RecodeCanonicalScalar(x, w, FALSE)
  BY <1>1, FixedBaseSame
<1>4. RecodeFixedBaseBytes(x).carry = 0 /\ Value(RecodeFixedBaseBytes(x).digits, ByteBits) = x
  BY <1>1, BytesExact
<1>5. ASSUME NEW w \in AsymmetricWidths
      PROVE  LET r == RecodeAsymmetric(x, w, TRUE) IN
             /\ r.carry = 0 /\ Value(r.digits, w) = -x
             /\ \A i \in DOMAIN r.digits : r.digits[i] \in (-(2 ^ (w - 1))) .. (2 ^ (w - 1))
  BY <1>1, AsymmetricExact DEF Recodes
<1> QED BY <1>2, <1>3, <1>4, <1>5 DEF BalancedExact

\* Scalars below a power of two that leaves the high bit of the storage clear.
LEMMA HighBitClear ==
  ASSUME NEW x \in Nat, x < 2 ^ ScalarBits
  PROVE  x < 2 ^ (StorageBits - 1)
<1>1. ScalarBits \in Nat /\ StorageBits - 1 \in Nat /\ ScalarBits <= StorageBits - 1
  BY SizesAre
<1>2. 2 ^ ScalarBits <= 2 ^ (StorageBits - 1) /\ 2 ^ ScalarBits \in Nat /\ 2 ^ (StorageBits - 1) \in Nat
  BY <1>1, PowerMono, PowerStep
<1> QED BY <1>2

\* Canonical scalars in non-adjacent form.
LEMMA NafFormsExact ==
  ASSUME NEW x \in Nat
  PROVE  NafExact(x, NafWidths)
<1>1. SUFFICES ASSUME canonicalScalarBytes(x)
               PROVE  NafExact(x, NafWidths)
  BY DEF NafExact
<1>2. x < 2 ^ (StorageBits - 1)
  <2>1. x < Order /\ Order \in Nat /\ Order < 2 ^ ScalarBits /\ ScalarBits \in Nat
    BY <1>1, SizesAre DEF canonicalScalarBytes
  <2>2. 2 ^ ScalarBits \in Nat
    BY <2>1, PowerStep
  <2> QED BY <2>1, <2>2, HighBitClear
<1>3. ASSUME NEW w \in NafWidths
      PROVE  LET d == nonAdjacentForm(x, w)
                 used == {i \in DOMAIN d : d[i] # 0}
             IN /\ Value(d, 1) = x
                /\ \A i \in used : d[i] % 2 = 1 /\ d[i] < 2 ^ (w - 1) /\ -d[i] < 2 ^ (w - 1)
                /\ \A i, j \in used : i < j => j - i >= w
  <2>1. w \in Nat \ {0} /\ w >= 2 /\ w <= WordBits
    BY RecodingAssumption, SizesAre
  <2>2. PICK d : d = nonAdjacentForm(x, w)
    OBVIOUS
  <2>3. /\ Value(d, 1) = x
        /\ \A i \in DOMAIN d : d[i] # 0 => d[i] % 2 = 1 /\ d[i] < 2 ^ (w - 1) /\ -d[i] < 2 ^ (w - 1)
        /\ \A i, j \in DOMAIN d : d[i] # 0 /\ d[j] # 0 /\ i < j => j - i >= w
    BY <1>2, <2>1, <2>2, NafIsExact
  <2> QED BY <2>2, <2>3
<1> QED BY <1>1, <1>3 DEF NafExact

\* Scalars below the power of two of the order.
ScalarsFit == \A x \in scalars : x \in Nat /\ x < 2 ^ ScalarBits

\* They stay there.
LEMMA ScalarsStay == RecodeSpec => []ScalarsFit
<1>1. RecodeInit => ScalarsFit
  <2>1. ScalarBits \in Nat
    BY SizesAre
  <2>2. PICK N \in Nat : N = 2 ^ ScalarBits
    BY <2>1, PowerStep
  <2>3. Starts \subseteq 0 .. (N - 1)
    BY <2>2, RecodingAssumption
  <2> QED BY <2>2, <2>3 DEF RecodeInit, ScalarsFit
<1>2. ScalarsFit /\ [RecodeNext]_scalars => ScalarsFit'
  BY DEF ScalarsFit, RecodeNext
<1> QED BY <1>1, <1>2, PTL DEF RecodeSpec

\* The recoders of scalar_fixed.go, fixed_base_comb.go, scalar_window.go,
\* asymmetric_fixed_b_dsm.go and edwards25519/scalar.go: every scalar they are
\* given is recoded exactly, without a carry left, into digits of their tables.
THEOREM RecodingAlwaysExact == RecodeSpec => []RecodingExact
<1>1. ScalarsFit => RecodingExact
  <2>1. SUFFICES ASSUME NEW x \in Nat, x < 2 ^ ScalarBits
                 PROVE  BalancedExact(x, AsymmetricWidths) /\ Radix16Exact(x) /\ RegularExact(x) /\ NafExact(x, NafWidths)
    BY DEF ScalarsFit, RecodingExact
  <2>2. x < 2 ^ (StorageBits - 1)
    BY <2>1, HighBitClear
  <2> QED BY <2>2, BalancedIsExact, Radix16IsExact, RegularIsExact, NafFormsExact
<1> QED BY <1>1, ScalarsStay, PTL

-----------------------------------------------------------------------------
\* Bit packing.

\* The bits of a shifted or masked string, one by one.
LEMMA DownBits ==
  ASSUME NEW a \in SUBSET Nat, NEW n \in Nat
  PROVE  /\ Down(a, n) \in SUBSET Nat
         /\ \A b \in Nat : b \in Down(a, n) <=> b + n \in a
<1>1. Down(a, n) \in SUBSET Nat BY DEF Down
<1>2. ASSUME NEW b \in Nat, b + n \in a PROVE b \in Down(a, n)
  <2>1. b + n \in {c \in a : c >= n} BY <1>2
  <2>2. b = (b + n) - n OBVIOUS
  <2> QED BY <2>1, <2>2 DEF Down
<1>3. ASSUME NEW b \in Nat, b \in Down(a, n) PROVE b + n \in a
  <2>1. PICK c \in {d \in a : d >= n} : b = c - n BY <1>3 DEF Down
  <2>2. b + n = c BY <2>1
  <2> QED BY <2>1, <2>2
<1> QED BY <1>1, <1>2, <1>3

\* A shift by nothing.
LEMMA DownNone ==
  ASSUME NEW a \in SUBSET Nat
  PROVE  Down(a, 0) = a
<1>1. Down(a, 0) \in SUBSET Nat BY DownBits
<1>2. ASSUME NEW b \in Nat PROVE b \in Down(a, 0) <=> b \in a
  <2>1. b \in Down(a, 0) <=> b + 0 \in a BY DownBits
  <2> QED BY <2>1
<1> QED BY <1>1, <1>2

\* A left shift within a word.
LEMMA UpBits ==
  ASSUME NEW a \in SUBSET Nat, NEW n \in Nat, NEW width \in Nat
  PROVE  /\ Up(a, n, width) \in SUBSET Nat
         /\ \A b \in Nat : b \in Up(a, n, width) <=> b < width /\ b >= n /\ b - n \in a
BY DEF Up

\* A keep.
LEMMA LowBitsBits ==
  ASSUME NEW a \in SUBSET Nat, NEW n \in Nat
  PROVE  /\ LowBits(a, n) \in SUBSET Nat
         /\ \A b \in Nat : b \in LowBits(a, n) <=> b \in a /\ b < n
BY DEF LowBits

\* A shift and a keep take the bits from a place on.
LEMMA SliceBits ==
  ASSUME NEW a \in SUBSET Nat, NEW at \in Nat, NEW n \in Nat
  PROVE  /\ LowBits(Down(a, at), n) \in SUBSET Nat
         /\ \A b \in Nat : b \in LowBits(Down(a, at), n) <=> b < n /\ b + at \in a
<1>1. Down(a, at) \in SUBSET Nat /\ \A b \in Nat : b \in Down(a, at) <=> b + at \in a BY DownBits
<1>2. PICK d \in SUBSET Nat : d = Down(a, at) BY <1>1
<1>3. LowBits(d, n) \in SUBSET Nat /\ \A b \in Nat : b \in LowBits(d, n) <=> b \in d /\ b < n BY LowBitsBits
<1> QED BY <1>1, <1>2, <1>3

\* Masking the string above the bits that are read changes nothing.
LEMMA MaskAbove ==
  ASSUME NEW a \in SUBSET Nat, NEW n \in Nat, NEW at \in Nat, NEW width \in Nat, at + width <= n
  PROVE  LowBits(Down(a, at), width) = LowBits(Down(LowBits(a, n), at), width)
BY DEF LowBits, Down

\* The last limb needs no keep when nothing lies above it.
LEMMA MaskTop ==
  ASSUME NEW a \in SUBSET Nat, NEW n \in Nat, NEW at \in Nat, NEW width \in Nat, at + width = n
  PROVE  LowBits(Down(a, at), width) = Down(LowBits(a, n), at)
BY DEF LowBits, Down

\* One of four words.
LEMMA WordAtBits ==
  ASSUME NEW a \in SUBSET Nat, NEW i \in Nat
  PROVE  /\ WordAt(a, i) \in SUBSET Nat
         /\ \A b \in Nat : b \in WordAt(a, i) <=> b < 64 /\ b + 64 * i \in a
<1>1. 64 * i \in Nat OBVIOUS
<1>2. PICK p \in Nat : p = 64 * i BY <1>1
<1> QED BY <1>2, SliceBits DEF WordAt

\* A limb within one word is the string's bits from that place.
LEMMA InWord ==
  ASSUME NEW a \in SUBSET Nat, NEW i \in Nat, NEW right \in Nat, NEW keep \in Nat, right + keep <= 64
  PROVE  LowBits(Down(WordAt(a, i), right), keep) = LowBits(Down(a, 64 * i + right), keep)
<1> DEFINE p == 64 * i + right
           lhs == LowBits(Down(WordAt(a, i), right), keep)
           rhs == LowBits(Down(a, p), keep)
<1>1. p \in Nat OBVIOUS
<1>2. lhs \in SUBSET Nat /\ \A b \in Nat : b \in lhs <=> b < keep /\ b + right \in WordAt(a, i)
  <2>1. PICK d \in SUBSET Nat : d = WordAt(a, i) BY WordAtBits
  <2> QED BY <2>1, SliceBits
<1>3. rhs \in SUBSET Nat /\ \A b \in Nat : b \in rhs <=> b < keep /\ b + p \in a
  <2>1. PICK q \in Nat : q = p BY <1>1
  <2> QED BY <2>1, SliceBits
<1>4. ASSUME NEW b \in Nat PROVE b \in lhs <=> b \in rhs
  <2>1. b + right \in Nat OBVIOUS
  <2>2. b + right \in WordAt(a, i) <=> b + right < 64 /\ (b + right) + 64 * i \in a BY <2>1, WordAtBits
  <2>3. (b + right) + 64 * i = b + p OBVIOUS
  <2> QED BY <1>2, <1>3, <2>2, <2>3
<1> HIDE DEF lhs, rhs
<1>5. lhs = rhs BY <1>2, <1>3, <1>4
<1> QED BY <1>5 DEF lhs, rhs

\* The words, shifts and keep of a limb that two words share.
Across(low, right, high, left, keep, p) ==
  /\ low \in Nat /\ high = low + 1
  /\ right \in Nat /\ left \in Nat /\ left + right = 64
  /\ keep \in Nat /\ keep <= 64
  /\ p \in Nat /\ p = 64 * low + right
JoinIs(a, low, right, high, left, keep, p) ==
  Join(a, low, right, high, left, keep) = LowBits(Down(a, p), keep)

\* A limb across two words is the string's bits from that place.
LEMMA AcrossIsSlice ==
  ASSUME NEW a \in SUBSET Nat, NEW low, NEW right, NEW high, NEW left, NEW keep, NEW p,
         Across(low, right, high, left, keep, p)
  PROVE  JoinIs(a, low, right, high, left, keep, p)
<1> SUFFICES ASSUME low \in Nat, right \in Nat, keep \in Nat, keep <= 64, high = low + 1,
                    left \in Nat, left + right = 64, p \in Nat, p = 64 * low + right
             PROVE  Join(a, low, right, high, left, keep) = LowBits(Down(a, p), keep)
  BY DEF Across, JoinIs
<1> DEFINE both == Down(WordAt(a, low), right) \cup Up(WordAt(a, low + 1), 64 - right, 64)
           lhs == LowBits(both, keep)
           rhs == LowBits(Down(a, p), keep)
<1>1. low + 1 \in Nat /\ 64 - right \in Nat /\ left = 64 - right OBVIOUS
<1>2. /\ Down(WordAt(a, low), right) \in SUBSET Nat
      /\ \A b \in Nat : b \in Down(WordAt(a, low), right) <=> b + right \in WordAt(a, low)
  <2>1. PICK d \in SUBSET Nat : d = WordAt(a, low) BY WordAtBits
  <2> QED BY <1>1, <2>1, DownBits
<1>3. /\ Up(WordAt(a, low + 1), 64 - right, 64) \in SUBSET Nat
      /\ \A b \in Nat : b \in Up(WordAt(a, low + 1), 64 - right, 64)
           <=> b < 64 /\ b >= 64 - right /\ b - (64 - right) \in WordAt(a, low + 1)
  <2>1. PICK d \in SUBSET Nat : d = WordAt(a, low + 1) BY <1>1, WordAtBits
  <2>2. PICK n \in Nat : n = 64 - right BY <1>1
  <2> QED BY <2>1, <2>2, UpBits
<1>4. both \in SUBSET Nat BY <1>2, <1>3
<1>5. lhs \in SUBSET Nat /\ \A b \in Nat : b \in lhs <=> b < keep /\ b \in both
  BY <1>1, <1>4, LowBitsBits
<1>6. rhs \in SUBSET Nat /\ \A b \in Nat : b \in rhs <=> b < keep /\ b + p \in a
  <2>1. PICK q \in Nat : q = p OBVIOUS
  <2>2. /\ LowBits(Down(a, q), keep) \in SUBSET Nat
        /\ \A b \in Nat : b \in LowBits(Down(a, q), keep) <=> b < keep /\ b + q \in a
    BY SliceBits
  <2> QED BY <2>1, <2>2
<1>7. ASSUME NEW b \in Nat, b < 64 PROVE b \in both <=> b + p \in a
  <2>1. b + right \in WordAt(a, low) <=> b + right < 64 /\ (b + right) + 64 * low \in a
    BY <1>1, WordAtBits
  <2>2. CASE b + right < 64
    <3>1. ~(b >= 64 - right) BY <2>2, <1>1
    <3>2. (b + right) + 64 * low = b + p BY <1>1
    <3> QED BY <1>2, <1>3, <2>1, <2>2, <3>1, <3>2
  <2>3. CASE ~(b + right < 64)
    <3>1. b >= 64 - right /\ b - (64 - right) \in Nat /\ b - (64 - right) < 64 BY <2>3, <1>1, <1>7
    <3>2. b - (64 - right) \in WordAt(a, low + 1) <=> (b - (64 - right)) + 64 * (low + 1) \in a
      BY <3>1, <1>1, WordAtBits
    <3>3. (b - (64 - right)) + 64 * (low + 1) = b + p BY <1>1
    <3> QED BY <1>2, <1>3, <1>7, <2>1, <2>3, <3>1, <3>2, <3>3
  <2> QED BY <2>2, <2>3
<1> HIDE DEF lhs, rhs, both
<1>8. ASSUME NEW b \in Nat PROVE b \in lhs <=> b \in rhs
  <2>1. b < keep => b < 64 OBVIOUS
  <2> QED BY <1>5, <1>6, <1>7, <2>1
<1>9. lhs = rhs BY <1>5, <1>6, <1>8
<1> QED BY <1>1, <1>9 DEF lhs, rhs, both, Join

\* Every load starts at its limb's first bit and holds the whole limb.
LEMMA LoadTable ==
  ASSUME NEW i \in 1 .. 24
  PROVE  /\ Loads[i][1] \in Nat /\ Loads[i][2] \in Nat /\ Loads[i][3] \in Nat
         /\ 8 * Loads[i][2] + Loads[i][3] = 21 * (i - 1)
         /\ 8 * Loads[i][1] >= 21 + Loads[i][3]
         /\ i = 24 => Loads[i][1] = 4 /\ Loads[i][2] = 60 /\ Loads[i][3] = 3
         /\ i = 12 => Loads[i][1] = 4 /\ Loads[i][2] = 28 /\ Loads[i][3] = 7
BY SMTT(30) DEF Loads

\* Every store takes the bits of its byte, and the next limb's where one ends.
LEMMA StoreTable ==
  ASSUME NEW i \in 1 .. 32
  PROVE  /\ Stores[i][1] \in 1 .. 12 /\ Stores[i][2] \in 0 .. 20 /\ Stores[i][3] \in 0 .. 7
         /\ 21 * (Stores[i][1] - 1) + Stores[i][2] = 8 * (i - 1)
         /\ Stores[i][3] = 0 => Stores[i][2] + 8 <= 21 \/ Stores[i][1] = 12
         /\ Stores[i][3] # 0 => Stores[i][1] < 12 /\ Stores[i][2] + Stores[i][3] = 21
<1>1. Stores[i][1] \in 1 .. 12 BY DEF Stores
<1>2. Stores[i][2] \in 0 .. 20 BY DEF Stores
<1>3. Stores[i][3] \in 0 .. 7 BY DEF Stores
<1>4. Stores[i][2] = 8 * i - 21 * Stores[i][1] + 13 BY DEF Stores
<1>5. Stores[i][3] = 0 \/ Stores[i][3] = 21 - Stores[i][2] BY DEF Stores
<1>6. Stores[i][3] = 0 => Stores[i][2] <= 13 \/ Stores[i][1] = 12 BY DEF Stores
<1>7. Stores[i][3] # 0 => Stores[i][1] <= 11 BY DEF Stores
<1> QED BY <1>1, <1>2, <1>3, <1>4, <1>5, <1>6, <1>7

-----------------------------------------------------------------------------
\* What a limb should be, and limbs that are.
LimbOf(lay, e, i) ==
  LET mine == Down(LowBits(e, Kept(lay)), LimbBits(lay) * (i - 1))
  IN IF i = LimbCount(lay) THEN mine ELSE LowBits(mine, LimbBits(lay))
Holds(lay, e, l) == \A i \in 1 .. LimbCount(lay) : l[i] = LimbOf(lay, e, i)

\* A loaded word, shifted.
LEMMA LoadBits ==
  ASSUME NEW a \in SUBSET Nat, NEW at \in Nat, NEW n \in Nat, NEW right \in 0 .. n
  PROVE  Down(LowBits(Down(a, at), n), right) = LowBits(Down(a, at + right), n - right)
<1> DEFINE lhs == Down(LowBits(Down(a, at), n), right)
           rhs == LowBits(Down(a, at + right), n - right)
<1>1. right \in Nat /\ at + right \in Nat /\ n - right \in Nat OBVIOUS
<1>2. PICK d \in SUBSET Nat : d = LowBits(Down(a, at), n) BY SliceBits
<1>3. \A b \in Nat : b \in d <=> b < n /\ b + at \in a BY <1>2, SliceBits
<1>4. Down(d, right) \in SUBSET Nat /\ \A b \in Nat : b \in Down(d, right) <=> b + right \in d
  BY <1>1, DownBits
<1>5. rhs \in SUBSET Nat /\ \A b \in Nat : b \in rhs <=> b < n - right /\ b + (at + right) \in a
  <2>1. PICK p, q \in Nat : p = at + right /\ q = n - right BY <1>1
  <2> QED BY <2>1, SliceBits
<1>6. ASSUME NEW b \in Nat PROVE b \in Down(d, right) <=> b \in rhs
  <2>1. b + right \in d <=> b + right < n /\ (b + right) + at \in a BY <1>1, <1>3
  <2>2. (b + right) + at = b + (at + right) BY <1>1
  <2> QED BY <1>1, <1>4, <1>5, <2>1, <2>2
<1> HIDE DEF rhs
<1>7. Down(d, right) = rhs BY <1>4, <1>5, <1>6
<1> QED BY <1>2, <1>7 DEF rhs

\* A limb below the last, from its slice of the string.
LEMMA InnerLimb ==
  ASSUME NEW lay \in Layouts, NEW e \in SUBSET Nat, NEW i \in 1 .. LimbCount(lay), i # LimbCount(lay),
         NEW s, s = LowBits(Down(e, LimbBits(lay) * (i - 1)), LimbBits(lay))
  PROVE  s = LimbOf(lay, e, i)
<1>1. PICK at \in Nat, width \in Nat, n \in Nat :
        /\ width = LimbBits(lay) /\ at = LimbBits(lay) * (i - 1) /\ n = Kept(lay)
        /\ at + width <= n
  BY DEF Layouts, LimbBits, LimbCount, Kept, Read, Field, Wide
<1>2. LowBits(Down(e, at), width) = LowBits(Down(LowBits(e, n), at), width) BY <1>1, MaskAbove
<1> QED BY <1>1, <1>2 DEF LimbOf

\* The last.
LEMMA LastLimb ==
  ASSUME NEW lay \in Layouts, NEW e \in SUBSET Nat, NEW width \in Nat,
         NEW at \in Nat, at = LimbBits(lay) * (LimbCount(lay) - 1), at + width = Kept(lay),
         NEW s, s = LowBits(Down(e, at), width)
  PROVE  s = LimbOf(lay, e, LimbCount(lay))
<1>1. PICK n \in Nat : n = Kept(lay)
  BY DEF Kept, Read
<1>2. LowBits(Down(e, at), width) = Down(LowBits(e, n), at) BY <1>1, MaskTop
<1> QED BY <1>1, <1>2 DEF LimbOf

\* A limb at the start of a word.
LEMMA AtWord ==
  ASSUME NEW a \in SUBSET Nat, NEW i \in Nat, NEW keep \in 0 .. 64
  PROVE  LowBits(WordAt(a, i), keep) = LowBits(Down(a, 64 * i), keep)
<1>1. LowBits(Down(WordAt(a, i), 0), keep) = LowBits(Down(a, 64 * i + 0), keep) BY InWord
<1>2. PICK d \in SUBSET Nat : d = WordAt(a, i) BY WordAtBits
<1>4. Down(d, 0) = d BY DownNone
<1> QED BY <1>1, <1>2, <1>4

\* r51UnpackLow255.
LEMMA R51Unpacks ==
  ASSUME NEW e \in SUBSET Nat
  PROVE  Holds("r51", e, r51UnpackLow255(e))
<1> DEFINE l == r51UnpackLow255(e)
<1>0. /\ "r51" \in Layouts /\ LimbBits("r51") = 51 /\ LimbCount("r51") = 5 /\ Kept("r51") = 255
  BY DEF Layouts, LimbBits, LimbCount, Kept, Field, Wide
<1>1. l[1] = LowBits(Down(e, 0), 51) BY AtWord DEF r51UnpackLow255
<1>2. l[2] = LowBits(Down(e, 51), 51)
  <2>1. Across(0, 51, 1, 13, 51, 51) BY DEF Across
  <2>2. JoinIs(e, 0, 51, 1, 13, 51, 51) BY <2>1, AcrossIsSlice, Zenon
  <2> QED BY <2>2 DEF JoinIs, r51UnpackLow255
<1>3. l[3] = LowBits(Down(e, 102), 51)
  <2>1. Across(1, 38, 2, 26, 51, 102) BY DEF Across
  <2>2. JoinIs(e, 1, 38, 2, 26, 51, 102) BY <2>1, AcrossIsSlice, Zenon
  <2> QED BY <2>2 DEF JoinIs, r51UnpackLow255
<1>4. l[4] = LowBits(Down(e, 153), 51)
  <2>1. Across(2, 25, 3, 39, 51, 153) BY DEF Across
  <2>2. JoinIs(e, 2, 25, 3, 39, 51, 153) BY <2>1, AcrossIsSlice, Zenon
  <2> QED BY <2>2 DEF JoinIs, r51UnpackLow255
<1>5. l[5] = LowBits(Down(e, 204), 51)
  <2>1. LowBits(Down(WordAt(e, 3), 12), 51) = LowBits(Down(e, 64 * 3 + 12), 51) BY InWord
  <2> QED BY <2>1 DEF r51UnpackLow255
<1> HIDE DEF l
<1>6. ASSUME NEW i \in 1 .. 5 PROVE l[i] = LowBits(Down(e, 51 * (i - 1)), 51)
  BY <1>1, <1>2, <1>3, <1>4, <1>5
<1>7. ASSUME NEW i \in 1 .. 5, i # 5 PROVE l[i] = LimbOf("r51", e, i)
  BY <1>0, <1>6, <1>7, InnerLimb
<1>8. l[5] = LimbOf("r51", e, 5)
  <2>1. 204 = 51 * (5 - 1) /\ 204 + 51 = 255 OBVIOUS
  <2> QED BY <1>0, <1>5, <2>1, LastLimb
<1> QED BY <1>0, <1>7, <1>8 DEF Holds, l

\* r43UnpackLow255.
LEMMA R43Unpacks ==
  ASSUME NEW e \in SUBSET Nat
  PROVE  Holds("r43", e, r43UnpackLow255(e))
<1> DEFINE l == r43UnpackLow255(e)
<1>0. /\ "r43" \in Layouts /\ LimbBits("r43") = 43 /\ LimbCount("r43") = 6 /\ Kept("r43") = 255
  BY DEF Layouts, LimbBits, LimbCount, Kept, Field, Wide
<1>1. l[1] = LowBits(Down(e, 0), 43) BY AtWord DEF r43UnpackLow255
<1>2. l[2] = LowBits(Down(e, 43), 43)
  <2>1. Across(0, 43, 1, 21, 43, 43) BY DEF Across
  <2>2. JoinIs(e, 0, 43, 1, 21, 43, 43) BY <2>1, AcrossIsSlice, Zenon
  <2> QED BY <2>2 DEF JoinIs, r43UnpackLow255
<1>3. l[3] = LowBits(Down(e, 86), 43)
  <2>1. Across(1, 22, 2, 42, 43, 86) BY DEF Across
  <2>2. JoinIs(e, 1, 22, 2, 42, 43, 86) BY <2>1, AcrossIsSlice, Zenon
  <2> QED BY <2>2 DEF JoinIs, r43UnpackLow255
<1>4. l[4] = LowBits(Down(e, 129), 43)
  <2>1. LowBits(Down(WordAt(e, 2), 1), 43) = LowBits(Down(e, 64 * 2 + 1), 43) BY InWord
  <2> QED BY <2>1 DEF r43UnpackLow255
<1>5. l[5] = LowBits(Down(e, 172), 43)
  <2>1. Across(2, 44, 3, 20, 43, 172) BY DEF Across
  <2>2. JoinIs(e, 2, 44, 3, 20, 43, 172) BY <2>1, AcrossIsSlice, Zenon
  <2> QED BY <2>2 DEF JoinIs, r43UnpackLow255
<1>6. l[6] = LowBits(Down(e, 215), 40)
  <2>1. LowBits(Down(WordAt(e, 3), 23), 40) = LowBits(Down(e, 64 * 3 + 23), 40) BY InWord
  <2> QED BY <2>1 DEF r43UnpackLow255
<1> HIDE DEF l
<1>7. ASSUME NEW i \in 1 .. 6, i # 6 PROVE l[i] = LowBits(Down(e, 43 * (i - 1)), 43)
  BY <1>1, <1>2, <1>3, <1>4, <1>5, <1>7
<1>8. ASSUME NEW i \in 1 .. 6, i # 6 PROVE l[i] = LimbOf("r43", e, i)
  BY <1>0, <1>7, <1>8, InnerLimb
<1>9. l[6] = LimbOf("r43", e, 6)
  <2>1. 215 = 43 * (6 - 1) /\ 215 + 40 = 255 OBVIOUS
  <2> QED BY <1>0, <1>6, <2>1, LastLimb
<1> QED BY <1>0, <1>8, <1>9 DEF Holds, l

\* Masking twice.
LEMMA MaskTwice ==
  ASSUME NEW a \in SUBSET Nat, NEW n \in Nat, NEW m \in Nat, m <= n
  PROVE  LowBits(LowBits(a, n), m) = LowBits(a, m)
BY DEF LowBits

\* A load of n bits from a place, shifted and masked.
LEMMA LoadSlice ==
  ASSUME NEW a \in SUBSET Nat, NEW at \in Nat, NEW n \in Nat, NEW right \in Nat, NEW keep \in Nat,
         right + keep <= n
  PROVE  LowBits(Down(LowBits(Down(a, at), n), right), keep) = LowBits(Down(a, at + right), keep)
<1>1. right \in 0 .. n /\ at + right \in Nat /\ n - right \in Nat /\ keep <= n - right OBVIOUS
<1>2. Down(LowBits(Down(a, at), n), right) = LowBits(Down(a, at + right), n - right) BY <1>1, LoadBits
<1>3. PICK d \in SUBSET Nat : d = Down(a, at + right)
  <2>1. PICK p \in Nat : p = at + right BY <1>1
  <2> QED BY <2>1, DownBits
<1>4. PICK r \in Nat : r = n - right BY <1>1
<1>5. LowBits(LowBits(d, r), keep) = LowBits(d, keep) BY <1>1, <1>4, MaskTwice
<1> QED BY <1>2, <1>3, <1>4, <1>5

\* feElement.SetBytes: eight bytes from an offset, for each limb.
LEMMA FieldUnpacks ==
  ASSUME NEW e \in SUBSET Nat
  PROVE  Holds("field", e, feSetBytes(e))
<1> DEFINE l == feSetBytes(e)
<1>0. /\ "field" \in Layouts /\ LimbBits("field") = 51 /\ LimbCount("field") = 5 /\ Kept("field") = 255
  BY DEF Layouts, LimbBits, LimbCount, Kept, Field, Wide
<1>1. l[1] = LowBits(Down(e, 0), 51)
  <2>1. LowBits(Down(LowBits(Down(e, 0), 64), 0), 51) = LowBits(Down(e, 0 + 0), 51) BY LoadSlice
  <2> QED BY <2>1 DEF feSetBytes
<1>2. l[2] = LowBits(Down(e, 51), 51)
  <2>1. LowBits(Down(LowBits(Down(e, 48), 64), 3), 51) = LowBits(Down(e, 48 + 3), 51) BY LoadSlice
  <2> QED BY <2>1 DEF feSetBytes
<1>3. l[3] = LowBits(Down(e, 102), 51)
  <2>1. LowBits(Down(LowBits(Down(e, 96), 64), 6), 51) = LowBits(Down(e, 96 + 6), 51) BY LoadSlice
  <2> QED BY <2>1 DEF feSetBytes
<1>4. l[4] = LowBits(Down(e, 153), 51)
  <2>1. LowBits(Down(LowBits(Down(e, 152), 64), 1), 51) = LowBits(Down(e, 152 + 1), 51) BY LoadSlice
  <2> QED BY <2>1 DEF feSetBytes
<1>5. l[5] = LowBits(Down(e, 204), 51)
  <2>1. LowBits(Down(LowBits(Down(e, 192), 64), 12), 51) = LowBits(Down(e, 192 + 12), 51) BY LoadSlice
  <2> QED BY <2>1 DEF feSetBytes
<1> HIDE DEF l
<1>6. ASSUME NEW i \in 1 .. 5 PROVE l[i] = LowBits(Down(e, 51 * (i - 1)), 51)
  BY <1>1, <1>2, <1>3, <1>4, <1>5
<1>7. ASSUME NEW i \in 1 .. 5, i # 5 PROVE l[i] = LimbOf("field", e, i)
  BY <1>0, <1>6, <1>7, InnerLimb
<1>8. l[5] = LimbOf("field", e, 5)
  <2>1. 204 = 51 * (5 - 1) /\ 204 + 51 = 255 OBVIOUS
  <2> QED BY <1>0, <1>5, <2>1, LastLimb
<1> QED BY <1>0, <1>7, <1>8 DEF Holds, l

\* The scalars whose loads are a table: every limb from its bytes.
LEMMA TableLoads ==
  ASSUME NEW lay \in Layouts \ Field, NEW e \in SUBSET (0 .. (Read(lay) - 1))
  PROVE  Holds(lay, e, LoadAll(e, LimbCount(lay)))
<1> DEFINE n == LimbCount(lay)
           l == LoadAll(e, n)
<1>1. /\ LimbBits(lay) = 21 /\ Kept(lay) = Read(lay) /\ lay \in Layouts
      /\ (n = 24 /\ Read(lay) = 512) \/ (n = 12 /\ Read(lay) = 256)
  BY DEF Layouts, LimbBits, LimbCount, Kept, Read, Field, Wide
<1>2. e \in SUBSET Nat BY <1>1
<1> SUFFICES ASSUME NEW i \in 1 .. n PROVE l[i] = LimbOf(lay, e, i)
  BY DEF Holds
<1>3. PICK bytes \in Nat, at \in Nat, right \in Nat :
        /\ Loads[i][1] = bytes /\ Loads[i][2] = at /\ Loads[i][3] = right
        /\ 8 * at + right = 21 * (i - 1) /\ 8 * bytes >= 21 + right
        /\ i = 24 => bytes = 4 /\ at = 60 /\ right = 3
        /\ i = 12 => bytes = 4 /\ at = 28 /\ right = 7
  <2>1. i \in 1 .. 24 BY <1>1
  <2>2. /\ Loads[i][1] \in Nat /\ Loads[i][2] \in Nat /\ Loads[i][3] \in Nat
        /\ 8 * Loads[i][2] + Loads[i][3] = 21 * (i - 1)
        /\ 8 * Loads[i][1] >= 21 + Loads[i][3]
        /\ i = 24 => Loads[i][1] = 4 /\ Loads[i][2] = 60 /\ Loads[i][3] = 3
        /\ i = 12 => Loads[i][1] = 4 /\ Loads[i][2] = 28 /\ Loads[i][3] = 7
    BY <2>1, LoadTable
  <2> QED BY ZenonT(60), <2>2
<1>4. PICK p \in Nat, q \in Nat : p = 8 * at /\ q = 8 * bytes OBVIOUS
<1>5. l[i] = IF i = n THEN Down(LowBits(Down(e, p), q), right)
             ELSE LowBits(Down(LowBits(Down(e, p), q), right), 21)
  BY <1>3, <1>4 DEF LoadAll, scalarLoad
<1>6. CASE i # n
  <2>1. LowBits(Down(LowBits(Down(e, p), q), right), 21) = LowBits(Down(e, p + right), 21)
    BY <1>2, <1>3, <1>4, LoadSlice
  <2>2. p + right = 21 * (i - 1) BY <1>3, <1>4
  <2>3. l[i] = LowBits(Down(e, LimbBits(lay) * (i - 1)), LimbBits(lay)) BY <1>1, <1>5, <1>6, <2>1, <2>2
  <2> QED BY <1>1, <1>2, <1>6, <2>3, InnerLimb
<1>7. CASE i = n
  <2>1. right \in 0 .. q BY <1>3, <1>4
  <2>2. Down(LowBits(Down(e, p), q), right) = LowBits(Down(e, p + right), q - right)
    BY <1>2, <2>1, LoadBits
  <2>3. PICK from \in Nat, width \in Nat : from = p + right /\ width = q - right BY <2>1
  <2>4. from = 21 * (i - 1) BY <1>3, <1>4, <2>3
  <2>5. (width = 29 /\ n = 24) \/ (width = 25 /\ n = 12) BY <1>1, <1>3, <1>4, <1>7, <2>3
  <2>6. from + width = Kept(lay) BY <1>1, <1>7, <2>4, <2>5
  <2>7. l[i] = LowBits(Down(e, from), width) BY <1>5, <1>7, <2>2, <2>3
  <2>8. from = LimbBits(lay) * (LimbCount(lay) - 1) BY <1>1, <1>7, <2>4
  <2> QED BY <1>1, <1>2, <1>7, <2>6, <2>7, <2>8, LastLimb
<1> QED BY <1>6, <1>7

\* The eight-lane reducer's loads, at offsets it computes.
LEMMA LaneLoads ==
  ASSUME NEW e \in SUBSET (0 .. 511)
  PROVE  Holds("lanes", e, laneLoads(e))
<1> DEFINE l == laneLoads(e)
<1>1. /\ LimbBits("lanes") = 21 /\ LimbCount("lanes") = 24 /\ Kept("lanes") = 512 /\ "lanes" \in Layouts
  BY DEF Layouts, LimbBits, LimbCount, Kept, Read, Field, Wide
<1>2. e \in SUBSET Nat OBVIOUS
<1> SUFFICES ASSUME NEW i \in 1 .. 24 PROVE l[i] = LimbOf("lanes", e, i)
  BY <1>1 DEF Holds
<1>3. CASE i # 24
  <2>1. PICK at \in Nat, right \in 0 .. 7 :
          at = (21 * (i - 1)) \div 8 /\ right = (21 * (i - 1)) % 8 /\ 8 * at + right = 21 * (i - 1)
    OBVIOUS
  <2>2. PICK p \in Nat : p = 8 * at OBVIOUS
  <2>3. l[i] = LowBits(Down(LowBits(Down(e, p), 32), right), 21)
    BY <1>3, <2>1, <2>2 DEF laneLoads, scalarLoad
  <2>4. LowBits(Down(LowBits(Down(e, p), 32), right), 21) = LowBits(Down(e, p + right), 21)
    BY <1>2, LoadSlice
  <2>5. p + right = 21 * (i - 1) BY <2>1, <2>2
  <2>6. l[i] = LowBits(Down(e, LimbBits("lanes") * (i - 1)), LimbBits("lanes")) BY <1>1, <2>3, <2>4, <2>5
  <2> QED BY <1>1, <1>2, <1>3, <2>6, InnerLimb
<1>4. CASE i = 24
  <2>1. Down(LowBits(Down(e, 480), 32), 3) = LowBits(Down(e, 480 + 3), 32 - 3) BY <1>2, LoadBits
  <2>2. l[i] = LowBits(Down(e, 483), 29) BY <1>4, <2>1 DEF laneLoads, scalarLoad
  <2>3. 483 = 21 * (24 - 1) /\ 483 + 29 = 512 OBVIOUS
  <2> QED BY <1>1, <1>2, <1>4, <2>2, <2>3, LastLimb
<1> QED BY <1>3, <1>4

-----------------------------------------------------------------------------
\* The bits of a limb below the last, and of the last.
LimbBitsAre(lay, e, l, j, at) ==
  /\ l[j] \in SUBSET Nat
  /\ \A b \in Nat :
       b \in l[j] <=> (j # LimbCount(lay) => b < LimbBits(lay)) /\ b + at < Kept(lay) /\ b + at \in e
LEMMA LimbBitsOf ==
  ASSUME NEW lay \in Layouts, NEW e \in SUBSET Nat, NEW l, Holds(lay, e, l),
         NEW j \in 1 .. LimbCount(lay), NEW at \in Nat, at = LimbBits(lay) * (j - 1)
  PROVE  LimbBitsAre(lay, e, l, j, at)
<1>1. PICK n \in Nat, width \in Nat : n = Kept(lay) /\ width = LimbBits(lay)
  BY DEF Kept, Read, LimbBits
<1>2. PICK d \in SUBSET Nat : d = LowBits(e, n) BY LowBitsBits
<1>3. \A b \in Nat : b \in d <=> b \in e /\ b < n BY <1>2, LowBitsBits
<1>4. l[j] = IF j = LimbCount(lay) THEN Down(d, at) ELSE LowBits(Down(d, at), width)
  BY <1>1, <1>2 DEF Holds, LimbOf
<1>5. Down(d, at) \in SUBSET Nat /\ \A b \in Nat : b \in Down(d, at) <=> b + at \in d BY DownBits
<1>6. /\ LowBits(Down(d, at), width) \in SUBSET Nat
      /\ \A b \in Nat : b \in LowBits(Down(d, at), width) <=> b < width /\ b + at \in d
  <2>1. PICK r \in SUBSET Nat : r = Down(d, at) BY <1>5
  <2>2. LowBits(r, width) \in SUBSET Nat /\ \A b \in Nat : b \in LowBits(r, width) <=> b \in r /\ b < width
    BY LowBitsBits
  <2> QED BY <1>5, <2>1, <2>2
<1>7. ASSUME NEW b \in Nat PROVE b + at \in d <=> b + at \in e /\ b + at < n
  <2>1. b + at \in Nat OBVIOUS
  <2> QED BY <1>3, <2>1
<1>8. CASE j = LimbCount(lay) BY <1>1, <1>4, <1>5, <1>7, <1>8 DEF LimbBitsAre
<1>9. CASE j # LimbCount(lay) BY <1>1, <1>4, <1>6, <1>7, <1>9 DEF LimbBitsAre
<1> QED BY <1>8, <1>9

\* A string of bits is in a limb of n bits from a place on.
LimbFrom(s, f, n, at) == s \in SUBSET Nat /\ \A b \in Nat : b \in s <=> b < n /\ b + at \in f
WordFrom(s, f, at) == \A b \in 0 .. 63 : b \in s <=> b + at \in f

\* The limbs of a field element are the pieces of its 255 bits.
LEMMA FieldLimbsFrom ==
  ASSUME NEW lay \in Field, NEW e \in SUBSET Nat, NEW l, Holds(lay, e, l), NEW j \in 1 .. LimbCount(lay)
  PROVE  LimbFrom(l[j], LowBits(e, 255), LimbBits(lay), LimbBits(lay) * (j - 1))
<1>1. PICK at \in Nat, n \in Nat : n = LimbBits(lay) /\ at = LimbBits(lay) * (j - 1) /\ (j = LimbCount(lay) => at + n >= 255)
  BY DEF LimbBits, LimbCount, Field
<1>2. lay \in Layouts /\ Kept(lay) = 255 BY DEF Layouts, Kept, Field
<1>3. /\ l[j] \in SUBSET Nat
      /\ \A b \in Nat :
           b \in l[j] <=> (j # LimbCount(lay) => b < LimbBits(lay)) /\ b + at < Kept(lay) /\ b + at \in e
  <2>1. LimbBitsAre(lay, e, l, j, at) BY <1>1, <1>2, LimbBitsOf
  <2> QED BY <2>1 DEF LimbBitsAre
<1>4. \A b \in Nat : b \in LowBits(e, 255) <=> b \in e /\ b < 255 BY LowBitsBits
<1>5. ASSUME NEW b \in Nat PROVE b \in l[j] <=> b < n /\ b + at \in LowBits(e, 255)
  <2>1. b + at \in Nat OBVIOUS
  <2>2. b + at \in LowBits(e, 255) <=> b + at \in e /\ b + at < 255 BY <1>4, <2>1
  <2>3. b \in l[j] <=> (j # LimbCount(lay) => b < n) /\ b + at < 255 /\ b + at \in e BY <1>1, <1>2, <1>3
  <2>4. j = LimbCount(lay) /\ b + at < 255 => b < n BY <1>1
  <2> QED BY <2>2, <2>3, <2>4
<1> QED BY <1>1, <1>3, <1>5 DEF LimbFrom

\* A word of two limbs: the rest of one, shifted right, and the next, shifted left.
Joined(n, at, right, left, to) ==
  /\ n \in Nat /\ at \in Nat /\ right \in Nat /\ left \in Nat /\ to \in Nat
  /\ right + left = n /\ to = at + right /\ left <= 64
  /\ left + n >= 64 \/ to + left + n >= 255
LEMMA JoinedWord ==
  ASSUME NEW f \in SUBSET (0 .. 254), NEW n, NEW at, NEW right, NEW left, NEW to,
         Joined(n, at, right, left, to),
         NEW s, LimbFrom(s, f, n, at), NEW u, LimbFrom(u, f, n, at + n)
  PROVE  WordFrom(Down(s, right) \cup Up(u, left, 64), f, to)
<1> USE DEF Joined
<1>1. s \in SUBSET Nat /\ u \in SUBSET Nat /\ n \in Nat /\ right \in Nat /\ left \in Nat BY DEF LimbFrom
<1>2. \A b \in Nat : b \in Down(s, right) <=> b + right \in s BY <1>1, DownBits
<1>3. \A b \in Nat : b \in Up(u, left, 64) <=> b < 64 /\ b >= left /\ b - left \in u BY <1>1, UpBits
<1> SUFFICES ASSUME NEW b \in 0 .. 63
             PROVE  b \in Down(s, right) \cup Up(u, left, 64) <=> b + to \in f
  BY DEF WordFrom
<1>4. b + right \in s <=> b + right < n /\ b + right + at \in f BY DEF LimbFrom
<1>5. CASE b < left
  <2>1. b + right < n /\ b + right + at = b + to BY <1>5
  <2> QED BY <1>2, <1>3, <1>4, <1>5, <2>1
<1>6. CASE ~(b < left)
  <2>1. b - left \in Nat BY <1>6
  <2>2. b - left \in u <=> b - left < n /\ (b - left) + (at + n) \in f BY <2>1 DEF LimbFrom
  <2>3. (b - left) + (at + n) = b + to /\ ~(b + right < n) BY <1>6
  <2>4. b + to \in f => b - left < n BY <1>6
  <2> QED BY SMTT(30), <1>2, <1>3, <1>4, <1>6, <2>2, <2>3, <2>4
<1> QED BY <1>5, <1>6

\* The first word starts with the whole first limb.
LEMMA FirstWord ==
  ASSUME NEW f \in SUBSET (0 .. 254), NEW n \in 32 .. 64,
         NEW s, LimbFrom(s, f, n, 0), NEW u, LimbFrom(u, f, n, n)
  PROVE  WordFrom(s \cup Up(u, n, 64), f, 0)
<1>1. Joined(n, 0, 0, n, 0) BY DEF Joined
<1>2. LimbFrom(u, f, n, 0 + n) OBVIOUS
<1>3. WordFrom(Down(s, 0) \cup Up(u, n, 64), f, 0) BY <1>1, <1>2, JoinedWord
<1>4. s \in SUBSET Nat BY DEF LimbFrom
<1>6. Down(s, 0) = s BY <1>4, DownNone
<1> QED BY <1>3, <1>6

\* Four words that follow one another make the string.
LEMMA WordsJoin ==
  ASSUME NEW f \in SUBSET (0 .. 254), NEW w,
         WordFrom(w[1], f, 0), WordFrom(w[2], f, 64), WordFrom(w[3], f, 128), WordFrom(w[4], f, 192)
  PROVE  WordsOf(w) = f
<1>1. ASSUME NEW i \in 1 .. 4, NEW b \in 0 .. 63 PROVE b \in w[i] <=> b + 64 * (i - 1) \in f
  BY <1>1 DEF WordFrom
<1>2. ASSUME NEW q \in WordsOf(w) PROVE q \in f
  <2>1. PICK i \in 1 .. 4 : \E b \in LowBits(w[i], 64) : q = b + 64 * (i - 1) BY DEF WordsOf
  <2>2. PICK b \in LowBits(w[i], 64) : q = b + 64 * (i - 1) BY <2>1
  <2>3. b \in 0 .. 63 /\ b \in w[i] BY DEF LowBits
  <2> QED BY <1>1, <2>2, <2>3
<1>3. ASSUME NEW q \in f PROVE q \in WordsOf(w)
  <2>1. PICK i \in 1 .. 4, b \in 0 .. 63 : q = b + 64 * (i - 1)
    <3>1. PICK i \in 1 .. 4 : 64 * (i - 1) <= q /\ q < 64 * (i - 1) + 64 OBVIOUS
    <3>2. q - 64 * (i - 1) \in 0 .. 63 BY <3>1
    <3> QED BY <3>2
  <2>2. b \in w[i] BY <1>1, <2>1
  <2>3. b \in LowBits(w[i], 64) BY <2>2 DEF LowBits
  <2> QED BY <2>1, <2>3 DEF WordsOf
<1> QED BY <1>2, <1>3

\* Five limbs of 51 bits, as the r51 code packs them.
LEMMA R51Packs ==
  ASSUME NEW f \in SUBSET (0 .. 254), NEW l,
         \A j \in 1 .. 5 : LimbFrom(l[j], f, 51, 51 * (j - 1))
  PROVE  r51Bytes(l) = f
<1>1. /\ LimbFrom(l[1], f, 51, 0) /\ LimbFrom(l[2], f, 51, 51) /\ LimbFrom(l[3], f, 51, 51 + 51)
      /\ LimbFrom(l[2], f, 51, 0 + 51)
      /\ LimbFrom(l[3], f, 51, 102) /\ LimbFrom(l[4], f, 51, 102 + 51)
      /\ LimbFrom(l[4], f, 51, 153) /\ LimbFrom(l[5], f, 51, 153 + 51)
  <2>1. \A j \in 1 .. 5, at \in Nat : at = 51 * (j - 1) => LimbFrom(l[j], f, 51, at) OBVIOUS
  <2> QED BY <2>1
<1>2. WordFrom(l[1] \cup Up(l[2], 51, 64), f, 0)
  <2>1. 51 \in 32 .. 64 OBVIOUS
  <2> QED BY <1>1, <2>1, FirstWord, Zenon
<1>3. WordFrom(Down(l[2], 13) \cup Up(l[3], 38, 64), f, 64)
  <2>1. Joined(51, 51, 13, 38, 64) BY DEF Joined
  <2>2. LimbFrom(l[2], f, 51, 51) /\ LimbFrom(l[3], f, 51, 51 + 51) BY <1>1
  <2> QED BY ZenonT(60), <2>1, <2>2, JoinedWord
<1>4. WordFrom(Down(l[3], 26) \cup Up(l[4], 25, 64), f, 128)
  <2>1. Joined(51, 102, 26, 25, 128) BY DEF Joined
  <2>2. LimbFrom(l[3], f, 51, 102) /\ LimbFrom(l[4], f, 51, 102 + 51) BY <1>1
  <2> QED BY ZenonT(60), <2>1, <2>2, JoinedWord
<1>5. WordFrom(Down(l[4], 39) \cup Up(l[5], 12, 64), f, 192)
  <2>1. Joined(51, 153, 39, 12, 192) BY DEF Joined
  <2>2. LimbFrom(l[4], f, 51, 153) /\ LimbFrom(l[5], f, 51, 153 + 51) BY <1>1
  <2> QED BY ZenonT(60), <2>1, <2>2, JoinedWord
<1> DEFINE w == <<l[1] \cup Up(l[2], 51, 64), Down(l[2], 13) \cup Up(l[3], 38, 64),
                 Down(l[3], 26) \cup Up(l[4], 25, 64), Down(l[4], 39) \cup Up(l[5], 12, 64)>>
<1>6. WordFrom(w[1], f, 0) /\ WordFrom(w[2], f, 64) /\ WordFrom(w[3], f, 128) /\ WordFrom(w[4], f, 192)
  BY <1>2, <1>3, <1>4, <1>5
<1> HIDE DEF w
<1>7. WordsOf(w) = f BY <1>6, WordsJoin
<1> QED BY <1>7 DEF r51Bytes, w

\* The vendored code joins the same limbs, in the other order.
LEMMA FieldPacks ==
  ASSUME NEW l
  PROVE  feBytes(l) = r51Bytes(l)
<1>1. /\ Up(l[2], 51, 64) \cup l[1] = l[1] \cup Up(l[2], 51, 64)
      /\ Up(l[3], 38, 64) \cup Down(l[2], 13) = Down(l[2], 13) \cup Up(l[3], 38, 64)
      /\ Up(l[4], 25, 64) \cup Down(l[3], 26) = Down(l[3], 26) \cup Up(l[4], 25, 64)
      /\ Up(l[5], 12, 64) \cup Down(l[4], 39) = Down(l[4], 39) \cup Up(l[5], 12, 64)
  BY Zenon
<1>2. 102 - 64 = 38 /\ 64 - 51 = 13 /\ 153 - 128 = 25 /\ 128 - 102 = 26 /\ 204 - 192 = 12 /\ 192 - 153 = 39
  OBVIOUS
<1> QED BY ZenonT(60), <1>1, <1>2 DEF feBytes, r51Bytes

\* Six limbs of 43 bits: one word takes bits of three.
LEMMA R43Packs ==
  ASSUME NEW f \in SUBSET (0 .. 254), NEW l,
         \A j \in 1 .. 6 : LimbFrom(l[j], f, 43, 43 * (j - 1))
  PROVE  r43Bytes(l) = f
<1>1. /\ LimbFrom(l[1], f, 43, 0) /\ LimbFrom(l[2], f, 43, 43) /\ LimbFrom(l[3], f, 43, 43 + 43)
      /\ LimbFrom(l[3], f, 43, 86) /\ LimbFrom(l[4], f, 43, 129)
      /\ LimbFrom(l[5], f, 43, 172) /\ LimbFrom(l[6], f, 43, 172 + 43)
  <2>1. \A j \in 1 .. 6, at \in Nat : at = 43 * (j - 1) => LimbFrom(l[j], f, 43, at) OBVIOUS
  <2> QED BY <2>1
<1>2. WordFrom(l[1] \cup Up(l[2], 43, 64), f, 0)
  <2>1. 43 \in 32 .. 64 OBVIOUS
  <2> QED BY <1>1, <2>1, FirstWord, Zenon
<1>3. WordFrom(Down(l[2], 21) \cup Up(l[3], 22, 64), f, 64)
  <2>1. Joined(43, 43, 21, 22, 64) BY DEF Joined
  <2>2. LimbFrom(l[2], f, 43, 43) /\ LimbFrom(l[3], f, 43, 43 + 43) BY <1>1
  <2> QED BY ZenonT(60), <2>1, <2>2, JoinedWord
<1>4. WordFrom(Down(l[3], 42) \cup Up(l[4], 1, 64) \cup Up(l[5], 44, 64), f, 128)
  <2>1. /\ \A b \in Nat : b \in l[3] <=> b < 43 /\ b + 86 \in f
        /\ \A b \in Nat : b \in l[4] <=> b < 43 /\ b + 129 \in f
        /\ \A b \in Nat : b \in l[5] <=> b < 43 /\ b + 172 \in f
        /\ l[3] \in SUBSET Nat /\ l[4] \in SUBSET Nat /\ l[5] \in SUBSET Nat
    BY <1>1 DEF LimbFrom
  <2>2. PICK s3 \in SUBSET Nat, s4 \in SUBSET Nat, s5 \in SUBSET Nat : s3 = l[3] /\ s4 = l[4] /\ s5 = l[5]
    BY <2>1
  <2>3. \A b \in Nat : b \in Down(s3, 42) <=> b + 42 \in s3 BY DownBits
  <2>4. \A b \in Nat : b \in Up(s4, 1, 64) <=> b < 64 /\ b >= 1 /\ b - 1 \in s4 BY UpBits
  <2>5. \A b \in Nat : b \in Up(s5, 44, 64) <=> b < 64 /\ b >= 44 /\ b - 44 \in s5 BY UpBits
  <2>6. ASSUME NEW b \in 0 .. 63
        PROVE  b \in Down(s3, 42) \cup Up(s4, 1, 64) \cup Up(s5, 44, 64) <=> b + 128 \in f
    <3>1. CASE b = 0
      <4>1. b + 42 < 43 /\ b + 42 \in Nat /\ (b + 42) + 86 = b + 128 BY <3>1
      <4> QED BY <2>1, <2>2, <2>3, <2>4, <2>5, <3>1, <4>1
    <3>2. CASE b \in 1 .. 43
      <4>1. ~(b + 42 < 43) /\ b + 42 \in Nat /\ b - 1 \in Nat /\ b - 1 < 43 /\ (b - 1) + 129 = b + 128 BY <3>2
      <4>2. b \notin Down(s3, 42) BY <2>1, <2>2, <2>3, <4>1
      <4>3. b \notin Up(s5, 44, 64) BY <2>5, <3>2
      <4>4. b \in Up(s4, 1, 64) <=> b - 1 \in s4 BY <2>4, <3>2
      <4>5. b - 1 \in s4 <=> b + 128 \in f BY <2>1, <2>2, <4>1
      <4> QED BY <4>2, <4>3, <4>4, <4>5
    <3>3. CASE b \in 44 .. 63
      <4>1. /\ ~(b + 42 < 43) /\ b + 42 \in Nat /\ b - 1 \in Nat /\ ~(b - 1 < 43)
            /\ b - 44 \in Nat /\ b - 44 < 43 /\ (b - 44) + 172 = b + 128
        BY <3>3
      <4> QED BY <2>1, <2>2, <2>3, <2>4, <2>5, <3>3, <4>1
    <3> QED BY <3>1, <3>2, <3>3
  <2> QED BY <2>2, <2>6 DEF WordFrom
<1>5. WordFrom(Down(l[5], 20) \cup Up(l[6], 23, 64), f, 192)
  <2>1. Joined(43, 172, 20, 23, 192) BY DEF Joined
  <2>2. LimbFrom(l[5], f, 43, 172) /\ LimbFrom(l[6], f, 43, 172 + 43) BY <1>1
  <2> QED BY ZenonT(60), <2>1, <2>2, JoinedWord
<1> DEFINE w == <<l[1] \cup Up(l[2], 43, 64), Down(l[2], 21) \cup Up(l[3], 22, 64),
                 Down(l[3], 42) \cup Up(l[4], 1, 64) \cup Up(l[5], 44, 64), Down(l[5], 20) \cup Up(l[6], 23, 64)>>
<1>6. WordFrom(w[1], f, 0) /\ WordFrom(w[2], f, 64) /\ WordFrom(w[3], f, 128) /\ WordFrom(w[4], f, 192)
  BY <1>2, <1>3, <1>4, <1>5
<1> HIDE DEF w
<1>7. WordsOf(w) = f BY <1>6, WordsJoin
<1> QED BY <1>7 DEF r43Bytes, w

\* A byte of a scalar: its bits are those of the string, below bit 252.
LEMMA StoredByte ==
  ASSUME NEW lay \in Layouts \ Field, NEW e \in SUBSET (0 .. (Read(lay) - 1)), NEW l, Holds(lay, e, l),
         NEW i \in 1 .. 32, NEW b \in 0 .. 7, b + 8 * (i - 1) < 252
  PROVE  b \in StoreByte(l, i) <=> b + 8 * (i - 1) \in e
<1>1. /\ LimbBits(lay) = 21 /\ Kept(lay) = Read(lay) /\ lay \in Layouts /\ LimbCount(lay) \in {12, 24}
      /\ Read(lay) \in {256, 512}
  BY DEF Layouts, LimbBits, LimbCount, Kept, Read, Field, Wide
<1>2. PICK j \in 1 .. 12, right \in 0 .. 20, left \in 0 .. 7 :
        /\ Stores[i][1] = j /\ Stores[i][2] = right /\ Stores[i][3] = left
        /\ 21 * (j - 1) + right = 8 * (i - 1)
        /\ left = 0 => right + 8 <= 21 \/ j = 12
        /\ left # 0 => j < 12 /\ right + left = 21
  <2>1. /\ Stores[i][1] \in 1 .. 12 /\ Stores[i][2] \in 0 .. 20 /\ Stores[i][3] \in 0 .. 7
        /\ 21 * (Stores[i][1] - 1) + Stores[i][2] = 8 * (i - 1)
        /\ Stores[i][3] = 0 => Stores[i][2] + 8 <= 21 \/ Stores[i][1] = 12
        /\ Stores[i][3] # 0 => Stores[i][1] < 12 /\ Stores[i][2] + Stores[i][3] = 21
    BY StoreTable
  <2> QED BY <2>1
<1>3. PICK at \in Nat : at = 21 * (j - 1) OBVIOUS
<1>4. PICK q \in Nat : q = b + 8 * (i - 1) OBVIOUS
<1>5. q = at + right + b /\ q < 252 BY <1>2, <1>3, <1>4
<1>6. /\ l[j] \in SUBSET Nat
      /\ \A c \in Nat : c \in l[j] <=> (j # LimbCount(lay) => c < 21) /\ c + at < Kept(lay) /\ c + at \in e
  <2>1. LimbBitsAre(lay, e, l, j, at) BY <1>1, <1>3, LimbBitsOf
  <2> QED BY <1>1, <2>1 DEF LimbBitsAre
<1>7. PICK s \in SUBSET Nat : s = l[j] BY <1>6
<1>8. \A c \in Nat : c \in Down(s, right) <=> c + right \in s BY DownBits
<1>9. b + right \in s <=> (j # LimbCount(lay) => b + right < 21) /\ q \in e
  <2>1. (b + right) + at = q /\ b + right \in Nat /\ q < Kept(lay) BY <1>1, <1>5
  <2> QED BY <1>6, <1>7, <2>1
<1>10. CASE left = 0
  <2>1. b \in StoreByte(l, i) <=> b \in Down(s, right) BY <1>2, <1>7, <1>10 DEF StoreByte, LowBits
  <2>2. j # LimbCount(lay) => b + right < 21
    BY <1>1, <1>2, <1>3, <1>5, <1>10
  <2> QED BY <1>4, <1>8, <1>9, <2>1, <2>2
<1>11. CASE left # 0
  <2>1. j + 1 \in 1 .. 12 /\ j # LimbCount(lay) /\ j + 1 \in 1 .. LimbCount(lay) BY <1>1, <1>2, <1>11
  <2>2. PICK k \in 1 .. 12 : k = j + 1 BY <2>1
  <2>3. PICK to \in Nat : to = 21 * (k - 1) OBVIOUS
  <2>4. /\ l[k] \in SUBSET Nat
        /\ \A c \in Nat : c \in l[k] <=> (k # LimbCount(lay) => c < 21) /\ c + to < Kept(lay) /\ c + to \in e
    <3>1. LimbBitsAre(lay, e, l, k, to) BY <1>1, <2>1, <2>2, <2>3, LimbBitsOf
    <3> QED BY <1>1, <3>1 DEF LimbBitsAre
  <2>5. PICK u \in SUBSET Nat : u = l[k] BY <2>4
  <2>6. \A c \in Nat : c \in Up(u, left, 64) <=> c < 64 /\ c >= left /\ c - left \in u BY UpBits
  <2>7. b \in StoreByte(l, i) <=> b \in Down(s, right) \/ b \in Up(u, left, 64)
    BY <1>2, <1>7, <1>11, <2>2, <2>5 DEF StoreByte, LowBits
  <2>8. CASE b < left
    <3>1. b + right < 21 BY <1>2, <1>11, <2>8
    <3> QED BY <1>4, <1>8, <1>9, <2>6, <2>7, <2>8, <3>1
  <2>9. CASE ~(b < left)
    <3>1. ~(b + right < 21) /\ b - left \in Nat /\ b - left < 21 /\ (b - left) + to = q
      BY <1>2, <1>3, <1>5, <1>11, <2>2, <2>3, <2>9
    <3>2. b - left \in u <=> q \in e BY <1>1, <1>5, <2>4, <2>5, <3>1
    <3> QED BY <1>4, <1>8, <1>9, <2>1, <2>6, <2>7, <2>9, <3>1, <3>2
  <2> QED BY <2>8, <2>9
<1> QED BY <1>10, <1>11

\* The stores of a scalar give back its low 252 bits.
LEMMA StoresExact ==
  ASSUME NEW lay \in Layouts \ Field, NEW e \in SUBSET (0 .. (Read(lay) - 1)), NEW l, Holds(lay, e, l)
  PROVE  LowBits(StoreAll(l), 252) = LowBits(e, 252)
<1>1. ASSUME NEW q \in LowBits(StoreAll(l), 252) PROVE q \in LowBits(e, 252)
  <2>1. q \in 0 .. 251 /\ q \in StoreAll(l) BY DEF LowBits
  <2>2. PICK i \in 1 .. 32 : \E b \in StoreByte(l, i) : q = b + 8 * (i - 1) BY <2>1 DEF StoreAll
  <2>3. PICK b \in StoreByte(l, i) : q = b + 8 * (i - 1) BY <2>2
  <2>4. b \in 0 .. 7 BY DEF StoreByte, LowBits
  <2> QED BY <2>1, <2>3, <2>4, StoredByte, SMTT(30) DEF LowBits
<1>2. ASSUME NEW q \in LowBits(e, 252) PROVE q \in LowBits(StoreAll(l), 252)
  <2>1. q \in 0 .. 251 /\ q \in e BY DEF LowBits
  <2>2. PICK i \in 1 .. 32 : 8 * (i - 1) <= q /\ q < 8 * (i - 1) + 8 BY <2>1
  <2>3. PICK b \in 0 .. 7 : q = b + 8 * (i - 1)
    <3>1. q - 8 * (i - 1) \in 0 .. 7 BY <2>1, <2>2
    <3> QED BY <2>1, <3>1
  <2>4. b \in StoreByte(l, i) BY <2>1, <2>3, StoredByte
  <2> QED BY <2>1, <2>3, <2>4 DEF StoreAll, LowBits
<1> QED BY <1>1, <1>2

\* What Unpack stores, for each layout.
LEMMA UnpackHolds ==
  ASSUME NEW lay \in Layouts, NEW e \in SUBSET (0 .. (Read(lay) - 1)), NEW l,
         l = CASE lay = "r51" -> r51UnpackLow255(e)
               [] lay = "r43" -> r43UnpackLow255(e)
               [] lay = "field" -> feSetBytes(e)
               [] lay = "uniform" -> uniformLoads(e)
               [] lay = "lanes" -> laneLoads(e)
               [] lay = "scReduce" -> scReduceLoads(e)
               [] lay = "scMulAdd" -> scMulAddLoads(e)
  PROVE  Holds(lay, e, l)
<1>1. Read(lay) \in Nat /\ e \in SUBSET Nat BY DEF Read
<1>2. CASE lay = "r51" BY <1>1, <1>2, R51Unpacks
<1>3. CASE lay = "r43" BY <1>1, <1>3, R43Unpacks
<1>4. CASE lay = "field" BY <1>1, <1>4, FieldUnpacks
<1>5. CASE lay = "uniform"
  <2>1. lay \in Layouts \ Field /\ LimbCount(lay) = 24 BY <1>5 DEF Layouts, Field, Wide, LimbCount
  <2>2. l = LoadAll(e, 24) BY <1>5 DEF uniformLoads
  <2> QED BY <2>1, <2>2, TableLoads
<1>6. CASE lay = "lanes"
  <2>1. e \in SUBSET (0 .. 511) BY <1>6 DEF Read, Wide
  <2>2. l = laneLoads(e) BY <1>6
  <2> QED BY <1>6, <2>1, <2>2, LaneLoads
<1>7. CASE lay = "scReduce"
  <2>1. lay \in Layouts \ Field /\ LimbCount(lay) = 24 BY <1>7 DEF Layouts, Field, Wide, LimbCount
  <2>2. l = LoadAll(e, 24) BY <1>7 DEF scReduceLoads
  <2> QED BY <2>1, <2>2, TableLoads
<1>8. CASE lay = "scMulAdd"
  <2>1. lay \in Layouts \ Field /\ LimbCount(lay) = 12 BY <1>8 DEF Layouts, Field, Wide, LimbCount
  <2>2. l = LoadAll(e, 12) BY <1>8 DEF scMulAddLoads
  <2> QED BY <2>1, <2>2, TableLoads
<1> QED BY <1>2, <1>3, <1>4, <1>5, <1>6, <1>7, <1>8 DEF Layouts

\* What Pack stores, for each layout.
Restored(lay, e, p) ==
  IF lay \in Field THEN p = LowBits(e, 255) ELSE LowBits(p, 252) = LowBits(e, 252)
LEMMA PackHolds ==
  ASSUME NEW lay \in Layouts, NEW e \in SUBSET (0 .. (Read(lay) - 1)), NEW l, Holds(lay, e, l), NEW p,
         p = CASE lay = "r51" -> r51Bytes(l)
               [] lay = "r43" -> r43Bytes(l)
               [] lay = "field" -> feBytes(l)
               [] lay = "uniform" -> uniformStores(l)
               [] lay = "lanes" -> storeScalarRadix21Lane(l)
               [] lay = "scReduce" -> scReduceStores(l)
               [] lay = "scMulAdd" -> scMulAddStores(l)
  PROVE  Restored(lay, e, p)
<1>1. Read(lay) \in Nat /\ e \in SUBSET Nat BY DEF Read
<1>2. LowBits(e, 255) \in SUBSET (0 .. 254) BY DEF LowBits
<1>3. CASE lay = "r51" \/ lay = "field"
  <2>1. lay \in Field /\ LimbBits(lay) = 51 /\ LimbCount(lay) = 5 BY <1>3 DEF Field, LimbBits, LimbCount
  <2>2. \A j \in 1 .. 5 : LimbFrom(l[j], LowBits(e, 255), 51, 51 * (j - 1)) BY <1>1, <2>1, FieldLimbsFrom
  <2>3. r51Bytes(l) = LowBits(e, 255) BY <1>2, <2>2, R51Packs
  <2>4. p = r51Bytes(l) BY <1>3, FieldPacks
  <2> QED BY <2>1, <2>3, <2>4 DEF Restored
<1>4. CASE lay = "r43"
  <2>1. lay \in Field /\ LimbBits(lay) = 43 /\ LimbCount(lay) = 6 BY <1>4 DEF Field, LimbBits, LimbCount
  <2>2. \A j \in 1 .. 6 : LimbFrom(l[j], LowBits(e, 255), 43, 43 * (j - 1)) BY <1>1, <2>1, FieldLimbsFrom
  <2>3. r43Bytes(l) = LowBits(e, 255) BY <1>2, <2>2, R43Packs
  <2> QED BY <1>4, <2>1, <2>3 DEF Restored
<1>5. CASE lay \in {"uniform", "lanes", "scReduce", "scMulAdd"}
  <2>1. lay \in Layouts \ Field BY <1>5 DEF Layouts, Field
  <2>2. p = StoreAll(l)
    BY <1>5 DEF uniformStores, storeScalarRadix21Lane, scReduceStores, scMulAddStores
  <2>3. LowBits(StoreAll(l), 252) = LowBits(e, 252) BY <2>1, StoresExact
  <2> QED BY <2>1, <2>2, <2>3 DEF Restored
<1> QED BY <1>3, <1>4, <1>5 DEF Layouts

\* Between the steps: an encoding no longer than its layout reads, nothing
\* packed before the limbs are there, and both of them exact.
PackInvariant ==
  /\ layout \in Layouts /\ in \in SUBSET (0 .. (Read(layout) - 1))
  /\ limbs = <<>> => packed = {}
  /\ PackingExact

\* Each bit of an encoding reaches the one limb and position of its weight
\* and comes back, whatever string is loaded, through every table of loads,
\* shifts, masks and stores: r51x5/element.go, r43x6, edwards25519/field and
\* the scalar loads and stores.
THEOREM PackingAlwaysExact == PackSpec => []PackingExact
<1>1. PackInit => PackInvariant
  <2> SUFFICES ASSUME PackInit PROVE PackInvariant OBVIOUS
  <2>1. in \in SUBSET (0 .. (Read(layout) - 1)) BY DEF PackInit, LowBits
  <2> QED BY <2>1 DEF PackInit, PackInvariant, PackingExact, UnpackExact, PackExact
<1>2. PackInvariant /\ [PackNext]_packVars => PackInvariant'
  <2> SUFFICES ASSUME PackInvariant, [PackNext]_packVars PROVE PackInvariant' OBVIOUS
  <2>1. CASE Unpack
    <3>1. limbs = <<>> /\ packed = {} /\ layout' = layout /\ in' = in /\ packed' = {}
      BY <2>1 DEF Unpack, PackInvariant
    <3>2. Holds(layout, in, limbs')
      BY <2>1, UnpackHolds DEF Unpack, PackInvariant
    <3>3. UnpackExact' BY <3>1, <3>2 DEF UnpackExact, Holds, LimbOf
    <3> QED BY <3>1, <3>3 DEF PackInvariant, PackingExact, PackExact
  <2>2. CASE Pack
    <3>1. limbs # <<>> /\ layout' = layout /\ in' = in /\ limbs' = limbs BY <2>2 DEF Pack
    <3>2. Holds(layout, in, limbs)
      BY <3>1 DEF PackInvariant, PackingExact, UnpackExact, Holds, LimbOf
    <3>3. layout \in Layouts /\ in \in SUBSET (0 .. (Read(layout) - 1)) BY DEF PackInvariant
    <3>4. Restored(layout, in, packed') BY <2>2, <3>2, <3>3, PackHolds, Zenon DEF Pack
    <3>5. PackExact' BY <3>1, <3>4 DEF PackExact, Restored
    <3>6. UnpackExact' BY <3>1 DEF UnpackExact, PackInvariant, PackingExact
    <3> QED BY <3>1, <3>5, <3>6 DEF PackInvariant, PackingExact
  <2>3. CASE UNCHANGED packVars
    BY <2>3 DEF packVars, PackInvariant, PackingExact, UnpackExact, PackExact
  <2> QED BY <2>1, <2>2, <2>3 DEF PackNext
<1>3. PackInvariant => PackingExact BY DEF PackInvariant
<1> QED BY <1>1, <1>2, <1>3, PTL DEF PackSpec

-----------------------------------------------------------------------------
\* ChainProducts and differences.

\* (x + y) mod P.
Plus(x, y) == (x + y) % P

\* A sum of remainders.
LEMMA ModPlus ==
  ASSUME NEW a \in Nat, NEW b \in Nat, NEW p \in Nat \ {0}
  PROVE  ((a % p) + (b % p)) % p = (a + b) % p
<1>1. PICK q \in Nat, r \in 0 .. p - 1 : a = q * p + r
  BY DivExists
<1>2. PICK t \in Nat, s \in 0 .. p - 1 : b = t * p + s
  BY DivExists
<1>3. a % p = r /\ b % p = s
  BY <1>1, <1>2, DivUnique
<1>4. PICK k \in {0, 1}, o \in 0 .. p - 1 : r + s = k * p + o
  <2>1. CASE r + s < p
    <3>1. r + s = 0 * p + (r + s) /\ r + s \in 0 .. p - 1
      BY <2>1
    <3> QED BY <3>1
  <2>2. CASE ~(r + s < p)
    <3>1. r + s = 1 * p + (r + s - p) /\ r + s - p \in 0 .. p - 1
      BY <2>2
    <3> QED BY <3>1
  <2> QED BY <2>1, <2>2, Zenon
<1>5. (r + s) % p = o
  <2>1. r + s \in Nat /\ k \in Nat
    OBVIOUS
  <2> QED BY <1>4, <2>1, DivUnique
<1>6. (a + b) % p = o
  <2> DEFINE m == q + t + k
  <2>1. m \in Nat /\ a + b \in Nat
    OBVIOUS
  <2>2. a + b = m * p + o
    <3>1. m * p = q * p + t * p + k * p
      OBVIOUS
    <3>2. PICK qp \in Nat, tp \in Nat, kp \in Nat : qp = q * p /\ tp = t * p /\ kp = k * p
      OBVIOUS
    <3> HIDE DEF m
    <3> QED BY <1>1, <1>2, <1>4, <3>1, <3>2
  <2> HIDE DEF m
  <2> QED BY <2>1, <2>2, DivUnique
<1> QED BY <1>3, <1>5, <1>6

\* ChainProducts and differences without the remainder.
LEMMA Linear ==
  ASSUME NEW x \in Fe, NEW y \in Fe
  PROVE  /\ Plus(x, y) = (IF x + y < P THEN x + y ELSE x + y - P)
         /\ Sub(x, y) = (IF y <= x THEN x - y ELSE x + P - y)
         /\ Negate(x) = (IF x = 0 THEN 0 ELSE P - x)
         /\ Plus(x, y) \in Fe /\ Sub(x, y) \in Fe /\ Negate(x) \in Fe
<1>1. P \in Nat \ {0} /\ x \in 0 .. P - 1 /\ y \in 0 .. P - 1
  BY Elements DEF Fe
<1>2. ASSUME NEW n \in Nat, n < 2 * P
      PROVE  n % P = (IF n < P THEN n ELSE n - P)
  <2>1. CASE n < P
    <3>1. n % P = n
      BY <1>1, <2>1, ModSmall
    <3> QED BY <2>1, <3>1
  <2>2. CASE ~(n < P)
    <3>1. n - P \in 0 .. P - 1 /\ n = 1 * P + (n - P)
      BY <1>1, <1>2, <2>2
    <3>2. n % P = n - P
      BY <1>1, <3>1, DivUnique
    <3> QED BY <2>2, <3>2
  <2> QED BY <2>1, <2>2, Zenon
<1>3. (x + y) % P = (IF x + y < P THEN x + y ELSE x + y - P)
  <2>1. PICK n \in Nat : n = x + y /\ n < 2 * P
    BY <1>1
  <2>2. PICK k : k = n % P
    OBVIOUS
  <2>3. k = (IF n < P THEN n ELSE n - P)
    BY <2>1, <2>2, <1>2
  <2>4. (x + y) % P = k
    BY <2>1, <2>2, Zenon
  <2>5. (IF n < P THEN n ELSE n - P) = (IF x + y < P THEN x + y ELSE x + y - P)
    BY <1>1, <2>1
  <2> QED BY <2>3, <2>4, <2>5, Zenon
<1>4. (x + P - y) % P = (IF x + P - y < P THEN x + P - y ELSE x + P - y - P)
  <2>1. PICK n \in Nat : n = x + P - y /\ n < 2 * P
    BY <1>1
  <2>2. PICK k : k = n % P
    OBVIOUS
  <2>3. k = (IF n < P THEN n ELSE n - P)
    BY <2>1, <2>2, <1>2
  <2>4. (x + P - y) % P = k
    BY <2>1, <2>2, Zenon
  <2>5. (IF n < P THEN n ELSE n - P) = (IF x + P - y < P THEN x + P - y ELSE x + P - y - P)
    BY <1>1, <2>1
  <2> QED BY <2>3, <2>4, <2>5, Zenon
<1>5. (P - x) % P = (IF P - x < P THEN P - x ELSE P - x - P)
  <2>1. PICK n \in Nat : n = P - x /\ n < 2 * P
    BY <1>1
  <2>2. n % P = (IF n < P THEN n ELSE n - P)
    BY <2>1, <1>2
  <2> QED BY <2>1, <2>2, Zenon
<1>6. Plus(x, y) = (IF x + y < P THEN x + y ELSE x + y - P)
  BY <1>3 DEF Plus
<1>7. Sub(x, y) = (IF y <= x THEN x - y ELSE x + P - y)
  BY <1>1, <1>4 DEF Sub
<1>8. Negate(x) = (IF x = 0 THEN 0 ELSE P - x)
  BY <1>1, <1>5 DEF Negate
<1> QED BY <1>1, <1>6, <1>7, <1>8 DEF Fe

\* ChainProducts commute and associate; differences undo them.
LEMMA PlusGroup ==
  ASSUME NEW x \in Fe, NEW y \in Fe, NEW z \in Fe
  PROVE  /\ Plus(x, y) = Plus(y, x) /\ Plus(x, 0) = x
         /\ Plus(Plus(x, y), z) = Plus(x, Plus(y, z))
         /\ Plus(x, Negate(x)) = 0 /\ Sub(x, y) = Plus(x, Negate(y))
         /\ Plus(x, y) = 0 => y = Negate(x)
         /\ Sub(x, z) = y <=> x = Plus(y, z)
         /\ Negate(Negate(x)) = x
<1>1. P \in Nat \ {0} /\ x \in 0 .. P - 1 /\ y \in 0 .. P - 1 /\ z \in 0 .. P - 1 /\ 0 \in Fe
  BY Elements DEF Fe
<1>2. /\ Plus(x, y) = (IF x + y < P THEN x + y ELSE x + y - P)
      /\ Plus(y, x) = (IF y + x < P THEN y + x ELSE y + x - P)
      /\ Plus(x, 0) = (IF x + 0 < P THEN x + 0 ELSE x + 0 - P)
      /\ Plus(y, z) = (IF y + z < P THEN y + z ELSE y + z - P)
      /\ Sub(x, y) = (IF y <= x THEN x - y ELSE x + P - y)
      /\ Sub(x, z) = (IF z <= x THEN x - z ELSE x + P - z)
  BY <1>1, Linear, Zenon
<1>3. PICK n \in Fe, m \in Fe, a \in Fe, b \in Fe :
        n = Negate(x) /\ m = Negate(y) /\ a = Plus(x, y) /\ b = Plus(y, z)
  BY Linear
<1>4. n \in 0 .. P - 1 /\ m \in 0 .. P - 1 /\ a \in 0 .. P - 1 /\ b \in 0 .. P - 1
  BY DEF Fe
<1>5. /\ Plus(a, z) = (IF a + z < P THEN a + z ELSE a + z - P)
      /\ Plus(x, b) = (IF x + b < P THEN x + b ELSE x + b - P)
      /\ Plus(x, n) = (IF x + n < P THEN x + n ELSE x + n - P)
      /\ Plus(x, m) = (IF x + m < P THEN x + m ELSE x + m - P)
      /\ Negate(n) = (IF n = 0 THEN 0 ELSE P - n)
      /\ Negate(x) = (IF x = 0 THEN 0 ELSE P - x)
      /\ Negate(y) = (IF y = 0 THEN 0 ELSE P - y)
  BY Linear, ZenonT(60)
<1>6. Plus(x, y) = Plus(y, x) /\ Plus(x, 0) = x
  BY <1>1, <1>2
<1>7. Plus(a, z) = Plus(x, b)
  BY <1>1, <1>2, <1>3, <1>4, <1>5
<1>8. Plus(x, n) = 0 /\ Sub(x, y) = Plus(x, m) /\ Negate(n) = x
  BY <1>1, <1>2, <1>3, <1>4, <1>5
<1>9. Plus(x, y) = 0 => y = n
  BY <1>1, <1>2, <1>3, <1>5
<1>10. Sub(x, z) = y <=> x = Plus(y, z)
  BY <1>1, <1>2
<1> QED BY <1>3, <1>6, <1>7, <1>8, <1>9, <1>10

\* Products distribute over sums, and carry signs.
LEMMA TimesPlus ==
  ASSUME NEW x \in Fe, NEW y \in Fe, NEW z \in Fe
  PROVE  /\ Times(x, Plus(y, z)) = Plus(Times(x, y), Times(x, z))
         /\ Times(Negate(x), y) = Negate(Times(x, y))
<1>1. ASSUME NEW a \in Fe, NEW b \in Fe, NEW c \in Fe
      PROVE  Times(a, Plus(b, c)) = Plus(Times(a, b), Times(a, c))
  <2>1. a \in Nat /\ b \in Nat /\ c \in Nat /\ P \in Nat \ {0}
    BY Elements
  <2>2. PICK s \in Nat : s = b + c
    BY <2>1
  <2>3. PICK v \in Nat, w \in Nat : v = a * b /\ w = a * c
    BY <2>1
  <2>4. (a * (s % P)) % P = (a * s) % P
    BY ZenonT(60), <2>1, <2>2, ModTimes
  <2>5. a * s = v + w
    BY <2>1, <2>2, <2>3
  <2>6. ((v % P) + (w % P)) % P = (v + w) % P
    BY ZenonT(60), <2>1, <2>3, ModPlus
  <2>7. Times(a, Plus(b, c)) = (a * (s % P)) % P /\ Plus(Times(a, b), Times(a, c)) = ((v % P) + (w % P)) % P
    BY <2>2, <2>3, Zenon DEF Times, Plus
  <2> QED BY <2>4, <2>5, <2>6, <2>7
<1>2. PICK n \in Fe : n = Negate(x)
  BY Linear
<1>3. /\ Times(y, Plus(x, n)) = Plus(Times(y, x), Times(y, n)) /\ Plus(x, n) = 0 /\ Times(y, 0) = 0
      /\ Times(y, x) = Times(x, y) /\ Times(y, n) = Times(n, y)
      /\ Times(x, y) \in Fe /\ Times(n, y) \in Fe
  BY <1>1, <1>2, PlusGroup, TimesRing
<1>4. Times(n, y) = Negate(Times(x, y))
  <2>1. PICK a \in Fe, b \in Fe : a = Times(x, y) /\ b = Times(n, y)
    BY <1>3
  <2>2. Plus(a, b) = 0
    BY <1>3, <2>1
  <2> QED BY <2>1, <2>2, PlusGroup
<1> QED BY <1>1, <1>2, <1>4

-----------------------------------------------------------------------------
\* Powers.

\* x^0 .. x^n, as Power computes them.
LEMMA RaiseIs ==
  ASSUME NEW x \in Fe, NEW n \in Nat
  PROVE  \E f \in [0 .. n -> Fe] : f[0] = 1 /\ (\A i \in 1 .. n : f[i] = Times(f[i - 1], x)) /\ Power(x, n) = f[n]
<1> DEFINE grow == [q \in (1 .. n) \X Fe |-> Times(q[2], x)]
<1>1. grow \in [(1 .. n) \X Fe -> Fe]
  <2>1. \A q \in (1 .. n) \X Fe : Times(q[2], x) \in Fe
    BY TimesRing
  <2> QED BY <2>1
<1> HIDE DEF grow
<1>2. PICK f \in [0 .. n -> Fe] : Computed(f, n, 1, grow)
  BY <1>1, Elements, Computable
<1>3. f = [i \in 0 .. n |-> IF i = 0 THEN 1 ELSE Times(f[i - 1], x)]
  <2>1. ASSUME NEW i \in 0 .. n, i # 0 PROVE grow[<<i, f[i - 1]>>] = Times(f[i - 1], x)
    <3>1. i \in 1 .. n /\ i - 1 \in 0 .. n
      BY <2>1
    <3>2. <<i, f[i - 1]>> \in (1 .. n) \X Fe
      BY <3>1
    <3> QED BY <3>2 DEF grow
  <2> QED BY <1>2, <2>1 DEF Computed
<1> DEFINE K == CHOOSE k : k = [i \in 0 .. n |-> IF i = 0 THEN 1 ELSE Times(k[i - 1], x)]
<1>4. Power(x, n) = K[n]
  BY DEF Power
<1>5. K = [i \in 0 .. n |-> IF i = 0 THEN 1 ELSE Times(K[i - 1], x)]
  BY <1>3
<1> HIDE DEF K
<1>6. \A i \in 0 .. n : K[i] = IF i = 0 THEN 1 ELSE Times(K[i - 1], x)
  BY <1>5
<1> DEFINE S == {i \in Nat : i <= n => K[i] \in Fe}
<1>7. 0 \in S
  BY <1>6, Elements
<1>8. ASSUME NEW i \in Nat, i \in S PROVE i + 1 \in S
  <2>1. SUFFICES ASSUME i + 1 <= n PROVE K[i + 1] \in Fe
    OBVIOUS
  <2>2. i + 1 \in 0 .. n /\ i + 1 # 0 /\ (i + 1) - 1 = i /\ K[i] \in Fe
    BY <1>8, <2>1
  <2>3. K[i + 1] = Times(K[i], x)
    BY <1>6, <2>2
  <2> QED BY <2>2, <2>3, TimesRing
<1>9. \A i \in Nat : i \in S
  <2> HIDE DEF S
  <2> QED BY <1>7, <1>8, SetInduction
<1>10. K \in [0 .. n -> Fe]
  <2>1. \A i \in 0 .. n : K[i] \in Fe
    BY <1>9
  <2> QED BY <1>5, <2>1
<1>11. K[0] = 1 /\ \A i \in 1 .. n : K[i] = Times(K[i - 1], x)
  BY <1>6
<1> QED BY <1>4, <1>10, <1>11

\* The recursion, without its table.
LEMMA RaiseStep ==
  ASSUME NEW x \in Fe, NEW n \in Nat
  PROVE  /\ Power(x, n) \in Fe /\ Power(x, 0) = 1 /\ Power(x, 1) = x
         /\ Power(x, n + 1) = Times(Power(x, n), x)
<1>0. Power(x, 0) = 1
  <2>1. PICK f \in [0 .. 0 -> Fe] : f[0] = 1 /\ Power(x, 0) = f[0]
    BY RaiseIs
  <2> QED BY <2>1
<1>1. ASSUME NEW m \in Nat PROVE Power(x, m) \in Fe /\ Power(x, 0) = 1
  <2>1. PICK f \in [0 .. m -> Fe] : Power(x, m) = f[m]
    BY RaiseIs
  <2> QED BY <2>1, <1>0
<1>2. ASSUME NEW m \in Nat PROVE Power(x, m + 1) = Times(Power(x, m), x)
  <2>1. PICK f \in [0 .. m -> Fe] :
          f[0] = 1 /\ (\A i \in 1 .. m : f[i] = Times(f[i - 1], x)) /\ Power(x, m) = f[m]
    BY RaiseIs
  <2>2. PICK g \in [0 .. (m + 1) -> Fe] :
          g[0] = 1 /\ (\A i \in 1 .. (m + 1) : g[i] = Times(g[i - 1], x)) /\ Power(x, m + 1) = g[m + 1]
    <3>1. m + 1 \in Nat
      OBVIOUS
    <3> QED BY <3>1, RaiseIs
  <2> DEFINE S == {i \in Nat : i <= m => f[i] = g[i]}
  <2>3. 0 \in S
    BY <2>1, <2>2
  <2>4. ASSUME NEW i \in Nat, i \in S PROVE i + 1 \in S
    <3>1. SUFFICES ASSUME i + 1 <= m PROVE f[i + 1] = g[i + 1]
      OBVIOUS
    <3>2. i + 1 \in 1 .. m /\ i + 1 \in 1 .. (m + 1) /\ (i + 1) - 1 = i /\ f[i] = g[i]
      BY <2>4, <3>1
    <3> QED BY <2>1, <2>2, <3>2
  <2>5. \A i \in Nat : i \in S
    <3> HIDE DEF S
    <3> QED BY <2>3, <2>4, SetInduction
  <2>6. f[m] = g[m] /\ m + 1 \in 1 .. (m + 1) /\ (m + 1) - 1 = m
    BY <2>5
  <2> QED BY <2>1, <2>2, <2>6
<1>3. Power(x, 1) = x
  <2>1. Power(x, 0 + 1) = Times(1, x)
    BY <1>1, <1>2
  <2>2. Times(1, x) = x
    BY TimesRing, Elements
  <2> QED BY <2>1, <2>2
<1> QED BY <1>1, <1>2, <1>3

\* Exponents add.
LEMMA RaiseSum ==
  ASSUME NEW x \in Fe, NEW a \in Nat, NEW b \in Nat
  PROVE  Power(x, a + b) = Times(Power(x, a), Power(x, b))
<1> DEFINE S == {n \in Nat : Power(x, a + n) = Times(Power(x, a), Power(x, n))}
<1>1. 0 \in S
  <2>1. Power(x, a) \in Fe /\ Power(x, 0) = 1 /\ a + 0 = a
    BY RaiseStep
  <2> QED BY <2>1, TimesRing
<1>2. ASSUME NEW n \in Nat, n \in S PROVE n + 1 \in S
  <2>1. PICK k \in Nat : k = a + n /\ k + 1 = a + (n + 1)
    OBVIOUS
  <2>2. Power(x, k) = Times(Power(x, a), Power(x, n))
    BY <1>2, <2>1
  <2>3. Power(x, k + 1) = Times(Power(x, k), x) /\ Power(x, n + 1) = Times(Power(x, n), x)
    BY <2>1, RaiseStep
  <2>4. Power(x, a) \in Fe /\ Power(x, n) \in Fe
    BY RaiseStep
  <2>5. Times(Times(Power(x, a), Power(x, n)), x) = Times(Power(x, a), Times(Power(x, n), x))
    BY <2>4, TimesAssoc
  <2> QED BY <2>1, <2>2, <2>3, <2>5
<1>3. \A n \in Nat : n \in S
  <2> HIDE DEF S
  <2> QED BY <1>1, <1>2, SetInduction
<1> QED BY <1>3

\* Products of four, regrouped.
LEMMA TimesSwap ==
  ASSUME NEW a \in Fe, NEW b \in Fe, NEW c \in Fe, NEW d \in Fe
  PROVE  Times(Times(a, b), Times(c, d)) = Times(Times(a, c), Times(b, d))
<1>1. PICK cd \in Fe, bd \in Fe : cd = Times(c, d) /\ bd = Times(b, d)
  BY TimesRing
<1>2. Times(Times(a, b), cd) = Times(a, Times(b, cd)) /\ Times(Times(a, c), bd) = Times(a, Times(c, bd))
  BY <1>1, TimesAssoc
<1>3. Times(b, cd) = Times(Times(b, c), d) /\ Times(c, bd) = Times(Times(c, b), d) /\ Times(b, c) = Times(c, b)
  BY <1>1, TimesAssoc, TimesRing
<1> QED BY <1>1, <1>2, <1>3

\* The power of a product.
LEMMA RaiseProduct ==
  ASSUME NEW x \in Fe, NEW y \in Fe, NEW n \in Nat
  PROVE  Power(Times(x, y), n) = Times(Power(x, n), Power(y, n))
<1>0. PICK z \in Fe : z = Times(x, y)
  BY TimesRing
<1> DEFINE S == {k \in Nat : Power(z, k) = Times(Power(x, k), Power(y, k))}
<1>1. 0 \in S
  <2>1. Power(x, 0) = 1 /\ Power(y, 0) = 1 /\ Power(z, 0) = 1
    BY RaiseStep
  <2>2. Times(1, 1) = 1
    BY TimesRing, Elements
  <2> QED BY <2>1, <2>2
<1>2. ASSUME NEW k \in Nat, k \in S PROVE k + 1 \in S
  <2>1. /\ Power(x, k + 1) = Times(Power(x, k), x) /\ Power(y, k + 1) = Times(Power(y, k), y)
        /\ Power(z, k + 1) = Times(Power(z, k), z) /\ Power(x, k) \in Fe /\ Power(y, k) \in Fe
    BY RaiseStep
  <2>2. Times(Times(Power(x, k), Power(y, k)), Times(x, y)) = Times(Times(Power(x, k), x), Times(Power(y, k), y))
    BY <2>1, TimesSwap
  <2> QED BY <1>0, <1>2, <2>1, <2>2
<1>3. \A k \in Nat : k \in S
  <2> HIDE DEF S
  <2> QED BY <1>1, <1>2, SetInduction
<1> QED BY <1>0, <1>3

\* Squares.
Squared(x) == Times(x, x)

\* They are elements, and squaring carries over products and signs.
LEMMA SquareIs ==
  ASSUME NEW x \in Fe, NEW y \in Fe
  PROVE  /\ Squared(x) \in Fe /\ Squared(Times(x, y)) = Times(Squared(x), Squared(y))
         /\ Squared(Negate(x)) = Squared(x)
<1>1. Squared(x) \in Fe
  BY TimesRing DEF Squared
<1>2. Squared(Times(x, y)) = Times(Squared(x), Squared(y))
  BY TimesSwap DEF Squared
<1>3. Squared(Negate(x)) = Squared(x)
  <2>1. PICK n \in Fe, s \in Fe : n = Negate(x) /\ s = Times(x, x)
    BY Linear, TimesRing
  <2>2. Times(n, n) = Negate(Times(x, n)) /\ Times(n, x) = Negate(s) /\ Times(x, n) = Times(n, x)
    BY <2>1, TimesPlus, TimesRing
  <2>3. Negate(Negate(s)) = s
    BY <2>1, PlusGroup
  <2> QED BY <2>1, <2>2, <2>3 DEF Squared
<1> QED BY <1>1, <1>2, <1>3

\* The exponent of the root, times eight, plus four.
LEMMA RaiseLast ==
  ASSUME NEW x \in Fe
  PROVE  /\ Pow22523(x) \in Fe
         /\ Power(x, P - 1) = Times(Squared(Squared(x)), Squared(Squared(Squared(Pow22523(x)))))
<1>1. PICK n \in Nat : P = 8 * n + 5
  <2>1. P \in Nat \ {0} /\ P % 8 = 5
    BY Elements, DecodeAssumption
  <2>2. PICK q \in Nat, r \in 0 .. 8 - 1 : P = q * 8 + r
    BY <2>1, DivExists
  <2>3. r = 5
    BY <2>1, <2>2
  <2> QED BY <2>2, <2>3
<1>2. (P - 5) \div 8 = n
  BY <1>1
<1>3. PICK p \in Fe : p = Power(x, n) /\ p = Pow22523(x)
  BY <1>2, RaiseStep DEF Pow22523
<1>4. \A k \in Nat : Power(x, k) \in Fe /\ Power(x, k + k) = Squared(Power(x, k))
  BY RaiseStep, RaiseSum DEF Squared
<1>5. PICK n2 \in Nat, n4 \in Nat, n8 \in Nat : n2 = n + n /\ n4 = n2 + n2 /\ n8 = n4 + n4
  OBVIOUS
<1>6. Power(x, n8) = Squared(Squared(Squared(p)))
  <2>1. Power(x, n2) = Squared(p) /\ Power(x, n4) = Squared(Power(x, n2)) /\ Power(x, n8) = Squared(Power(x, n4))
    BY <1>3, <1>4, <1>5
  <2> QED BY <2>1
<1>7. Power(x, 4) = Squared(Squared(x))
  <2>1. Power(x, 1 + 1) = Squared(Power(x, 1)) /\ Power(x, 2 + 2) = Squared(Power(x, 2)) /\ Power(x, 1) = x
    BY <1>4, RaiseStep
  <2> QED BY <2>1
<1>8. Power(x, 4 + n8) = Times(Power(x, 4), Power(x, n8)) /\ P - 1 = 4 + n8
  BY <1>1, <1>5, RaiseSum
<1> QED BY <1>3, <1>6, <1>7, <1>8

-----------------------------------------------------------------------------
\* Square roots.

\* The field is that of an odd prime with a root of -1.
LEMMA RootOfMinusOne ==
  /\ P % 2 = 1 /\ P >= 5 /\ SqrtM1 \in Fe /\ Squared(SqrtM1) = Negate(1) /\ Negate(1) # 1
  /\ Negate(1) \in Fe /\ Negate(1) # 0 /\ \A x \in Fe : Times(x, Negate(1)) = Negate(x)
<1>1. P \in Nat \ {0} /\ P % 8 = 5 /\ 1 \in Fe
  BY Elements, DecodeAssumption
<1>2. PICK q \in Nat, r \in 0 .. 8 - 1 : P = q * 8 + r
  BY <1>1, DivExists
<1>3. r = 5
  BY <1>1, <1>2
<1>4. P % 2 = 1 /\ P >= 5
  BY <1>2, <1>3
<1>5. Negate(1) = P - 1
  <2>1. Negate(1) = IF 1 = 0 THEN 0 ELSE P - 1
    BY <1>1, Linear, Zenon
  <2> QED BY <2>1
<1>6. Negate(1) \in Fe
  BY <1>1, Linear
<1>7. ASSUME NEW x \in Fe PROVE Times(x, Negate(1)) = Negate(x)
  <2>1. Times(Negate(1), x) = Negate(Times(1, x))
    BY <1>1, TimesPlus
  <2>2. Times(1, x) = x /\ Times(x, Negate(1)) = Times(Negate(1), x)
    BY <1>1, <1>6, TimesRing
  <2> QED BY <2>1, <2>2
<1>8. SqrtM1 \in Fe /\ Squared(SqrtM1) = P - 1
  BY DecodeAssumption DEF Squared
<1>9. Squared(SqrtM1) = Negate(1) /\ Negate(1) # 1 /\ Negate(1) # 0
  BY <1>1, <1>4, <1>5, <1>8
<1> QED BY <1>4, <1>6, <1>7, <1>8, <1>9, Zenon

\* Elements with the same square are equal up to sign.
LEMMA SameSquare ==
  ASSUME NEW x \in Fe, NEW a \in Fe, Squared(x) = Squared(a)
  PROVE  x = a \/ x = Negate(a)
<1>1. PICK n \in Fe, s \in Fe, b \in Fe, m \in Fe :
        n = Negate(a) /\ s = Squared(x) /\ b = Times(a, x) /\ m = Negate(s)
  BY Linear, TimesRing DEF Squared
<1>2. PICK c \in Fe : c = Negate(b)
  BY Linear
<1> DEFINE d == Plus(x, n)  e == Plus(x, a)
<1>3. d \in Fe /\ e \in Fe
  BY <1>1, Linear
<1>4. Times(x, d) = Plus(s, c) /\ Times(a, d) = Plus(b, m)
  <2>1. Times(x, d) = Plus(Times(x, x), Times(x, n)) /\ Times(a, d) = Plus(Times(a, x), Times(a, n))
    BY <1>1, TimesPlus
  <2>2. Times(n, x) = Negate(Times(a, x)) /\ Times(n, a) = Negate(Times(a, a))
    BY <1>1, TimesPlus
  <2>3. Times(x, n) = Times(n, x) /\ Times(a, n) = Times(n, a)
    BY <1>1, TimesRing
  <2> HIDE DEF d
  <2> QED BY <1>1, <1>2, <2>1, <2>2, <2>3 DEF Squared
<1> HIDE DEF d, e
<1>5. Times(d, e) = Plus(Times(d, x), Times(d, a))
  BY <1>1, <1>3, TimesPlus DEF e
<1>6. Times(d, x) = Times(x, d) /\ Times(d, a) = Times(a, d)
  BY <1>3, TimesRing
<1>7. Plus(Plus(s, c), Plus(b, m)) = 0
  <2>1. PICK bm \in Fe : bm = Plus(b, m)
    BY Linear
  <2>2. Plus(Plus(s, c), bm) = Plus(s, Plus(c, bm)) /\ Plus(c, Plus(b, m)) = Plus(Plus(c, b), m)
    BY <2>1, PlusGroup
  <2>3. Plus(b, c) = 0 /\ Plus(c, b) = Plus(b, c) /\ Plus(0, m) = Plus(m, 0) /\ Plus(m, 0) = m
        /\ Plus(s, m) = 0
    BY <1>1, <1>2, PlusGroup, Elements
  <2> QED BY <2>1, <2>2, <2>3
<1>8. d = 0 \/ e = 0
  BY <1>3, <1>4, <1>5, <1>6, <1>7, ZeroProduct
<1>9. CASE d = 0
  <2>1. n = Negate(x) /\ Negate(Negate(x)) = x /\ Negate(Negate(a)) = a
    BY <1>9, PlusGroup DEF d
  <2> QED BY <1>1, <2>1
<1>10. CASE e = 0
  <2>1. a = Negate(x) /\ Negate(Negate(x)) = x
    BY <1>10, PlusGroup DEF e
  <2> QED BY <2>1
<1> QED BY <1>8, <1>9, <1>10

\* A common factor.
LEMMA Cancel ==
  ASSUME NEW u \in Fe, u # 0, NEW x \in Fe, NEW y \in Fe, Times(u, x) = Times(u, y)
  PROVE  x = y
<1> DEFINE i == Inverses[u]
<1>1. i \in Fe /\ Times(u, i) = 1 /\ Times(i, u) = 1
  BY InverseIs, TimesRing
<1> HIDE DEF i
<1>2. Times(Times(i, u), x) = Times(i, Times(u, x)) /\ Times(Times(i, u), y) = Times(i, Times(u, y))
  BY <1>1, TimesAssoc
<1>3. Times(1, x) = x /\ Times(1, y) = y
  BY TimesRing, Elements
<1> QED BY <1>1, <1>2, <1>3

\* The denominator is never zero, as D is no square and -1 is one.
LEMMA DenominatorNonzero ==
  ASSUME NEW y \in Fe
  PROVE  Plus(Times(Squared(y), D), 1) # 0 /\ Plus(Times(Squared(y), D), 1) \in Fe
<1>0. D \in Fe /\ (\A x \in Fe : Squared(x) # D) /\ 0 \in Fe /\ 1 \in Fe
  BY DecodeAssumption, Elements DEF Squared
<1>1. PICK s \in Fe, t \in Fe : s = Squared(y) /\ t = Times(s, D)
  BY <1>0, TimesRing, SquareIs
<1>2. ASSUME Plus(t, 1) = 0 PROVE FALSE
  <2>1. t = Negate(1)
    <3>1. 1 = Negate(t) /\ Negate(Negate(t)) = t
      BY <1>0, <1>2, PlusGroup
    <3> QED BY <3>1
  <2>2. y # 0
    <3>1. Times(0, 0) = 0 /\ Times(0, D) = Times(D, 0) /\ Times(D, 0) = 0
      BY <1>0, TimesRing
    <3> QED BY <3>1, <1>1, <2>1, RootOfMinusOne DEF Squared
  <2>3. PICK j \in Fe : Times(y, j) = 1
    BY <2>2, InverseIs
  <2>4. PICK w \in Fe : w = Times(SqrtM1, j)
    BY TimesRing, RootOfMinusOne
  <2>5. PICK k \in Fe : k = Squared(j) /\ Times(s, k) = 1
    <3>1. Squared(Times(y, j)) = Times(s, Squared(j)) /\ Squared(j) \in Fe
      BY <1>1, SquareIs
    <3>2. Squared(1) = 1
      BY <1>0, TimesRing DEF Squared
    <3> QED BY <2>3, <3>1, <3>2
  <2>6. Squared(w) = Times(t, k)
    BY <2>1, <2>4, <2>5, SquareIs, RootOfMinusOne
  <2>7. Times(t, k) = D
    <3>1. t = Times(D, s)
      BY <1>0, <1>1, TimesRing
    <3>2. Times(Times(D, s), k) = Times(D, Times(s, k)) /\ Times(D, 1) = D
      BY <1>0, TimesAssoc, TimesRing
    <3> QED BY <3>1, <3>2, <2>5
  <2> QED BY <1>0, <2>6, <2>7
<1>3. Plus(t, 1) \in Fe
  BY <1>0, Linear
<1> QED BY <1>1, <1>2, <1>3

\* What the root's exponentiation leaves: v times its square is u times a fourth
\* root of one, whose square is one if u / v is a square.
LEMMA RootOfUnity ==
  ASSUME NEW u \in Fe, u # 0, NEW v \in Fe, v # 0, NEW r \in Fe,
         r = Times(u, Pow22523(Times(u, v)))
  PROVE  \E e \in Fe : /\ Times(v, Squared(r)) = Times(u, e) /\ Squared(Squared(e)) = 1
                       /\ (\E x \in Fe : Times(v, Squared(x)) = u) => Squared(e) = 1
<1>1. PICK w \in Fe, p \in Fe : w = Times(u, v) /\ p = Pow22523(w) /\ r = Times(u, p)
  BY TimesRing, RaiseLast
<1>2. w # 0
  BY <1>1, ZeroProduct
<1>3. PICK p2 \in Fe : p2 = Squared(p)
  BY SquareIs
<1>4. PICK e \in Fe : e = Times(w, p2)
  BY TimesRing
<1>5. Times(v, Squared(r)) = Times(u, e)
  <2>1. PICK u2 \in Fe : u2 = Squared(u) /\ Squared(r) = Times(u2, p2)
    BY <1>1, <1>3, SquareIs
  <2>2. Times(v, Times(u2, p2)) = Times(Times(v, u2), p2)
    BY TimesAssoc
  <2>3. Times(v, u2) = Times(u, w)
    <3>1. Times(v, Times(u, u)) = Times(Times(v, u), u) /\ Times(v, u) = w /\ Times(w, u) = Times(u, w)
      BY <1>1, TimesAssoc, TimesRing
    <3> QED BY <2>1, <3>1 DEF Squared
  <2>4. Times(Times(u, w), p2) = Times(u, Times(w, p2))
    BY TimesAssoc
  <2> QED BY <1>4, <2>1, <2>2, <2>3, <2>4
<1>6. ASSUME NEW x \in Fe, x # 0
      PROVE  Times(Squared(Squared(x)), Squared(Squared(Squared(Pow22523(x))))) = 1
  <2>1. x \in 1 .. (P - 1)
    BY <1>6, Elements DEF Fe
  <2> QED BY <2>1, <1>6, RaiseLast, DecodeAssumption
<1>7. Squared(Squared(e)) = 1
  <2>1. Squared(e) = Times(Squared(w), Squared(p2)) /\ Squared(w) \in Fe /\ Squared(p2) \in Fe
    BY <1>4, SquareIs
  <2>2. Squared(Squared(e)) = Times(Squared(Squared(w)), Squared(Squared(p2)))
    BY <2>1, SquareIs
  <2> QED BY <1>1, <1>2, <1>3, <1>6, <2>2
<1>8. ASSUME NEW x \in Fe, Times(v, Squared(x)) = u
      PROVE  Squared(e) = 1
  <2>1. PICK z \in Fe : z = Times(v, x)
    BY TimesRing
  <2>2. w = Squared(z)
    <3>1. PICK x2 \in Fe, v2 \in Fe : x2 = Squared(x) /\ v2 = Squared(v)
      BY SquareIs
    <3>2. Squared(z) = Times(v2, x2)
      BY <2>1, <3>1, SquareIs
    <3>3. Times(Times(v, v), x2) = Times(v, Times(v, x2)) /\ Times(v, u) = Times(u, v)
      BY TimesAssoc, TimesRing
    <3> QED BY <1>1, <1>8, <3>1, <3>2, <3>3 DEF Squared
  <2>3. z # 0
    <3>1. Times(0, 0) = 0
      BY TimesRing, Elements
    <3> QED BY <1>2, <2>2, <3>1 DEF Squared
  <2>4. PICK q \in Fe : q = Pow22523(z) /\ p = Squared(q)
    <3>1. (P - 5) \div 8 \in Nat
      <4>1. P \in Nat /\ P >= 5
        BY Elements, RootOfMinusOne
      <4> QED BY <4>1
    <3>2. Power(Times(z, z), (P - 5) \div 8) = Times(Power(z, (P - 5) \div 8), Power(z, (P - 5) \div 8))
      BY <3>1, RaiseProduct
    <3> QED BY <1>1, <2>2, <3>2, RaiseLast DEF Pow22523, Squared
  <2>5. PICK q2 \in Fe : q2 = Squared(q)
    BY SquareIs
  <2>6. e = Squared(Times(z, q2))
    <3>1. Squared(Times(z, q2)) = Times(Squared(z), Squared(q2))
      BY SquareIs
    <3> QED BY <1>3, <1>4, <2>2, <2>4, <2>5, <3>1
  <2>7. Squared(e) = Times(Squared(Squared(z)), Squared(Squared(q2)))
    <3>1. e = Times(Squared(z), Squared(q2)) /\ Squared(z) \in Fe /\ Squared(q2) \in Fe
      BY <2>6, SquareIs
    <3> QED BY <3>1, SquareIs
  <2> QED BY <1>6, <2>3, <2>4, <2>5, <2>7
<1> QED BY <1>5, <1>7, <1>8

-----------------------------------------------------------------------------
\* The root that is chosen.

\* Twice an element that is not zero is not zero.
LEMMA NegateMoves ==
  ASSUME NEW x \in Fe
  PROVE  /\ Negate(x) = x => x = 0
         /\ Negate(0) = 0
         /\ x # 0 => Negate(x) # 0 /\ Negate(x) % 2 = 1 - (x % 2)
<1>1. x \in 0 .. P - 1 /\ P \in Nat /\ P % 2 = 1 /\ 0 \in Fe
  BY Elements, RootOfMinusOne DEF Fe
<1>2. Negate(x) = (IF x = 0 THEN 0 ELSE P - x) /\ Negate(0) = (IF 0 = 0 THEN 0 ELSE P - 0)
  BY <1>1, Linear, Zenon
<1>3. (P - x) % 2 = 1 - (x % 2)
  BY <1>1
<1>4. x # 0 => Negate(x) % 2 = 1 - (x % 2)
  BY <1>2, <1>3
<1>5. /\ Negate(x) = x => x = 0
      /\ x # 0 => Negate(x) # 0
  BY <1>1, <1>2
<1> QED BY <1>2, <1>4, <1>5

\* What the checks of a root say: s is a root of u / v if the flag is set, and
\* otherwise u / v has none.
LEMMA RootChosen ==
  ASSUME NEW u \in Fe, NEW v \in Fe, v # 0, NEW r, r = Times(u, Pow22523(Times(u, v))),
         NEW c, c = Times(v, Squared(r)),
         NEW s, s = IF c = Negate(u) \/ c = Times(Negate(u), SqrtM1) THEN Times(r, SqrtM1) ELSE r
  PROVE  /\ s \in Fe
         /\ c = u \/ c = Negate(u) => Times(v, Squared(s)) = u
         /\ (\E x \in Fe : Times(v, Squared(x)) = u) => c = u \/ c = Negate(u)
<1> DEFINE I == SqrtM1
<1>1. /\ I \in Fe /\ Squared(I) = Negate(1) /\ Negate(1) # 1 /\ Negate(1) \in Fe /\ 0 \in Fe /\ 1 \in Fe
      /\ \A x \in Fe : Times(x, Negate(1)) = Negate(x)
  BY RootOfMinusOne, Elements
<1> HIDE DEF I
<1>2. r \in Fe /\ Squared(r) \in Fe /\ c \in Fe /\ Negate(u) \in Fe
  <2>1. Times(u, v) \in Fe
    BY TimesRing
  <2>2. r \in Fe
    BY <2>1, RaiseLast, TimesRing
  <2> QED BY <2>2, SquareIs, TimesRing, Linear
<1>3. PICK ri \in Fe : ri = Times(r, I)
  BY <1>1, <1>2, TimesRing
<1>4. s \in Fe
  BY <1>2, <1>3 DEF I
<1>5. CASE u = 0
  <2>1. r = 0
    <3>1. Pow22523(Times(u, v)) \in Fe
      BY TimesRing, RaiseLast
    <3>2. Times(0, Pow22523(Times(u, v))) = Times(Pow22523(Times(u, v)), 0)
          /\ Times(Pow22523(Times(u, v)), 0) = 0
      BY <1>1, <3>1, TimesRing
    <3> QED BY <1>5, <3>2
  <2>2. Squared(0) = 0 /\ Times(v, 0) = 0 /\ Times(I, 0) = 0 /\ Times(0, I) = Times(I, 0)
    BY <1>1, TimesRing DEF Squared
  <2>3. s = 0
    BY <2>1, <2>2 DEF I
  <2> QED BY <1>4, <1>5, <2>1, <2>2, <2>3
<1>6. CASE u # 0
  <2>1. PICK e \in Fe : /\ c = Times(u, e) /\ Squared(Squared(e)) = 1
                        /\ (\E x \in Fe : Times(v, Squared(x)) = u) => Squared(e) = 1
    BY <1>2, <1>6, RootOfUnity
  <2>2. Times(u, 1) = u /\ Times(u, Negate(1)) = Negate(u) /\ Squared(1) = 1
    BY <1>1, TimesRing DEF Squared
  <2>3. ASSUME \E x \in Fe : Times(v, Squared(x)) = u
        PROVE  c = u \/ c = Negate(u)
    <3>1. Squared(e) = Squared(1)
      BY <2>1, <2>2, <2>3
    <3>2. e = 1 \/ e = Negate(1)
      BY <3>1, <1>1, SameSquare
    <3> QED BY <2>1, <2>2, <3>2
  <2>4. ASSUME c = u PROVE Times(v, Squared(s)) = u
    <3>1. c # Negate(u)
      BY <1>6, <2>4, NegateMoves
    <3>2. c # Times(Negate(u), I)
      <4>1. ASSUME c = Times(Negate(u), I) PROVE FALSE
        <5>1. PICK n \in Fe : n = Negate(I)
          BY <1>1, Linear
        <5>2. Times(Negate(u), I) = Negate(Times(u, I)) /\ Times(n, u) = Negate(Times(I, u))
              /\ Times(I, u) = Times(u, I) /\ Times(n, u) = Times(u, n)
          BY <1>1, <5>1, TimesPlus, TimesRing, SMTT(30)
        <5>3. Times(u, n) = Times(u, 1)
          BY <2>2, <2>4, <4>1, <5>2
        <5>4. n = 1
          BY <1>1, <1>6, <5>3, Cancel
        <5>5. Squared(n) = Squared(I)
          BY <1>1, <5>1, SquareIs
        <5> QED BY <1>1, <2>2, <5>4, <5>5
      <4> QED BY <4>1
    <3>3. s = r
      BY <3>1, <3>2 DEF I
    <3> QED BY <2>4, <3>3
  <2>5. ASSUME c = Negate(u) PROVE Times(v, Squared(s)) = u
    <3>1. s = ri
      BY <1>3, <2>5 DEF I
    <3>2. Squared(ri) = Times(Squared(r), Negate(1))
      BY <1>1, <1>2, <1>3, SquareIs
    <3>3. Times(v, Times(Squared(r), Negate(1))) = Times(Times(v, Squared(r)), Negate(1))
      BY <1>1, <1>2, TimesAssoc
    <3>4. Times(c, Negate(1)) = Negate(c) /\ Negate(Negate(u)) = u
      BY <1>1, <1>2, PlusGroup
    <3> QED BY <2>5, <3>1, <3>2, <3>3, <3>4
  <2> QED BY <1>4, <2>3, <2>4, <2>5
<1> QED BY <1>5, <1>6

\* The curve's equation, with x^2 on one side.
LEMMA CurveEquation ==
  ASSUME NEW x \in Fe, NEW y \in Fe
  PROVE  (y * y + P * P - x * x) % P = (1 + D * Times(Times(x, x), Times(y, y))) % P
           <=> Times(Plus(Times(Squared(y), D), 1), Squared(x)) = Sub(Squared(y), 1)
<1>1. x \in 0 .. P - 1 /\ y \in Nat /\ P \in Nat \ {0} /\ 0 \in Fe /\ 1 \in Fe /\ D \in Fe /\ D \in Nat
  BY Elements, DecodeAssumption DEF Fe
<1>2. PICK X \in Fe, Y \in Fe : X = Squared(x) /\ Y = Squared(y)
  BY SquareIs
<1>3. PICK W \in Fe, t \in Fe : W = Times(X, Y) /\ t = Times(Y, D)
  BY <1>1, TimesRing
<1>4. PICK g \in Fe : g = Times(D, W)
  BY <1>1, TimesRing
<1>5. (y * y + P * P - x * x) % P = Sub(Y, X)
  <2>1. PICK a \in Nat, b \in Nat, q \in Nat : a = y * y /\ b = x * x /\ q = P * P
    BY <1>1
  <2>2. b <= q
    <3>1. x * x <= x * P /\ x * P <= P * P
      BY <1>1
    <3> QED BY <2>1, <3>1, <1>1
  <2>3. a % P = Y /\ b % P = X
    BY <1>2, <2>1, Zenon DEF Squared, Times
  <2>4. PICK m \in Nat, k \in Nat : a = m * P + Y /\ b = k * P + X
    <3>1. a = (a \div P) * P + (a % P) /\ a \div P \in Nat /\ b = (b \div P) * P + (b % P) /\ b \div P \in Nat
      BY <1>1, <2>1, DivMod
    <3> QED BY <2>3, <3>1
  <2>5. PICK o \in {0, 1} : Sub(Y, X) = Y + o * P - X /\ Sub(Y, X) \in Fe
    <3>1. Sub(Y, X) = IF X <= Y THEN Y - X ELSE Y + P - X
      BY Linear, Zenon
    <3>2. Sub(Y, X) \in Fe
      BY Linear
    <3>3. CASE X <= Y
      <4>1. Sub(Y, X) = Y + 0 * P - X
        BY <1>1, <3>1, <3>3 DEF Fe
      <4> QED BY <3>2, <4>1
    <3>4. CASE ~(X <= Y)
      <4>1. Sub(Y, X) = Y + 1 * P - X
        BY <1>1, <3>1, <3>4 DEF Fe
      <4> QED BY <3>2, <4>1
    <3> QED BY <3>3, <3>4
  <2>6. PICK n : n = m + P - k - o
    OBVIOUS
  <2>7. a + q - b = n * P + Sub(Y, X) /\ n \in Int
    <3>1. n * P = m * P + P * P - k * P - o * P /\ n \in Int
      BY <1>1, <2>6
    <3>2. PICK mp \in Nat, kp \in Nat, op \in Nat : mp = m * P /\ kp = k * P /\ op = o * P
      BY <1>1
    <3> QED BY <1>1, <2>1, <2>4, <2>5, <3>1, <3>2 DEF Fe
  <2>8. n \in Nat
    <3>1. a + q - b \in Nat /\ Sub(Y, X) < P /\ Sub(Y, X) \in Nat
      BY <1>1, <2>2, <2>5, <2>1 DEF Fe
    <3>2. n < 0 => n * P <= -P
      BY <1>1, <2>7
    <3> QED BY <1>1, <2>7, <3>1, <3>2
  <2>9. (a + q - b) % P = Sub(Y, X)
    <3>1. a + q - b \in Nat /\ Sub(Y, X) \in 0 .. P - 1
      BY <2>1, <2>2, <2>5 DEF Fe
    <3> QED BY <1>1, <2>7, <2>8, <3>1, DivUnique
  <2> QED BY <2>1, <2>9
<1>6. (1 + D * Times(Times(x, x), Times(y, y))) % P = Plus(1, g)
  <2>1. W = Times(Times(x, x), Times(y, y))
    BY <1>2, <1>3 DEF Squared
  <2>2. PICK d \in Nat : d = D * W /\ g = d % P
    BY <1>1, <1>4, Elements DEF Times
  <2>3. ((1 % P) + (d % P)) % P = (1 + d) % P
    <3>1. 1 \in Nat /\ d \in Nat /\ P \in Nat \ {0}
      BY <1>1, <2>2
    <3> QED BY <3>1, ModPlus, Zenon
  <2>4. 1 % P = 1
    <3>1. 1 < P
      BY RootOfMinusOne, <1>1
    <3> QED BY <1>1, <3>1, ModSmall
  <2> QED BY <2>1, <2>2, <2>3, <2>4, Zenon DEF Plus
<1>7. Times(Plus(t, 1), X) = Plus(X, g)
  <2>1. PICK k \in Fe : k = Plus(t, 1)
    BY <1>1, Linear
  <2>2. Times(k, X) = Times(X, k) /\ Times(X, Plus(t, 1)) = Plus(Times(X, t), Times(X, 1)) /\ Times(X, 1) = X
    BY <1>1, <2>1, TimesPlus, TimesRing
  <2>3. Times(X, t) = g
    <3>1. Times(Times(X, Y), D) = Times(X, Times(Y, D)) /\ Times(W, D) = Times(D, W)
      BY <1>1, TimesAssoc, TimesRing
    <3> QED BY <1>3, <1>4, <3>1
  <2>4. Plus(g, X) = Plus(X, g)
    BY PlusGroup
  <2> QED BY <2>1, <2>2, <2>3, <2>4
<1>8. Sub(Y, X) = Plus(1, g) <=> Plus(X, g) = Sub(Y, 1)
  <2>1. PICK h \in Fe, f \in Fe : h = Plus(1, g) /\ f = Plus(X, g)
    BY <1>1, Linear
  <2>2. Sub(Y, X) = h <=> Y = Plus(h, X)
    BY PlusGroup
  <2>3. Sub(Y, 1) = f <=> Y = Plus(f, 1)
    BY <1>1, PlusGroup
  <2>4. Plus(h, X) = Plus(f, 1)
    <3>1. Plus(Plus(1, g), X) = Plus(1, Plus(g, X)) /\ Plus(g, X) = f /\ Plus(1, f) = Plus(f, 1)
      BY <1>1, <2>1, PlusGroup
    <3> QED BY <2>1, <3>1
  <2> QED BY <2>1, <2>2, <2>3, <2>4
<1> QED BY <1>2, <1>3, <1>5, <1>6, <1>7, <1>8

\* The sign: of an element and its opposite, the one with the encoded parity.
LEMMA SignChosen ==
  ASSUME NEW s \in Fe, NEW encoding \in Compressed, NEW x,
         \/ x = applyEncodedSign(conditionalNegate(s, IsNegative(s) = 1), encoding, TRUE)
         \/ x = signedRoot(s, encoding, TRUE)
  PROVE  x \in Fe /\ Squared(x) = Squared(s) /\ (x = 0 \/ x % 2 = encoding.sign)
<1>1. encoding.sign \in {0, 1}
  BY DEF Compressed
<1>2. PICK n \in Fe : n = Negate(s) /\ Squared(n) = Squared(s) /\ Negate(n) = s
  BY Linear, SquareIs, PlusGroup
<1>3. s \in Nat /\ s % 2 \in {0, 1}
  <2>1. s \in Nat
    BY Elements
  <2> QED BY <2>1
<1>4. s # 0 => n % 2 = 1 - (s % 2)
  BY <1>2, NegateMoves
<1>5. s = 0 => n = 0
  BY <1>2, NegateMoves
<1>6. x \in {s, n} /\ (s # 0 => x % 2 = encoding.sign)
  <2>1. CASE x = signedRoot(s, encoding, TRUE)
    <3>1. x = IF s % 2 # encoding.sign THEN n ELSE s
      BY <1>2, <2>1 DEF signedRoot, conditionalNegate, IsNegative, encodedSign
    <3>2. PICK a, b : a = s % 2 /\ b = n % 2
      OBVIOUS
    <3> QED BY <1>1, <1>3, <1>4, <3>1, <3>2
  <2>2. CASE x = applyEncodedSign(conditionalNegate(s, IsNegative(s) = 1), encoding, TRUE)
    <3>1. PICK z : z = (IF s % 2 = 1 THEN n ELSE s)
      OBVIOUS
    <3>2. z = conditionalNegate(s, IsNegative(s) = 1)
      BY <1>2, <3>1 DEF conditionalNegate, IsNegative
    <3>3. x = IF z % 2 # encoding.sign THEN Negate(z) ELSE z
      BY <2>2, <3>2 DEF applyEncodedSign, conditionalNegate, IsNegative, encodedSign
    <3>4. CASE s % 2 = 1
      <4>1. z = n /\ x = IF n % 2 # encoding.sign THEN s ELSE n
        BY <1>2, <3>1, <3>3, <3>4
      <4>2. PICK a, b : a = s % 2 /\ b = n % 2
        OBVIOUS
      <4>3. s # 0 => b = 0
        BY <1>4, <3>4, <4>2
      <4> QED BY <1>1, <3>4, <4>1, <4>2, <4>3
    <3>5. CASE s % 2 # 1
      <4>1. z = s /\ x = IF s % 2 # encoding.sign THEN n ELSE s
        BY <1>2, <3>1, <3>3, <3>5
      <4>2. s % 2 = 0 /\ (s # 0 => n % 2 = 1)
        BY <1>3, <1>4, <3>5
      <4> QED BY <1>1, <4>1, <4>2
    <3> QED BY <3>4, <3>5
  <2> QED BY <2>1, <2>2
<1> QED BY <1>2, <1>5, <1>6

-----------------------------------------------------------------------------
\* Programs.  A lane of a point climbs from level to level: level n means that
\* the first n stages of the plain order are done.

Stages == {"y", "y2", "v", "uv", "pow", "root", "root2", "check", "negUI", "select", "sign", "signed", "t"}
Before == [y |-> 0, y2 |-> 1, v |-> 2, uv |-> 3, pow |-> 4, root |-> 5, root2 |-> 6, check |-> 7,
           negUI |-> 8, select |-> 9, sign |-> 10, signed |-> 9, t |-> 11]
After == [y |-> 1, y2 |-> 2, v |-> 3, uv |-> 4, pow |-> 5, root |-> 6, root2 |-> 7, check |-> 8,
          negUI |-> 9, select |-> 10, sign |-> 11, signed |-> 11, t |-> 12]
Sides == {"A", "R"}
Levels == [Sides -> Nat]

\* The stages of ops lead from level m to level n.
Climbs(ops, m, n) ==
  /\ ops \in Seq(Stages)
  /\ \E f \in [0 .. Len(ops) -> Nat] :
       /\ f[0] = m /\ f[Len(ops)] = n
       /\ \A i \in 1 .. Len(ops) : f[i - 1] = Before[ops[i]] /\ f[i] = After[ops[i]]

\* One operation of a program moves one of two points.
Moves(move, c, d) ==
  \E op \in Stages, w \in Sides :
    move = <<op, w>> /\ c[w] = Before[op] /\ d = [c EXCEPT ![w] = After[op]]

\* One witnesses it.
LEMMA MovesBy ==
  ASSUME NEW op \in Stages, NEW w \in Sides, NEW c, NEW d, c[w] = Before[op], d = [c EXCEPT ![w] = After[op]]
  PROVE  Moves(<<op, w>>, c, d)
BY Zenon DEF Moves

\* f are the levels along program.
Along(f, program) ==
  /\ program \in Seq(Stages \X Sides) /\ f \in [0 .. Len(program) -> Levels]
  /\ \A i \in 1 .. Len(program) : Moves(program[i], f[i - 1], f[i])

\* The program leads from levels c to levels d.
Runs(program, c, d) == \E f : Along(f, program) /\ f[0] = c /\ f[Len(program)] = d

\* Concatenated sequences.
LEMMA Concatenated ==
  ASSUME NEW T, NEW s \in Seq(T), NEW t \in Seq(T)
  PROVE  /\ s \o t \in Seq(T) /\ Len(s \o t) = Len(s) + Len(t) /\ Len(s) \in Nat /\ Len(t) \in Nat
         /\ \A i \in 1 .. Len(s) : (s \o t)[i] = s[i]
         /\ \A i \in 1 .. (Len(s) + Len(t)) : i > Len(s) => (s \o t)[i] = t[i - Len(s)]
<1>1. s \o t \in Seq(T) /\ Len(s \o t) = Len(s) + Len(t) /\ Len(s) \in Nat /\ Len(t) \in Nat
  BY ConcatProperties, LenProperties
<1>2. \A i \in 1 .. (Len(s) + Len(t)) : (s \o t)[i] = IF i <= Len(s) THEN s[i] ELSE t[i - Len(s)]
  BY ConcatProperties
<1> QED BY <1>1, <1>2

\* Stages one after the other.
LEMMA ClimbsJoin ==
  ASSUME NEW s, NEW t, NEW a, NEW b, NEW c, Climbs(s, a, b), Climbs(t, b, c)
  PROVE  Climbs(s \o t, a, c)
<1>1. s \in Seq(Stages) /\ t \in Seq(Stages)
  BY DEF Climbs
<1>0. /\ s \o t \in Seq(Stages) /\ Len(s \o t) = Len(s) + Len(t) /\ Len(s) \in Nat /\ Len(t) \in Nat
      /\ \A i \in 1 .. Len(s) : (s \o t)[i] = s[i]
      /\ \A i \in 1 .. (Len(s) + Len(t)) : i > Len(s) => (s \o t)[i] = t[i - Len(s)]
  BY <1>1, Concatenated, Zenon
<1>2. PICK m \in Nat, n \in Nat, u \in Seq(Stages) :
        /\ u = s \o t /\ m = Len(s) /\ n = Len(t) /\ Len(u) = m + n
        /\ \A i \in 1 .. m : u[i] = s[i]
        /\ \A i \in 1 .. (m + n) : i > m => u[i] = t[i - m]
  BY <1>0
<1>3. PICK f \in [0 .. m -> Nat] :
        f[0] = a /\ f[m] = b /\ \A i \in 1 .. m : f[i - 1] = Before[s[i]] /\ f[i] = After[s[i]]
  BY <1>2 DEF Climbs
<1>4. PICK g \in [0 .. n -> Nat] :
        g[0] = b /\ g[n] = c /\ \A i \in 1 .. n : g[i - 1] = Before[t[i]] /\ g[i] = After[t[i]]
  BY <1>2 DEF Climbs
<1>6. PICK h \in [0 .. (m + n) -> Nat] :
        (\A p \in 0 .. m : h[p] = f[p]) /\ \A p \in m .. (m + n) : h[p] = g[p - m]
  <2> DEFINE h == [p \in 0 .. (m + n) |-> IF p <= m THEN f[p] ELSE g[p - m]]
  <2>1. h \in [0 .. (m + n) -> Nat]
    OBVIOUS
  <2>2. \A p \in 0 .. m : h[p] = f[p]
    OBVIOUS
  <2>3. ASSUME NEW p \in m .. (m + n) PROVE h[p] = g[p - m]
    <3>1. CASE p = m
      <4>1. h[m] = f[m] /\ m - m = 0
        OBVIOUS
      <4> QED BY <1>3, <1>4, <3>1, <4>1
    <3>2. CASE p # m
      <4>1. p \in 0 .. (m + n) /\ ~(p <= m)
        BY <3>2
      <4> QED BY <4>1
    <3> QED BY <3>1, <3>2
  <2> HIDE DEF h
  <2> QED BY <2>1, <2>2, <2>3
<1>7. h[0] = a /\ h[m + n] = c
  <2>1. 0 \in 0 .. m /\ m + n \in m .. (m + n) /\ (m + n) - m = n
    OBVIOUS
  <2>2. h[0] = f[0] /\ h[m + n] = g[(m + n) - m]
    BY <1>6, <2>1
  <2> QED BY <1>3, <1>4, <2>1, <2>2
<1>8. ASSUME NEW i \in 1 .. (m + n) PROVE h[i - 1] = Before[u[i]] /\ h[i] = After[u[i]]
  <2>1. CASE i <= m
    <3>0. PICK p \in 0 .. m : p = i - 1 /\ i \in 1 .. m /\ i \in 0 .. m
      BY <2>1
    <3>1. h[p] = f[p] /\ h[i] = f[i]
      BY <1>6, <3>0
    <3>2. u[i] = s[i]
      BY <1>2, <3>0
    <3> QED BY <1>3, <3>0, <3>1, <3>2
  <2>2. CASE i > m
    <3>1. PICK j \in 1 .. n, p \in m .. (m + n) :
            j = i - m /\ p = i - 1 /\ p - m = j - 1 /\ i \in m .. (m + n)
      BY <2>2
    <3>4. h[p] = g[p - m] /\ h[i] = g[i - m]
      BY <1>6, <3>1
    <3>2. u[i] = t[i - m] /\ h[p] = g[p - m] /\ h[i] = g[i - m]
      BY <1>2, <2>2, <3>4
    <3>3. h[i - 1] = g[j - 1] /\ h[i] = g[j] /\ u[i] = t[j]
      BY <3>1, <3>2
    <3> QED BY <1>4, <3>1, <3>3
  <2> QED BY <2>1, <2>2
<1>9. /\ u \in Seq(Stages) /\ h \in [0 .. Len(u) -> Nat] /\ h[0] = a /\ h[Len(u)] = c
      /\ \A i \in 1 .. Len(u) : h[i - 1] = Before[u[i]] /\ h[i] = After[u[i]]
  BY <1>2, <1>7, <1>8
<1>10. Climbs(u, a, c)
  BY <1>9, Zenon DEF Climbs
<1> QED BY <1>2, <1>10

\* Programs one after the other.
LEMMA RunsJoin ==
  ASSUME NEW s, NEW t, NEW a, NEW b, NEW c, Runs(s, a, b), Runs(t, b, c)
  PROVE  Runs(s \o t, a, c)
<1> DEFINE T == Stages \X Sides
<1>1. s \in Seq(T) /\ t \in Seq(T)
  BY DEF Runs, Along
<1> HIDE DEF T
<1>0. /\ s \o t \in Seq(T) /\ Len(s \o t) = Len(s) + Len(t) /\ Len(s) \in Nat /\ Len(t) \in Nat
      /\ \A i \in 1 .. Len(s) : (s \o t)[i] = s[i]
      /\ \A i \in 1 .. (Len(s) + Len(t)) : i > Len(s) => (s \o t)[i] = t[i - Len(s)]
  BY <1>1, Concatenated, Zenon
<1>2. PICK m \in Nat, n \in Nat, u \in Seq(T) :
        /\ u = s \o t /\ m = Len(s) /\ n = Len(t) /\ Len(u) = m + n
        /\ \A i \in 1 .. m : u[i] = s[i]
        /\ \A i \in 1 .. (m + n) : i > m => u[i] = t[i - m]
  BY <1>0
<1>3. PICK f \in [0 .. m -> Levels] : f[0] = a /\ f[m] = b /\ \A i \in 1 .. m : Moves(s[i], f[i - 1], f[i])
  BY <1>2 DEF Runs, Along
<1>4. PICK g \in [0 .. n -> Levels] : g[0] = b /\ g[n] = c /\ \A i \in 1 .. n : Moves(t[i], g[i - 1], g[i])
  BY <1>2 DEF Runs, Along
<1>6. PICK h \in [0 .. (m + n) -> Levels] :
        (\A p \in 0 .. m : h[p] = f[p]) /\ \A p \in m .. (m + n) : h[p] = g[p - m]
  <2> DEFINE h == [p \in 0 .. (m + n) |-> IF p <= m THEN f[p] ELSE g[p - m]]
  <2>1. h \in [0 .. (m + n) -> Levels]
    OBVIOUS
  <2>2. \A p \in 0 .. m : h[p] = f[p]
    OBVIOUS
  <2>3. ASSUME NEW p \in m .. (m + n) PROVE h[p] = g[p - m]
    <3>1. CASE p = m
      <4>1. h[m] = f[m] /\ m - m = 0
        OBVIOUS
      <4> QED BY <1>3, <1>4, <3>1, <4>1
    <3>2. CASE p # m
      <4>1. p \in 0 .. (m + n) /\ ~(p <= m)
        BY <3>2
      <4> QED BY <4>1
    <3> QED BY <3>1, <3>2
  <2> HIDE DEF h
  <2> QED BY <2>1, <2>2, <2>3
<1>7. h[0] = a /\ h[m + n] = c
  <2>1. 0 \in 0 .. m /\ m + n \in m .. (m + n) /\ (m + n) - m = n
    OBVIOUS
  <2>2. h[0] = f[0] /\ h[m + n] = g[(m + n) - m]
    BY <1>6, <2>1
  <2> QED BY <1>3, <1>4, <2>1, <2>2
<1>8. ASSUME NEW i \in 1 .. (m + n) PROVE Moves(u[i], h[i - 1], h[i])
  <2>1. CASE i <= m
    <3>0. PICK p \in 0 .. m : p = i - 1 /\ i \in 1 .. m /\ i \in 0 .. m
      BY <2>1
    <3>1. h[p] = f[p] /\ h[i] = f[i]
      BY <1>6, <3>0
    <3>2. u[i] = s[i]
      BY <1>2, <3>0
    <3> QED BY <1>3, <3>0, <3>1, <3>2
  <2>2. CASE i > m
    <3>1. PICK j \in 1 .. n, p \in m .. (m + n) :
            j = i - m /\ p = i - 1 /\ p - m = j - 1 /\ i \in m .. (m + n)
      BY <2>2
    <3>4. h[p] = g[p - m] /\ h[i] = g[i - m]
      BY <1>6, <3>1
    <3>2. u[i] = t[i - m] /\ h[p] = g[p - m] /\ h[i] = g[i - m]
      BY <1>2, <2>2, <3>4
    <3>3. h[i - 1] = g[j - 1] /\ h[i] = g[j] /\ u[i] = t[j]
      BY <3>1, <3>2
    <3> QED BY <1>4, <3>1, <3>3
  <2> QED BY <2>1, <2>2
<1> QED BY <1>2, <1>7, <1>8 DEF Runs, Along, T

\* The stages of one point.
LEMMA RunsOf ==
  ASSUME NEW ops, NEW m, NEW n, Climbs(ops, m, n), NEW w \in Sides, NEW c \in Levels, c[w] = m
  PROVE  Runs(Of(w, ops), c, [c EXCEPT ![w] = n])
<1>1. PICK k \in Nat : k = Len(ops) /\ ops \in Seq(Stages)
  BY LenProperties DEF Climbs
<1>2. PICK f \in [0 .. k -> Nat] :
        f[0] = m /\ f[k] = n /\ \A i \in 1 .. k : f[i - 1] = Before[ops[i]] /\ f[i] = After[ops[i]]
  BY <1>1 DEF Climbs
<1> DEFINE s == Of(w, ops)
           h == [i \in 0 .. k |-> [c EXCEPT ![w] = f[i]]]
<1>3. \A i \in 1 .. k : ops[i] \in Stages
  BY <1>1
<1>4. s = [i \in 1 .. k |-> <<ops[i], w>>]
  BY <1>1 DEF Of
<1>5. s \in Seq(Stages \X Sides) /\ Len(s) = k
  <2>1. s \in [1 .. k -> Stages \X Sides]
    BY <1>3, <1>4
  <2> HIDE DEF s
  <2> QED BY <2>1
<1>6. h \in [0 .. k -> Levels] /\ h[0] = c /\ h[k] = [c EXCEPT ![w] = n]
  BY <1>2 DEF Levels
<1>7. ASSUME NEW i \in 1 .. k PROVE Moves(s[i], h[i - 1], h[i])
  <2>1. s[i] = <<ops[i], w>>
    BY <1>4
  <2>2. PICK p, q : p = h[i - 1] /\ q = h[i]
    OBVIOUS
  <2>3. p = [c EXCEPT ![w] = f[i - 1]] /\ q = [c EXCEPT ![w] = f[i]]
    <3>1. i - 1 \in 0 .. k /\ i \in 0 .. k
      OBVIOUS
    <3> QED BY <2>2, <3>1
  <2>4. p[w] = f[i - 1] /\ q = [p EXCEPT ![w] = f[i]]
    BY <2>3 DEF Levels
  <2>5. Moves(<<ops[i], w>>, p, q)
    <3>1. ops[i] \in Stages /\ p[w] = Before[ops[i]] /\ q = [p EXCEPT ![w] = After[ops[i]]]
      BY <1>2, <1>3, <2>4
    <3> QED BY <3>1, MovesBy, Zenon
  <2> HIDE DEF h, s
  <2> QED BY <2>1, <2>2, <2>5
<1> HIDE DEF h, s
<1> QED BY <1>5, <1>6, <1>7 DEF Runs, Along, s

\* The stages of both, in lockstep.
LEMMA RunsBoth ==
  ASSUME NEW ops, NEW m \in Nat, NEW n \in Nat, Climbs(ops, m, n)
  PROVE  Runs(Both(ops), [w \in Sides |-> m], [w \in Sides |-> n])
<1>1. PICK k \in Nat : k = Len(ops) /\ ops \in Seq(Stages)
  BY LenProperties DEF Climbs
<1>2. PICK f \in [0 .. k -> Nat] :
        f[0] = m /\ f[k] = n /\ \A i \in 1 .. k : f[i - 1] = Before[ops[i]] /\ f[i] = After[ops[i]]
  BY <1>1 DEF Climbs
<1> DEFINE s == Both(ops)
           Side(i) == IF i % 2 = 1 THEN "A" ELSE "R"
           h == [i \in 0 .. (2 * k) |-> [w \in Sides |-> IF w = "A" THEN f[(i + 1) \div 2] ELSE f[i \div 2]]]
<1>3. \A i \in 1 .. k : ops[i] \in Stages
  BY <1>1
<1>4. s = [i \in 1 .. (2 * k) |-> <<ops[(i + 1) \div 2], Side(i)>>]
  BY <1>1 DEF Both
<1>5. s \in Seq(Stages \X Sides) /\ Len(s) = 2 * k
  <2>1. s \in [1 .. (2 * k) -> Stages \X Sides]
    <3>1. \A i \in 1 .. (2 * k) : (i + 1) \div 2 \in 1 .. k
      OBVIOUS
    <3> QED BY <1>3, <1>4, <3>1 DEF Sides
  <2> HIDE DEF s
  <2> QED BY <2>1
<1>6. h \in [0 .. (2 * k) -> Levels] /\ h[0] = [w \in Sides |-> m] /\ h[2 * k] = [w \in Sides |-> n]
  <2>1. \A i \in 0 .. (2 * k) : (i + 1) \div 2 \in 0 .. k /\ i \div 2 \in 0 .. k
    OBVIOUS
  <2>2. (0 + 1) \div 2 = 0 /\ 0 \div 2 = 0 /\ (2 * k + 1) \div 2 = k /\ (2 * k) \div 2 = k
        /\ 0 \in 0 .. (2 * k) /\ 2 * k \in 0 .. (2 * k)
    OBVIOUS
  <2> QED BY <1>2, <2>1, <2>2 DEF Levels
<1>7. ASSUME NEW i \in 1 .. (2 * k) PROVE Moves(s[i], h[i - 1], h[i])
  <2>0. PICK j \in 1 .. k : j = (i + 1) \div 2
    OBVIOUS
  <2>1. s[i] = <<ops[j], Side(i)>> /\ Side(i) \in Sides
    BY <1>4, <2>0 DEF Sides
  <2>2. CASE i % 2 = 1
    <3>1. ((i - 1) + 1) \div 2 = j - 1 /\ (i - 1) \div 2 = j - 1 /\ (i + 1) \div 2 = j /\ i \div 2 = j - 1
          /\ i - 1 \in 0 .. (2 * k) /\ i \in 0 .. (2 * k)
      BY <2>0, <2>2
    <3>2. h[i - 1] = [w \in Sides |-> IF w = "A" THEN f[j - 1] ELSE f[j - 1]]
          /\ h[i] = [w \in Sides |-> IF w = "A" THEN f[j] ELSE f[j - 1]]
      BY <3>1
    <3>3. h[i - 1]["A"] = f[j - 1] /\ h[i] = [h[i - 1] EXCEPT !["A"] = f[j]]
      BY <3>2, ZenonT(60) DEF Sides
    <3>4. Side(i) = "A"
      BY <2>2
    <3> HIDE DEF h, s, Side
    <3>5. PICK p, q : p = h[i - 1] /\ q = h[i]
      OBVIOUS
    <3>6. Moves(<<ops[j], "A">>, p, q)
      <4>1. /\ ops[j] \in Stages /\ "A" \in Sides /\ p["A"] = Before[ops[j]]
            /\ q = [p EXCEPT !["A"] = After[ops[j]]]
        BY <1>2, <1>3, <3>3, <3>5 DEF Sides
      <4> QED BY <4>1, MovesBy, Zenon
    <3> QED BY <2>1, <3>4, <3>5, <3>6
  <2>3. CASE i % 2 # 1
    <3>1. ((i - 1) + 1) \div 2 = j /\ (i - 1) \div 2 = j - 1 /\ (i + 1) \div 2 = j /\ i \div 2 = j
          /\ i - 1 \in 0 .. (2 * k) /\ i \in 0 .. (2 * k)
      BY <2>0, <2>3
    <3>2. h[i - 1] = [w \in Sides |-> IF w = "A" THEN f[j] ELSE f[j - 1]]
          /\ h[i] = [w \in Sides |-> IF w = "A" THEN f[j] ELSE f[j]]
      BY <3>1
    <3>3. h[i - 1]["R"] = f[j - 1] /\ h[i] = [h[i - 1] EXCEPT !["R"] = f[j]]
      BY <3>2, ZenonT(60) DEF Sides
    <3>4. Side(i) = "R"
      BY <2>3
    <3> HIDE DEF h, s, Side
    <3>5. PICK p, q : p = h[i - 1] /\ q = h[i]
      OBVIOUS
    <3>6. Moves(<<ops[j], "R">>, p, q)
      <4>1. /\ ops[j] \in Stages /\ "R" \in Sides /\ p["R"] = Before[ops[j]]
            /\ q = [p EXCEPT !["R"] = After[ops[j]]]
        BY <1>2, <1>3, <3>3, <3>5 DEF Sides
      <4> QED BY <4>1, MovesBy, Zenon
    <3> QED BY <2>1, <3>4, <3>5, <3>6
  <2> QED BY <2>2, <2>3
<1> HIDE DEF h, s
<1> QED BY <1>5, <1>6, <1>7 DEF Runs, Along, s


\* The stages of the programs.
LEMMA Segments ==
  /\ Climbs(Setup, 0, 3) /\ Climbs(sqrtRatio, 3, 10) /\ Climbs(sqrtRatioSignedComposable, 3, 11)
  /\ Climbs(<<"sign">>, 10, 11) /\ Climbs(<<"t">>, 11, 12) /\ Climbs(<<"sign", "t">>, 10, 12)
<1>1. Climbs(Setup, 0, 3)
  <2> DEFINE f == [i \in 0 .. 3 |-> i]
  <2>1. Setup \in Seq(Stages) /\ Len(Setup) = 3
    BY DEF Setup, Stages
  <2>2. f \in [0 .. 3 -> Nat] /\ f[0] = 0 /\ f[3] = 3
    OBVIOUS
  <2>3. \A i \in 1 .. 3 : f[i - 1] = Before[Setup[i]] /\ f[i] = After[Setup[i]]
    BY DEF Setup, Before, After
  <2> QED BY <2>1, <2>2, <2>3, ZenonT(60) DEF Climbs
<1>2. Climbs(sqrtRatio, 3, 10)
  <2> DEFINE f == [i \in 0 .. 7 |-> i + 3]
  <2>1. sqrtRatio \in Seq(Stages) /\ Len(sqrtRatio) = 7
    BY DEF sqrtRatio, Stages
  <2>2. f \in [0 .. 7 -> Nat] /\ f[0] = 3 /\ f[7] = 10
    OBVIOUS
  <2>3. \A i \in 1 .. 7 : f[i - 1] = Before[sqrtRatio[i]] /\ f[i] = After[sqrtRatio[i]]
    BY DEF sqrtRatio, Before, After
  <2> QED BY <2>1, <2>2, <2>3, ZenonT(60) DEF Climbs
<1>3. Climbs(sqrtRatioSignedComposable, 3, 11)
  <2> DEFINE s == sqrtRatioSignedComposable
             f == [i \in 0 .. 7 |-> IF i = 7 THEN 11 ELSE i + 3]
  <2>1. s \in Seq(Stages) /\ Len(s) = 7
    BY DEF sqrtRatioSignedComposable, Stages
  <2>2. f \in [0 .. 7 -> Nat] /\ f[0] = 3 /\ f[7] = 11
    OBVIOUS
  <2>3. \A i \in 1 .. 7 : f[i - 1] = Before[s[i]] /\ f[i] = After[s[i]]
    BY DEF sqrtRatioSignedComposable, Before, After
  <2> HIDE DEF s, f
  <2>4. /\ f \in [0 .. Len(s) -> Nat] /\ f[0] = 3 /\ f[Len(s)] = 11
        /\ \A i \in 1 .. Len(s) : f[i - 1] = Before[s[i]] /\ f[i] = After[s[i]]
    BY <2>1, <2>2, <2>3
  <2>5. Climbs(s, 3, 11)
    BY <2>1, <2>4, Zenon DEF Climbs
  <2> QED BY <2>5 DEF s
<1>4. Climbs(<<"sign">>, 10, 11) /\ Climbs(<<"t">>, 11, 12) /\ Climbs(<<"sign", "t">>, 10, 12)
  <2> DEFINE f == [i \in 0 .. 1 |-> i + 10]  g == [i \in 0 .. 1 |-> i + 11]  h == [i \in 0 .. 2 |-> i + 10]
  <2>1. /\ <<"sign">> \in Seq(Stages) /\ <<"t">> \in Seq(Stages) /\ <<"sign", "t">> \in Seq(Stages)
        /\ Len(<<"sign">>) = 1 /\ Len(<<"t">>) = 1 /\ Len(<<"sign", "t">>) = 2
    BY DEF Stages
  <2>2. /\ f \in [0 .. 1 -> Nat] /\ f[0] = 10 /\ f[1] = 11 /\ g \in [0 .. 1 -> Nat] /\ g[0] = 11 /\ g[1] = 12
        /\ h \in [0 .. 2 -> Nat] /\ h[0] = 10 /\ h[2] = 12
    OBVIOUS
  <2>3. \A i \in 1 .. 1 : /\ f[i - 1] = Before[<<"sign">>[i]] /\ f[i] = After[<<"sign">>[i]]
                         /\ g[i - 1] = Before[<<"t">>[i]] /\ g[i] = After[<<"t">>[i]]
    BY DEF Before, After
  <2>4. \A i \in 1 .. 2 : h[i - 1] = Before[<<"sign", "t">>[i]] /\ h[i] = After[<<"sign", "t">>[i]]
    BY DEF Before, After
  <2>5. Climbs(<<"sign">>, 10, 11)
    BY <2>1, <2>2, <2>3 DEF Climbs
  <2>6. Climbs(<<"t">>, 11, 12)
    BY <2>1, <2>2, <2>3 DEF Climbs
  <2>7. Climbs(<<"sign", "t">>, 10, 12)
    BY <2>1, <2>2, <2>4 DEF Climbs
  <2> QED BY <2>5, <2>6, <2>7
<1> QED BY <1>1, <1>2, <1>3, <1>4

\* Where a decoder's points end.
Ends(d) == [w \in Sides |-> IF w = "A" THEN 12 ELSE IF d \in Paired THEN 11 ELSE 0]

\* Every decoder takes the points it returns all the way.
LEMMA Programs ==
  ASSUME NEW d \in Decoders
  PROVE  Runs(Program[d], [w \in Sides |-> 0], Ends(d))
<1> DEFINE L(a, r) == [w \in Sides |-> IF w = "A" THEN a ELSE r]
<1>1. ASSUME NEW ops, NEW m \in Nat, NEW n \in Nat, NEW r \in Nat, Climbs(ops, m, n)
      PROVE  Runs(Of("A", ops), L(m, r), L(n, r)) /\ Runs(Of("R", ops), L(r, m), L(r, n))
  <2>1. L(m, r) \in Levels /\ L(r, m) \in Levels /\ L(m, r)["A"] = m /\ L(r, m)["R"] = m
        /\ "A" \in Sides /\ "R" \in Sides
    BY DEF Levels, Sides
  <2>2. [L(m, r) EXCEPT !["A"] = n] = L(n, r) /\ [L(r, m) EXCEPT !["R"] = n] = L(r, n)
    BY DEF Sides
  <2> HIDE DEF L
  <2>3. Runs(Of("A", ops), L(m, r), [L(m, r) EXCEPT !["A"] = n])
    BY <1>1, <2>1, RunsOf
  <2>4. Runs(Of("R", ops), L(r, m), [L(r, m) EXCEPT !["R"] = n])
    BY <1>1, <2>1, RunsOf
  <2> QED BY <2>2, <2>3, <2>4
<1>2. ASSUME NEW ops, NEW m \in Nat, NEW n \in Nat, Climbs(ops, m, n)
      PROVE  Runs(Both(ops), L(m, m), L(n, n))
  <2>1. L(m, m) = [w \in Sides |-> m] /\ L(n, n) = [w \in Sides |-> n]
    OBVIOUS
  <2> QED BY <1>2, <2>1, RunsBoth
<1>t. <<<<"t", "A">>>> = Of("A", <<"t">>)
  BY DEF Of
<1>3. Ends(d) = L(12, IF d \in Paired THEN 11 ELSE 0) /\ [w \in Sides |-> 0] = L(0, 0)
  BY DEF Ends
<1> HIDE DEF L
<1>4. Runs(Both(Setup) \o Both(sqrtRatio) \o Both(<<"sign">>) \o <<<<"t", "A">>>>, L(0, 0), L(12, 11))
  <2>1. Runs(Both(Setup), L(0, 0), L(3, 3)) /\ Runs(Both(sqrtRatio), L(3, 3), L(10, 10))
        /\ Runs(Both(<<"sign">>), L(10, 10), L(11, 11))
    BY <1>2, Segments
  <2>2. Runs(<<<<"t", "A">>>>, L(11, 11), L(12, 11))
    BY <1>1, <1>t, Segments
  <2>3. Runs(Both(Setup) \o Both(sqrtRatio), L(0, 0), L(10, 10))
    BY <2>1, RunsJoin
  <2>4. Runs(Both(Setup) \o Both(sqrtRatio) \o Both(<<"sign">>), L(0, 0), L(11, 11))
    BY <2>1, <2>3, RunsJoin
  <2> QED BY <2>2, <2>4, RunsJoin
<1>5. Runs(decodeOne("A"), L(0, 0), L(11, 0)) /\ Runs(decodeOne("R"), L(11, 0), L(11, 11))
  <2>1. Runs(Of("A", Setup), L(0, 0), L(3, 0)) /\ Runs(Of("A", sqrtRatio), L(3, 0), L(10, 0))
        /\ Runs(Of("A", <<"sign">>), L(10, 0), L(11, 0))
    BY <1>1, Segments
  <2>2. Runs(Of("R", Setup), L(11, 0), L(11, 3)) /\ Runs(Of("R", sqrtRatio), L(11, 3), L(11, 10))
        /\ Runs(Of("R", <<"sign">>), L(11, 10), L(11, 11))
    BY <1>1, Segments
  <2>3. Runs(Of("A", Setup) \o Of("A", sqrtRatio), L(0, 0), L(10, 0))
        /\ Runs(Of("R", Setup) \o Of("R", sqrtRatio), L(11, 0), L(11, 10))
    BY <2>1, <2>2, RunsJoin
  <2>4. Runs(Of("A", Setup) \o Of("A", sqrtRatio) \o Of("A", <<"sign">>), L(0, 0), L(11, 0))
    BY <2>1, <2>3, RunsJoin
  <2>5. Runs(Of("R", Setup) \o Of("R", sqrtRatio) \o Of("R", <<"sign">>), L(11, 0), L(11, 11))
    BY <2>2, <2>3, RunsJoin
  <2> QED BY <2>4, <2>5 DEF decodeOne
<1>6. Runs(decodeOne("A") \o <<<<"t", "A">>>>, L(0, 0), L(12, 0))
  <2>1. Runs(<<<<"t", "A">>>>, L(11, 0), L(12, 0))
    BY <1>1, <1>t, Segments
  <2> QED BY <1>5, <2>1, RunsJoin
<1>7. Runs(decodeOne("A") \o decodeOne("R") \o <<<<"t", "A">>>>, L(0, 0), L(12, 11))
  <2>1. Runs(<<<<"t", "A">>>>, L(11, 11), L(12, 11))
    BY <1>1, <1>t, Segments
  <2>2. Runs(decodeOne("A") \o decodeOne("R"), L(0, 0), L(11, 11))
    BY <1>5, RunsJoin
  <2> QED BY <2>1, <2>2, RunsJoin
<1>8. Runs(Of("A", Setup \o sqrtRatioSignedComposable \o <<"t">>), L(0, 0), L(12, 0))
  <2>1. Climbs(Setup \o sqrtRatioSignedComposable, 0, 11)
    BY Segments, ClimbsJoin
  <2>2. Climbs(Setup \o sqrtRatioSignedComposable \o <<"t">>, 0, 12)
    BY <2>1, Segments, ClimbsJoin
  <2> QED BY <1>1, <2>2
<1>9. Runs(Of("A", Setup \o sqrtRatio \o <<"sign", "t">>), L(0, 0), L(12, 0))
  <2>1. Climbs(Setup \o sqrtRatio, 0, 10)
    BY Segments, ClimbsJoin
  <2>2. Climbs(Setup \o sqrtRatio \o <<"sign", "t">>, 0, 12)
    BY <2>1, Segments, ClimbsJoin
  <2> QED BY <1>1, <2>2
<1>10. CASE d \in {"Decode2NoT", "decode2NoTIFMA", "r43Decode2NoT"}
  <2>1. Program[d] = Both(Setup) \o Both(sqrtRatio) \o Both(<<"sign">>) \o <<<<"t", "A">>>> /\ d \in Paired
    BY <1>10 DEF Program, Decode2NoT, decode2NoTIFMA, r43Decode2NoT, sqrtRatioPair, sqrtRatioPairIFMA,
       sqrtRatio2, Paired
  <2> QED BY <1>3, <1>4, <2>1
<1>11. CASE d = "decode2NoTIFMAIndependent"
  <2>1. Program[d] = decodeOne("A") \o decodeOne("R") \o <<<<"t", "A">>>> /\ d \in Paired
    BY <1>11 DEF Program, decode2NoTIFMAIndependent, Paired
  <2> QED BY <1>3, <1>7, <2>1
<1>12. CASE d \in {"decodeIFMA", "SetBytes"}
  <2>1. Program[d] = decodeOne("A") \o <<<<"t", "A">>>> /\ d \notin Paired
    BY <1>12 DEF Program, decodeIFMA, SetBytes, Paired
  <2> QED BY <1>3, <1>6, <2>1
<1>13. CASE d = "decodeComposableIFMA"
  <2>1. Program[d] = Of("A", Setup \o sqrtRatioSignedComposable \o <<"t">>) /\ d \notin Paired
    BY <1>13 DEF Program, decodeComposableIFMA, Paired
  <2> QED BY <1>3, <1>8, <2>1
<1>14. CASE d \in {"r43SetBytes", "vendoredSetBytes"}
  <2>1. Program[d] = Of("A", Setup \o sqrtRatio \o <<"sign", "t">>) /\ d \notin Paired
    BY <1>14 DEF Program, r43SetBytes, vendoredSetBytes, r43SqrtRatio, feSqrtRatio, Paired
  <2> QED BY <1>3, <1>9, <2>1
<1>15. d \in {"Decode2NoT", "decode2NoTIFMA", "decode2NoTIFMAIndependent", "decodeIFMA", "decodeComposableIFMA",
              "r43Decode2NoT", "SetBytes", "r43SetBytes", "vendoredSetBytes"}
  BY DEF Decoders, Program
<1> QED BY <1>10, <1>11, <1>12, <1>13, <1>14, <1>15

-----------------------------------------------------------------------------
\* Lanes.

\* What the registers of a lane hold at a level.
LaneAt(g, e, on, k) ==
  /\ k \in 0 .. 12 /\ g = [f \in DOMAIN Registers |-> g[f]]
  /\ k >= 1 => g.y = decodeY(e, on)
  /\ k >= 2 => g.y2 = Times(g.y, g.y) /\ g.u = Sub(Times(g.y, g.y), 1)
  /\ k >= 3 => g.v = (Times(g.y2, D) + 1) % P
  /\ k >= 4 => g.uv = Times(g.u, g.v)
  /\ k >= 5 => g.pow = Pow22523(g.uv)
  /\ k >= 6 => g.root = Times(g.u, g.pow)
  /\ k >= 7 => g.root2 = Times(g.root, g.root)
  /\ k >= 8 => g.check = Times(g.v, g.root2)
  /\ k >= 9 => g.negUI = Times(Negate(g.u), SqrtM1)
  /\ k >= 10 => (g.square <=> Correct(g) \/ Flipped(g))
  /\ k = 10 => g.x = conditionalNegate(SelectedRoot(g), IsNegative(SelectedRoot(g)) = 1)
  /\ k >= 11 => \/ g.x = applyEncodedSign(conditionalNegate(SelectedRoot(g), IsNegative(SelectedRoot(g)) = 1), e, on)
                \/ g.x = signedRoot(SelectedRoot(g), e, on)
  /\ k >= 12 => g.t = Times(g.x, g.y)

\* Each stage does its level's work.
LEMMA StageHolds ==
  ASSUME NEW op \in Stages, NEW g, NEW e, NEW on, LaneAt(g, e, on, Before[op])
  PROVE  LaneAt(Stage(op, g, e, on), e, on, After[op])
<1> DEFINE h == Stage(op, g, e, on)
<1>1. g = [f \in DOMAIN Registers |-> g[f]]
  BY DEF LaneAt
<1>2. CASE op = "y"
  <2>1. h = [g EXCEPT !.y = decodeY(e, on)]
    BY <1>2, Zenon DEF Stage
  <2>2. Before[op] = 0 /\ After[op] = 1
    BY <1>2 DEF Before, After
  <2> HIDE DEF h
  <2>3. LaneAt(h, e, on, 1)
    BY <1>1, <2>1 DEF LaneAt, Registers
  <2> QED BY <2>2, <2>3 DEF h
<1>3. CASE op = "y2"
  <2>1. h = [g EXCEPT !.y2 = Times(g.y, g.y), !.u = Sub(Times(g.y, g.y), 1)]
    BY <1>3, Zenon DEF Stage
  <2>2. Before[op] = 1 /\ After[op] = 2
    BY <1>3 DEF Before, After
  <2> HIDE DEF h
  <2>4. /\ h = [f \in DOMAIN Registers |-> h[f]] /\ h.y = g.y
        /\ h.y2 = Times(g.y, g.y) /\ h.u = Sub(Times(g.y, g.y), 1)
    <3>1. PICK m, b, c : m = [g EXCEPT !.y2 = b] /\ b = Times(g.y, g.y) /\ c = Sub(Times(g.y, g.y), 1)
      OBVIOUS
    <3>2. h = [m EXCEPT !.u = c]
      BY <2>1, <3>1
    <3>3. m = [f \in DOMAIN Registers |-> m[f]] /\ m.y2 = b /\ m.y = g.y
      BY <1>1, <3>1 DEF Registers
    <3>4. h = [f \in DOMAIN Registers |-> h[f]] /\ h.y2 = b /\ h.y = g.y /\ h.u = c
      BY <3>2, <3>3 DEF Registers
    <3> QED BY <3>1, <3>4
  <2>3. LaneAt(h, e, on, 2)
    BY <2>2, <2>4 DEF LaneAt
  <2> QED BY <2>2, <2>3 DEF h
<1>4. CASE op = "v"
  <2>1. h = [g EXCEPT !.v = (Times(g.y2, D) + 1) % P]
    BY <1>4, Zenon DEF Stage
  <2>2. Before[op] = 2 /\ After[op] = 3
    BY <1>4 DEF Before, After
  <2> HIDE DEF h
  <2>3. LaneAt(h, e, on, 3)
    BY <1>1, <2>1, <2>2 DEF LaneAt, Registers
  <2> QED BY <2>2, <2>3 DEF h
<1>5. CASE op = "uv"
  <2>1. h = [g EXCEPT !.uv = Times(g.u, g.v)]
    BY <1>5, Zenon DEF Stage
  <2>2. Before[op] = 3 /\ After[op] = 4
    BY <1>5 DEF Before, After
  <2> HIDE DEF h
  <2>3. LaneAt(h, e, on, 4)
    BY <1>1, <2>1, <2>2 DEF LaneAt, Registers
  <2> QED BY <2>2, <2>3 DEF h
<1>6. CASE op = "pow"
  <2>1. h = [g EXCEPT !.pow = Pow22523(g.uv)]
    BY <1>6, Zenon DEF Stage
  <2>2. Before[op] = 4 /\ After[op] = 5
    BY <1>6 DEF Before, After
  <2> HIDE DEF h
  <2>3. LaneAt(h, e, on, 5)
    BY <1>1, <2>1, <2>2 DEF LaneAt, Registers
  <2> QED BY <2>2, <2>3 DEF h
<1>7. CASE op = "root"
  <2>1. h = [g EXCEPT !.root = Times(g.u, g.pow)]
    BY <1>7, Zenon DEF Stage
  <2>2. Before[op] = 5 /\ After[op] = 6
    BY <1>7 DEF Before, After
  <2> HIDE DEF h
  <2>3. LaneAt(h, e, on, 6)
    BY <1>1, <2>1, <2>2 DEF LaneAt, Registers
  <2> QED BY <2>2, <2>3 DEF h
<1>8. CASE op = "root2"
  <2>1. h = [g EXCEPT !.root2 = Times(g.root, g.root)]
    BY <1>8, Zenon DEF Stage
  <2>2. Before[op] = 6 /\ After[op] = 7
    BY <1>8 DEF Before, After
  <2> HIDE DEF h
  <2>3. LaneAt(h, e, on, 7)
    BY <1>1, <2>1, <2>2 DEF LaneAt, Registers
  <2> QED BY <2>2, <2>3 DEF h
<1>9. CASE op = "check"
  <2>1. h = [g EXCEPT !.check = Times(g.v, g.root2)]
    BY <1>9, Zenon DEF Stage
  <2>2. Before[op] = 7 /\ After[op] = 8
    BY <1>9 DEF Before, After
  <2> HIDE DEF h
  <2>3. LaneAt(h, e, on, 8)
    BY <1>1, <2>1, <2>2 DEF LaneAt, Registers
  <2> QED BY <2>2, <2>3 DEF h
<1>10. CASE op = "negUI"
  <2>1. h = [g EXCEPT !.negUI = Times(Negate(g.u), SqrtM1)]
    BY <1>10, Zenon DEF Stage
  <2>2. Before[op] = 8 /\ After[op] = 9
    BY <1>10 DEF Before, After
  <2> HIDE DEF h
  <2>3. LaneAt(h, e, on, 9)
    BY <1>1, <2>1, <2>2 DEF LaneAt, Registers
  <2> QED BY <2>2, <2>3 DEF h
<1>11. CASE op = "select"
  <2> DEFINE s == SelectedRoot(g)
  <2>1. h = [g EXCEPT !.x = conditionalNegate(s, IsNegative(s) = 1), !.square = Correct(g) \/ Flipped(g)]
    BY <1>11, Zenon DEF Stage
  <2>2. Before[op] = 9 /\ After[op] = 10
    BY <1>11 DEF Before, After
  <2>3. PICK z : z = conditionalNegate(s, IsNegative(s) = 1)
    OBVIOUS
  <2> HIDE DEF h, s
  <2>4. h = [g EXCEPT !.x = z, !.square = Correct(g) \/ Flipped(g)]
    BY <2>1, <2>3
  <2>5. SelectedRoot(h) = s /\ (h.square <=> Correct(h) \/ Flipped(h))
    BY <1>1, <2>4 DEF Registers, s, SelectedRoot, decodeSelect, Correct, Flipped, FlippedI
  <2>7. /\ h = [f \in DOMAIN Registers |-> h[f]] /\ h.x = z
        /\ h.y = g.y /\ h.y2 = g.y2 /\ h.u = g.u /\ h.v = g.v /\ h.uv = g.uv /\ h.pow = g.pow
        /\ h.root = g.root /\ h.root2 = g.root2 /\ h.check = g.check /\ h.negUI = g.negUI
    <3>1. PICK m : m = [g EXCEPT !.x = z]
      OBVIOUS
    <3>2. h = [m EXCEPT !.square = Correct(g) \/ Flipped(g)]
      BY <2>4, <3>1
    <3>3. m = [f \in DOMAIN Registers |-> m[f]] /\ m.x = z
          /\ m.y = g.y /\ m.y2 = g.y2 /\ m.u = g.u /\ m.v = g.v /\ m.uv = g.uv /\ m.pow = g.pow
          /\ m.root = g.root /\ m.root2 = g.root2 /\ m.check = g.check /\ m.negUI = g.negUI
      BY <1>1, <3>1 DEF Registers
    <3>4. PICK b : b = (Correct(g) \/ Flipped(g))
      OBVIOUS
    <3>5. h = [m EXCEPT !.square = b]
      BY <3>2, <3>4
    <3> QED BY <3>3, <3>5 DEF Registers
  <2>6. LaneAt(h, e, on, 10)
    BY <2>2, <2>3, <2>5, <2>7 DEF LaneAt
  <2> QED BY <2>2, <2>6 DEF h
<1>12. CASE op = "sign"
  <2>1. h = [g EXCEPT !.x = applyEncodedSign(g.x, e, on)]
    BY <1>12, Zenon DEF Stage
  <2>2. Before[op] = 10 /\ After[op] = 11
    BY <1>12 DEF Before, After
  <2>3. PICK z : z = applyEncodedSign(g.x, e, on)
    OBVIOUS
  <2> HIDE DEF h
  <2>4. h = [g EXCEPT !.x = z]
    BY <2>1, <2>3
  <2>5. SelectedRoot(h) = SelectedRoot(g) /\ Correct(h) = Correct(g) /\ Flipped(h) = Flipped(g)
    BY <1>1, <2>4 DEF Registers, SelectedRoot, decodeSelect, Correct, Flipped, FlippedI
  <2>7. /\ h = [f \in DOMAIN Registers |-> h[f]] /\ h.x = z /\ h.square = g.square
        /\ h.y = g.y /\ h.y2 = g.y2 /\ h.u = g.u /\ h.v = g.v /\ h.uv = g.uv /\ h.pow = g.pow
        /\ h.root = g.root /\ h.root2 = g.root2 /\ h.check = g.check /\ h.negUI = g.negUI
    BY <1>1, <2>4, SMTT(30) DEF Registers
  <2>6. LaneAt(h, e, on, 11)
    BY <2>2, <2>3, <2>5, <2>7 DEF LaneAt
  <2> QED BY <2>2, <2>6 DEF h
<1>13. CASE op = "signed"
  <2> DEFINE s == SelectedRoot(g)
  <2>1. h = [g EXCEPT !.x = signedRoot(s, e, on), !.square = Correct(g) \/ Flipped(g)]
    BY <1>13, Zenon DEF Stage
  <2>2. Before[op] = 9 /\ After[op] = 11
    BY <1>13 DEF Before, After
  <2>3. PICK z : z = signedRoot(s, e, on)
    OBVIOUS
  <2> HIDE DEF h, s
  <2>4. h = [g EXCEPT !.x = z, !.square = Correct(g) \/ Flipped(g)]
    BY <2>1, <2>3
  <2>5. SelectedRoot(h) = s /\ (h.square <=> Correct(h) \/ Flipped(h))
    BY <1>1, <2>4 DEF Registers, s, SelectedRoot, decodeSelect, Correct, Flipped, FlippedI
  <2>7. /\ h = [f \in DOMAIN Registers |-> h[f]] /\ h.x = z
        /\ h.y = g.y /\ h.y2 = g.y2 /\ h.u = g.u /\ h.v = g.v /\ h.uv = g.uv /\ h.pow = g.pow
        /\ h.root = g.root /\ h.root2 = g.root2 /\ h.check = g.check /\ h.negUI = g.negUI
    <3>1. PICK m : m = [g EXCEPT !.x = z]
      OBVIOUS
    <3>2. h = [m EXCEPT !.square = Correct(g) \/ Flipped(g)]
      BY <2>4, <3>1
    <3>3. m = [f \in DOMAIN Registers |-> m[f]] /\ m.x = z
          /\ m.y = g.y /\ m.y2 = g.y2 /\ m.u = g.u /\ m.v = g.v /\ m.uv = g.uv /\ m.pow = g.pow
          /\ m.root = g.root /\ m.root2 = g.root2 /\ m.check = g.check /\ m.negUI = g.negUI
      BY <1>1, <3>1 DEF Registers
    <3>4. PICK b : b = (Correct(g) \/ Flipped(g))
      OBVIOUS
    <3>5. h = [m EXCEPT !.square = b]
      BY <3>2, <3>4
    <3> QED BY <3>3, <3>5 DEF Registers
  <2>6. LaneAt(h, e, on, 11)
    BY <2>2, <2>3, <2>5, <2>7 DEF LaneAt
  <2> QED BY <2>2, <2>6 DEF h
<1>14. CASE op = "t"
  <2>1. h = [g EXCEPT !.t = Times(g.x, g.y)]
    BY <1>14, Zenon DEF Stage
  <2>2. Before[op] = 11 /\ After[op] = 12
    BY <1>14 DEF Before, After
  <2> HIDE DEF h
  <2>5. SelectedRoot(h) = SelectedRoot(g) /\ Correct(h) = Correct(g) /\ Flipped(h) = Flipped(g)
    BY <1>1, <2>1 DEF Registers, SelectedRoot, decodeSelect, Correct, Flipped, FlippedI
  <2>6. LaneAt(h, e, on, 12)
    BY <1>1, <2>1, <2>2, <2>5 DEF LaneAt, Registers
  <2> QED BY <2>2, <2>6 DEF h
<1> HIDE DEF h
<1> QED BY <1>2, <1>3, <1>4, <1>5, <1>6, <1>7, <1>8, <1>9, <1>10, <1>11, <1>12, <1>13, <1>14 DEF Stages, h


\* A lane that has got to its sign decodes: it is square exactly if its encoding
\* has a point, and then holds it.
LEMMA LaneDecodes ==
  ASSUME NEW g, NEW e \in Compressed, NEW k \in {11, 12}, LaneAt(g, e, TRUE, k)
  PROVE  /\ g.square => <<g.x, g.y>> \in Decoded(e)
         /\ Decoded(e) # {} => g.square
         /\ k = 12 => g.t = Times(g.x, g.y)
<1>1. PICK y \in Fe : y = e.y % P /\ g.y = y
  <2>1. e.y \in Nat /\ P \in Nat \ {0}
    BY Elements DEF Compressed
  <2>2. e.y % P \in Fe
    BY <2>1 DEF Fe
  <2>3. g.y = e.y % P
    BY DEF LaneAt, decodeY
  <2> QED BY <2>2, <2>3
<1>2. PICK u \in Fe, v \in Fe : /\ u = Sub(Squared(y), 1) /\ v = Plus(Times(Squared(y), D), 1) /\ v # 0
                                /\ g.u = u /\ g.v = v
  <2>1. Squared(y) \in Fe /\ 1 \in Fe
    BY SquareIs, Elements
  <2>2. Sub(Squared(y), 1) \in Fe
    BY <2>1, Linear
  <2>3. g.y2 = Squared(y) /\ g.u = Sub(Squared(y), 1)
    BY <1>1 DEF LaneAt, Squared
  <2>4. g.v = Plus(Times(Squared(y), D), 1)
    <3>1. g.v = (Times(g.y2, D) + 1) % P
      BY DEF LaneAt
    <3> QED BY <2>3, <3>1, Zenon DEF Plus
  <2> QED BY <2>2, <2>3, <2>4, DenominatorNonzero
<1> DEFINE s == SelectedRoot(g)
<1>3. PICK r, c : /\ r = Times(u, Pow22523(Times(u, v))) /\ c = Times(v, Squared(r))
                  /\ s = IF c = Negate(u) \/ c = Times(Negate(u), SqrtM1) THEN Times(r, SqrtM1) ELSE r
                  /\ g.square <=> c = u \/ c = Negate(u)
  <2>1. g.root = Times(u, Pow22523(Times(u, v)))
    BY <1>2 DEF LaneAt
  <2>2. g.check = Times(v, Squared(g.root))
    BY <1>2 DEF LaneAt, Squared
  <2>3. g.negUI = Times(Negate(u), SqrtM1) /\ g.u = u
    BY <1>2 DEF LaneAt
  <2>4. g.square <=> g.check = u \/ g.check = Negate(u)
    BY <2>3 DEF LaneAt, Correct, Flipped
  <2>5. s = IF g.check = Negate(u) \/ g.check = Times(Negate(u), SqrtM1) THEN Times(g.root, SqrtM1) ELSE g.root
    BY <2>3 DEF SelectedRoot, decodeSelect, Flipped, FlippedI
  <2> HIDE DEF s
  <2> QED BY <2>1, <2>2, <2>4, <2>5
<1>4. /\ s \in Fe
      /\ c = u \/ c = Negate(u) => Times(v, Squared(s)) = u
      /\ (\E x \in Fe : Times(v, Squared(x)) = u) => c = u \/ c = Negate(u)
  <2> HIDE DEF s
  <2> QED BY <1>2, <1>3, RootChosen
<1>5. g.x \in Fe /\ Squared(g.x) = Squared(s) /\ (g.x = 0 \/ g.x % 2 = e.sign)
  <2>1. \/ g.x = applyEncodedSign(conditionalNegate(s, IsNegative(s) = 1), e, TRUE)
        \/ g.x = signedRoot(s, e, TRUE)
    <3>1. k >= 11
      OBVIOUS
    <3> QED BY <3>1, Zenon DEF LaneAt
  <2> HIDE DEF s
  <2> QED BY <1>4, <2>1, SignChosen
<1> HIDE DEF s
<1>6. ASSUME NEW x \in Fe
      PROVE  (y * y + P * P - x * x) % P = (1 + D * Times(Times(x, x), Times(y, y))) % P
               <=> Times(v, Squared(x)) = u
  BY <1>2, CurveEquation
<1>7. ASSUME g.square PROVE <<g.x, g.y>> \in Decoded(e)
  <2>1. Times(v, Squared(g.x)) = u
    BY <1>3, <1>4, <1>5, <1>7
  <2>2. (y * y + P * P - g.x * g.x) % P = (1 + D * Times(Times(g.x, g.x), Times(y, y))) % P
    BY <1>5, <1>6, <2>1
  <2> QED BY <1>1, <1>5, <2>2, Zenon DEF Decoded
<1>8. ASSUME Decoded(e) # {} PROVE g.square
  <2>1. PICK x \in Fe : (y * y + P * P - x * x) % P = (1 + D * Times(Times(x, x), Times(y, y))) % P
    BY <1>1, <1>8, Zenon DEF Decoded
  <2>2. Times(v, Squared(x)) = u
    BY <1>6, <2>1
  <2> QED BY <1>3, <1>4, <2>2
<1>9. k = 12 => g.t = Times(g.x, g.y)
  BY DEF LaneAt
<1> QED BY <1>7, <1>8, <1>9

-----------------------------------------------------------------------------
\* Exponentiation chains.

\* The products of the chain.
LEMMA ChainProducts ==
  /\ repeatedSquareMultiply({0}, 1, {}) = {1}
  /\ repeatedSquareMultiply({1}, 2, {0}) = {0, 3}
  /\ repeatedSquareMultiply({0, 3}, 0, {1}) = {0, 1, 3}
  /\ repeatedSquareMultiply({0, 1, 3}, 1, {0, 3}) = 0 .. 4
  /\ repeatedSquareMultiply(0 .. 4, 5, 0 .. 4) = 0 .. 9
  /\ repeatedSquareMultiply(0 .. 9, 10, 0 .. 9) = 0 .. 19
  /\ repeatedSquareMultiply(0 .. 19, 20, 0 .. 19) = 0 .. 39
  /\ repeatedSquareMultiply(0 .. 39, 10, 0 .. 9) = 0 .. 49
  /\ repeatedSquareMultiply(0 .. 49, 50, 0 .. 49) = 0 .. 99
  /\ repeatedSquareMultiply(0 .. 99, 100, 0 .. 99) = 0 .. 199
  /\ repeatedSquareMultiply(0 .. 199, 50, 0 .. 49) = 0 .. 249
  /\ repeatedSquareMultiply(0 .. 249, 2, {0}) = {0} \cup 2 .. 251
  /\ repeatedSquareMultiply(0 .. 249, 5, {0, 1, 3}) = {0, 1, 3} \cup 5 .. 254
<1>1. ASSUME NEW m \in Nat, NEW n \in Nat
      PROVE  repeatedSquareMultiply(0 .. (m - 1), n, 0 .. (n - 1)) = 0 .. (m + n - 1)
  <2>1. Shift(0 .. (m - 1), n) = n .. (m + n - 1)
    <3>1. \A k \in n .. (m + n - 1) : k - n \in 0 .. (m - 1) /\ k = (k - n) + n
      OBVIOUS
    <3> QED BY <3>1 DEF Shift
  <2>2. (n .. (m + n - 1)) \cap (0 .. (n - 1)) = {} /\ (n .. (m + n - 1)) \cup (0 .. (n - 1)) = 0 .. (m + n - 1)
    OBVIOUS
  <2> QED BY <2>1, <2>2 DEF repeatedSquareMultiply
<1>2. /\ repeatedSquareMultiply({0}, 1, {}) = {1}
      /\ repeatedSquareMultiply({1}, 2, {0}) = {0, 3}
      /\ repeatedSquareMultiply({0, 3}, 0, {1}) = {0, 1, 3}
      /\ repeatedSquareMultiply({0, 1, 3}, 1, {0, 3}) = 0 .. 4
  <2>1. /\ Shift({0}, 1) = {1} /\ Shift({1}, 2) = {3} /\ Shift({0, 3}, 0) = {0, 3}
        /\ Shift({0, 1, 3}, 1) = {1, 2, 4}
    BY DEF Shift
  <2> QED BY <2>1 DEF repeatedSquareMultiply
<1>3. /\ repeatedSquareMultiply(0 .. 4, 5, 0 .. 4) = 0 .. 9
      /\ repeatedSquareMultiply(0 .. 9, 10, 0 .. 9) = 0 .. 19
      /\ repeatedSquareMultiply(0 .. 19, 20, 0 .. 19) = 0 .. 39
      /\ repeatedSquareMultiply(0 .. 39, 10, 0 .. 9) = 0 .. 49
  <2>1. /\ repeatedSquareMultiply(0 .. (5 - 1), 5, 0 .. (5 - 1)) = 0 .. (5 + 5 - 1)
        /\ repeatedSquareMultiply(0 .. (10 - 1), 10, 0 .. (10 - 1)) = 0 .. (10 + 10 - 1)
        /\ repeatedSquareMultiply(0 .. (20 - 1), 20, 0 .. (20 - 1)) = 0 .. (20 + 20 - 1)
        /\ repeatedSquareMultiply(0 .. (40 - 1), 10, 0 .. (10 - 1)) = 0 .. (40 + 10 - 1)
    BY <1>1
  <2> QED BY <2>1
<1>4. /\ repeatedSquareMultiply(0 .. 49, 50, 0 .. 49) = 0 .. 99
      /\ repeatedSquareMultiply(0 .. 99, 100, 0 .. 99) = 0 .. 199
      /\ repeatedSquareMultiply(0 .. 199, 50, 0 .. 49) = 0 .. 249
  <2>1. /\ repeatedSquareMultiply(0 .. (50 - 1), 50, 0 .. (50 - 1)) = 0 .. (50 + 50 - 1)
        /\ repeatedSquareMultiply(0 .. (100 - 1), 100, 0 .. (100 - 1)) = 0 .. (100 + 100 - 1)
        /\ repeatedSquareMultiply(0 .. (200 - 1), 50, 0 .. (50 - 1)) = 0 .. (200 + 50 - 1)
    BY <1>1, ZenonT(60)
  <2> QED BY <2>1
<1>5. /\ repeatedSquareMultiply(0 .. 249, 2, {0}) = {0} \cup 2 .. 251
      /\ repeatedSquareMultiply(0 .. 249, 5, {0, 1, 3}) = {0, 1, 3} \cup 5 .. 254
  <2>1. Shift(0 .. 249, 2) = 2 .. 251 /\ Shift(0 .. 249, 5) = 5 .. 254
    <3>1. \A k \in 2 .. 251 : k - 2 \in 0 .. 249 /\ k = (k - 2) + 2
      OBVIOUS
    <3>2. \A k \in 5 .. 254 : k - 5 \in 0 .. 249 /\ k = (k - 5) + 5
      OBVIOUS
    <3> QED BY <3>1, <3>2 DEF Shift
  <2> QED BY <2>1 DEF repeatedSquareMultiply
<1> QED BY <1>2, <1>3, <1>4, <1>5

\* The registers, and what fills the i-th.
Exponent == [ChainRegisters -> SUBSET Int]
Rule(i, tail) == IF i = 12 THEN tail ELSE pow22523Chain[ChainOrder[i]]

\* What a chain computes, register after register.
LEMMA ChainRuns ==
  ASSUME NEW tail \in {pow22523Chain.z, feInvertTail}
  PROVE  \E run \in [0 .. 12 -> Exponent] :
           /\ run[0] = Powers
           /\ \A i \in 1 .. 12 :
                run[i] = [run[i - 1] EXCEPT ![ChainOrder[i]] =
                            repeatedSquareMultiply(run[i - 1][Rule(i, tail)[1]], Rule(i, tail)[2],
                                                   run[i - 1][Rule(i, tail)[3]])]
           /\ Exponents(pow22523Chain, tail) = run[12]["z"]
<1> DEFINE rule(i) == IF i = 12 THEN tail ELSE pow22523Chain[ChainOrder[i]]
           next(i, r) == [r EXCEPT ![ChainOrder[i]] = repeatedSquareMultiply(r[rule(i)[1]], rule(i)[2], r[rule(i)[3]])]
           step == [q \in (1 .. 12) \X Exponent |-> next(q[1], q[2])]
<1>1. ASSUME NEW i \in 1 .. 12
      PROVE  rule(i)[1] \in ChainRegisters /\ rule(i)[2] \in Nat /\ rule(i)[3] \in ChainRegisters
  BY DEF pow22523Chain, feInvertTail, ChainOrder, ChainRegisters
<1> HIDE DEF rule
<1>2. ASSUME NEW i \in 1 .. 12, NEW r \in Exponent PROVE next(i, r) \in Exponent
  <2>1. PICK n \in Nat, x \in SUBSET Int, y \in SUBSET Int :
          n = rule(i)[2] /\ x = r[rule(i)[1]] /\ y = r[rule(i)[3]]
    BY <1>1 DEF Exponent
  <2>2. repeatedSquareMultiply(x, n, y) \in SUBSET Int
    <3>1. \A b \in x : b + n \in Int
      OBVIOUS
    <3>2. Shift(x, n) \in SUBSET Int
      BY <3>1 DEF Shift
    <3>3. PICK shifted \in SUBSET Int : shifted = Shift(x, n)
      BY <3>2
    <3>4. repeatedSquareMultiply(x, n, y) = IF shifted \cap y = {} THEN shifted \cup y ELSE Collision
      BY <3>3 DEF repeatedSquareMultiply
    <3>5. shifted \cup y \in SUBSET Int /\ Collision \in SUBSET Int
      BY DEF Collision
    <3> QED BY <3>4, <3>5
  <2>3. PICK z \in SUBSET Int : z = repeatedSquareMultiply(x, n, y)
    BY <2>2
  <2>4. [r EXCEPT ![ChainOrder[i]] = z] \in Exponent
    BY DEF Exponent
  <2> QED BY <2>1, <2>3, <2>4
<1> HIDE DEF next
<1>3. Powers \in Exponent /\ step \in [(1 .. 12) \X Exponent -> Exponent]
  <2>1. Powers \in Exponent
    BY DEF Powers, Exponent
  <2> QED BY <1>2, <2>1
<1> HIDE DEF step
<1>4. PICK f \in [0 .. 12 -> Exponent] : Computed(f, 12, Powers, step)
  BY <1>3, Computable
<1>5. f = [i \in 0 .. 12 |-> IF i = 0 THEN Powers ELSE next(i, f[i - 1])]
  <2>1. ASSUME NEW i \in 0 .. 12, i # 0 PROVE step[<<i, f[i - 1]>>] = next(i, f[i - 1])
    <3>1. i \in 1 .. 12 /\ i - 1 \in 0 .. 12
      BY <2>1
    <3>2. <<i, f[i - 1]>> \in (1 .. 12) \X Exponent
      BY <3>1
    <3> QED BY <3>2 DEF step
  <2> QED BY <1>4, <2>1 DEF Computed
<1> DEFINE K == CHOOSE k : k = [i \in 0 .. 12 |-> IF i = 0 THEN Powers ELSE next(i, k[i - 1])]
<1>6. Exponents(pow22523Chain, tail) = K[12]["z"]
  BY ZenonT(60) DEF Exponents, next, rule
<1>7. K = [i \in 0 .. 12 |-> IF i = 0 THEN Powers ELSE next(i, K[i - 1])]
  BY <1>5
<1> HIDE DEF K
<1>8. \A i \in 0 .. 12 : K[i] = IF i = 0 THEN Powers ELSE next(i, K[i - 1])
  BY <1>7
<1> DEFINE S == {i \in Nat : i <= 12 => K[i] \in Exponent}
<1>9. 0 \in S
  BY <1>3, <1>8
<1>10. ASSUME NEW i \in Nat, i \in S PROVE i + 1 \in S
  <2>1. SUFFICES ASSUME i + 1 <= 12 PROVE K[i + 1] \in Exponent
    OBVIOUS
  <2>2. i + 1 \in 1 .. 12 /\ i + 1 \in 0 .. 12 /\ i + 1 # 0 /\ (i + 1) - 1 = i /\ K[i] \in Exponent
    BY <1>10, <2>1
  <2>3. K[i + 1] = next(i + 1, K[i])
    BY <1>8, <2>2
  <2> QED BY <1>2, <2>2, <2>3
<1>11. \A i \in Nat : i \in S
  <2> HIDE DEF S
  <2> QED BY <1>9, <1>10, SetInduction
<1>12. K \in [0 .. 12 -> Exponent]
  <2>1. \A i \in 0 .. 12 : K[i] \in Exponent
    BY <1>11
  <2> QED BY <1>7, <2>1
<1>13. K[0] = Powers
  BY <1>8
<1>14. ASSUME NEW i \in 1 .. 12
       PROVE  K[i] = [K[i - 1] EXCEPT ![ChainOrder[i]] =
                        repeatedSquareMultiply(K[i - 1][Rule(i, tail)[1]], Rule(i, tail)[2],
                                               K[i - 1][Rule(i, tail)[3]])]
  <2>1. K[i] = next(i, K[i - 1])
    BY <1>8
  <2> QED BY <2>1, Zenon DEF next, rule, Rule
<1> QED BY <1>6, <1>12, <1>13, <1>14

\* Step by step.
LEMMA ChainSteps ==
  ASSUME NEW tail \in {pow22523Chain.z, feInvertTail}
  PROVE  Exponents(pow22523Chain, tail) =
           repeatedSquareMultiply(0 .. 249, tail[2], IF tail = feInvertTail THEN {0, 1, 3} ELSE {0})
<1>a. PICK run \in [0 .. 12 -> Exponent] :
        /\ run[0] = Powers
        /\ \A i \in 1 .. 12 :
             run[i] = [run[i - 1] EXCEPT ![ChainOrder[i]] =
                         repeatedSquareMultiply(run[i - 1][Rule(i, tail)[1]], Rule(i, tail)[2],
                                                run[i - 1][Rule(i, tail)[3]])]
        /\ Exponents(pow22523Chain, tail) = run[12]["z"]
  BY ChainRuns
<1>0. run[0]["base"] = {0} /\ run[0]["none"] = {}
  BY <1>a DEF Powers, ChainRegisters
<1>1. run[1]["base"] = {0} /\ run[1]["x2"] = {1}
  <2>1. run[1] = [run[0] EXCEPT !["x2"] = repeatedSquareMultiply(run[0]["base"], 1, run[0]["none"])]
    BY <1>a DEF Rule, pow22523Chain, ChainOrder
  <2> QED BY <1>0, <2>1, ChainProducts DEF Exponent, ChainRegisters
<1>2. run[2]["base"] = {0} /\ run[2]["x2"] = {1} /\ run[2]["x9"] = {0, 3}
  <2>1. run[2] = [run[1] EXCEPT !["x9"] = repeatedSquareMultiply(run[1]["x2"], 2, run[1]["base"])]
    BY <1>a DEF Rule, pow22523Chain, ChainOrder
  <2> QED BY <1>1, <2>1, ChainProducts DEF Exponent, ChainRegisters
<1>3. run[3]["base"] = {0} /\ run[3]["x9"] = {0, 3} /\ run[3]["x11"] = {0, 1, 3}
  <2>1. run[3] = [run[2] EXCEPT !["x11"] = repeatedSquareMultiply(run[2]["x9"], 0, run[2]["x2"])]
    BY <1>a DEF Rule, pow22523Chain, ChainOrder
  <2> QED BY <1>2, <2>1, ChainProducts DEF Exponent, ChainRegisters
<1>4. run[4]["base"] = {0} /\ run[4]["x11"] = {0, 1, 3} /\ run[4]["x5"] = 0 .. 4
  <2>1. run[4] = [run[3] EXCEPT !["x5"] = repeatedSquareMultiply(run[3]["x11"], 1, run[3]["x9"])]
    BY <1>a DEF Rule, pow22523Chain, ChainOrder
  <2> QED BY <1>3, <2>1, ChainProducts DEF Exponent, ChainRegisters
<1>5. run[5]["base"] = {0} /\ run[5]["x11"] = {0, 1, 3} /\ run[5]["x10"] = 0 .. 9
  <2>1. run[5] = [run[4] EXCEPT !["x10"] = repeatedSquareMultiply(run[4]["x5"], 5, run[4]["x5"])]
    BY <1>a DEF Rule, pow22523Chain, ChainOrder
  <2> QED BY <1>4, <2>1, ChainProducts DEF Exponent, ChainRegisters
<1>6. /\ run[6]["base"] = {0} /\ run[6]["x11"] = {0, 1, 3} /\ run[6]["x10"] = 0 .. 9
      /\ run[6]["x20"] = 0 .. 19
  <2>1. run[6] = [run[5] EXCEPT !["x20"] = repeatedSquareMultiply(run[5]["x10"], 10, run[5]["x10"])]
    BY <1>a DEF Rule, pow22523Chain, ChainOrder
  <2> QED BY <1>5, <2>1, ChainProducts DEF Exponent, ChainRegisters
<1>7. /\ run[7]["base"] = {0} /\ run[7]["x11"] = {0, 1, 3} /\ run[7]["x10"] = 0 .. 9
      /\ run[7]["x40"] = 0 .. 39
  <2>1. run[7] = [run[6] EXCEPT !["x40"] = repeatedSquareMultiply(run[6]["x20"], 20, run[6]["x20"])]
    BY <1>a DEF Rule, pow22523Chain, ChainOrder
  <2> QED BY <1>6, <2>1, ChainProducts DEF Exponent, ChainRegisters
<1>8. run[8]["base"] = {0} /\ run[8]["x11"] = {0, 1, 3} /\ run[8]["x50"] = 0 .. 49
  <2>1. run[8] = [run[7] EXCEPT !["x50"] = repeatedSquareMultiply(run[7]["x40"], 10, run[7]["x10"])]
    BY <1>a DEF Rule, pow22523Chain, ChainOrder
  <2> QED BY <1>7, <2>1, ChainProducts DEF Exponent, ChainRegisters
<1>9. /\ run[9]["base"] = {0} /\ run[9]["x11"] = {0, 1, 3} /\ run[9]["x50"] = 0 .. 49
      /\ run[9]["x100"] = 0 .. 99
  <2>1. run[9] = [run[8] EXCEPT !["x100"] = repeatedSquareMultiply(run[8]["x50"], 50, run[8]["x50"])]
    BY <1>a DEF Rule, pow22523Chain, ChainOrder
  <2> QED BY <1>8, <2>1, ChainProducts DEF Exponent, ChainRegisters
<1>10. /\ run[10]["base"] = {0} /\ run[10]["x11"] = {0, 1, 3} /\ run[10]["x50"] = 0 .. 49
       /\ run[10]["x200"] = 0 .. 199
  <2>1. run[10] = [run[9] EXCEPT !["x200"] = repeatedSquareMultiply(run[9]["x100"], 100, run[9]["x100"])]
    BY <1>a DEF Rule, pow22523Chain, ChainOrder
  <2> QED BY <1>9, <2>1, ChainProducts DEF Exponent, ChainRegisters
<1>11. run[11]["base"] = {0} /\ run[11]["x11"] = {0, 1, 3} /\ run[11]["x250"] = 0 .. 249
  <2>1. run[11] = [run[10] EXCEPT !["x250"] = repeatedSquareMultiply(run[10]["x200"], 50, run[10]["x50"])]
    BY <1>a DEF Rule, pow22523Chain, ChainOrder
  <2> QED BY <1>10, <2>1, ChainProducts DEF Exponent, ChainRegisters
<1>12. tail[1] = "x250" /\ tail[3] = (IF tail = feInvertTail THEN "x11" ELSE "base")
  BY DEF pow22523Chain, feInvertTail
<1>13. run[12] = [run[11] EXCEPT !["z"] = repeatedSquareMultiply(run[11][tail[1]], tail[2], run[11][tail[3]])]
  BY <1>a DEF Rule, ChainOrder
<1>14. PICK x, y : x = run[11][tail[1]] /\ y = run[11][tail[3]]
  OBVIOUS
<1>15. x = 0 .. 249 /\ y = IF tail = feInvertTail THEN {0, 1, 3} ELSE {0}
  BY <1>11, <1>12, <1>14
<1>16. run[12]["z"] = repeatedSquareMultiply(x, tail[2], y)
  BY <1>13, <1>14 DEF Exponent, ChainRegisters
<1> QED BY <1>a, <1>15, <1>16

\* All chains raise to the power they are for.
LEMMA ChainAlways == ChainExact
<1>1. Exponents(pow22523Chain, pow22523Chain.z) = {0} \cup 2 .. 251
  <2>1. pow22523Chain.z # feInvertTail /\ pow22523Chain.z[2] = 2
    BY DEF pow22523Chain, feInvertTail
  <2>2. Exponents(pow22523Chain, pow22523Chain.z) =
          repeatedSquareMultiply(0 .. 249, pow22523Chain.z[2],
                                 IF pow22523Chain.z = feInvertTail THEN {0, 1, 3} ELSE {0})
    BY ChainSteps
  <2> QED BY <2>1, <2>2, ChainProducts
<1>2. Exponents(pow22523Chain, feInvertTail) = {0, 1, 3} \cup 5 .. 254
  <2>1. feInvertTail[2] = 5
    BY DEF feInvertTail
  <2>2. Exponents(pow22523Chain, feInvertTail) =
          repeatedSquareMultiply(0 .. 249, feInvertTail[2],
                                 IF feInvertTail = feInvertTail THEN {0, 1, 3} ELSE {0})
    BY ChainSteps
  <2> QED BY <2>1, <2>2, ChainProducts
<1> QED BY <1>1, <1>2 DEF ChainExact, pow22523PairChain, pow22523IFMAChain, pow22523PairIFMAChain,
   r43Pow22523Chain, r43Pow22523PairChain, fePow22523Chain

-----------------------------------------------------------------------------
\* Decoding.

\* Until a decoder commits nothing of the caller's is written, and its lanes
\* hold what the levels of its program say; afterwards it has returned what it
\* should.
DecodeInv ==
  /\ decoder \in Decoders /\ request \in Requests /\ phase \in {"run", "done", "error"}
  /\ position \in 0 .. Len(Program[decoder])
  /\ regs = [w \in Sides |-> [l \in Lanes |-> regs[w][l]]]
  /\ phase # "done" => /\ points = [w \in Sides |-> [l \in Lanes |-> Stale]]
                       /\ valid = [w \in Sides |-> {}]
  /\ \E f : /\ Along(f, Program[decoder]) /\ f[0] = [w \in Sides |-> 0]
            /\ f[Len(Program[decoder])] = Ends(decoder)
            /\ \A w \in Sides, l \in Lanes :
                 LaneAt(regs[w][l], Input(w)[l], l \in request.active, f[position][w])
  /\ ReturnedExact

\* It holds at first.
LEMMA DecodeStarts == DecodeInit => DecodeInv
<1> SUFFICES ASSUME DecodeInit PROVE DecodeInv
  OBVIOUS
<1>1. PICK f : /\ Along(f, Program[decoder]) /\ f[0] = [w \in Sides |-> 0]
               /\ f[Len(Program[decoder])] = Ends(decoder)
  BY Programs, Zenon DEF DecodeInit, Runs
<1>2. PICK n \in Nat : n = Len(Program[decoder])
  <2>1. Program[decoder] \in Seq(Stages \X Sides)
    BY <1>1, Zenon DEF Along
  <2> QED BY <2>1, LenProperties
<1>3. ASSUME NEW w \in Sides, NEW l \in Lanes
      PROVE  LaneAt(regs[w][l], Input(w)[l], l \in request.active, f[position][w])
  <2>1. regs[w][l] = Registers
    BY DEF DecodeInit, Sides
  <2>2. position = 0
    BY DEF DecodeInit
  <2>3. f[position][w] = 0
    BY <1>1, <2>2
  <2>4. Registers = [r \in DOMAIN Registers |-> Registers[r]]
    BY DEF Registers
  <2>5. LaneAt(Registers, Input(w)[l], l \in request.active, 0)
    BY <2>4 DEF LaneAt
  <2> QED BY <2>1, <2>3, <2>5
<1>4. /\ decoder \in Decoders /\ request \in Requests /\ phase = "run" /\ position \in 0 .. n
      /\ points = [w \in Sides |-> [l \in Lanes |-> Stale]] /\ valid = [w \in Sides |-> {}]
      /\ regs = [w \in Sides |-> [l \in Lanes |-> Registers]]
  BY <1>2 DEF DecodeInit, Sides
<1>5. regs = [w \in Sides |-> [l \in Lanes |-> regs[w][l]]]
  BY <1>4
<1>6. ReturnedExact
  BY <1>4, Zenon DEF ReturnedExact
<1> QED BY <1>1, <1>2, <1>3, <1>4, <1>5, <1>6, Zenon DEF DecodeInv

\* An operation takes its point a level further.
LEMMA OperateKeeps == DecodeInv /\ Operate => DecodeInv'
<1> SUFFICES ASSUME DecodeInv, Operate PROVE DecodeInv'
  OBVIOUS
<1>1. PICK f : /\ Along(f, Program[decoder]) /\ f[0] = [w \in Sides |-> 0]
               /\ f[Len(Program[decoder])] = Ends(decoder)
               /\ \A w \in Sides, l \in Lanes :
                    LaneAt(regs[w][l], Input(w)[l], l \in request.active, f[position][w])
  BY Zenon DEF DecodeInv
<1>2. PICK n \in Nat : n = Len(Program[decoder])
  <2>1. Program[decoder] \in Seq(Stages \X Sides)
    BY <1>1, Zenon DEF Along
  <2> QED BY <2>1, LenProperties
<1>3. position \in 0 .. n - 1 /\ position' = position + 1
  BY <1>2 DEF DecodeInv, Operate
<1>4. PICK i \in 1 .. n : i = position + 1 /\ i - 1 = position
  BY <1>3
<1>5. PICK op \in Stages, side \in Sides :
        /\ Program[decoder][i] = <<op, side>> /\ f[position][side] = Before[op]
        /\ f[i] = [f[position] EXCEPT ![side] = After[op]]
  <2>1. Moves(Program[decoder][i], f[i - 1], f[i])
    BY <1>1, <1>2 DEF Along
  <2> QED BY <1>4, <2>1 DEF Moves
<1>6. f[position] \in Levels
  <2>1. position \in 0 .. n
    BY <1>3
  <2> QED BY <1>1, <1>2, <2>1 DEF Along
<1>7. /\ UNCHANGED <<decoder, request, points, valid, phase>> /\ phase = "run"
      /\ regs' = [regs EXCEPT ![side] = [l \in Lanes |-> Stage(op, regs[side][l], Input(side)[l], l \in request.active)]]
  <2>1. Program[decoder][position + 1][1] = op /\ Program[decoder][position + 1][2] = side
    BY <1>4, <1>5
  <2> QED BY <2>1 DEF Operate
<1>8. regs = [w \in Sides |-> [l \in Lanes |-> regs[w][l]]]
  BY Zenon DEF DecodeInv
<1>9. ASSUME NEW w \in Sides, NEW l \in Lanes
      PROVE  LaneAt(regs'[w][l], Input(w)[l], l \in request.active, f[i][w])
  <2>1. CASE w = side
    <3>1. regs'[w][l] = Stage(op, regs[side][l], Input(side)[l], l \in request.active)
      BY <1>7, <1>8, <2>1
    <3>2. f[i][w] = After[op]
      BY <1>5, <1>6, <2>1 DEF Levels
    <3>3. LaneAt(regs[side][l], Input(side)[l], l \in request.active, Before[op])
      BY <1>1, <1>5
    <3>4. LaneAt(Stage(op, regs[side][l], Input(side)[l], l \in request.active), Input(side)[l],
                l \in request.active, After[op])
      BY <3>3, StageHolds, Zenon
    <3> QED BY <2>1, <3>1, <3>2, <3>4
  <2>2. CASE w # side
    <3>1. regs'[w][l] = regs[w][l]
      BY <1>7, <1>8, <2>2
    <3>2. f[i][w] = f[position][w]
      BY <1>5, <1>6, <2>2 DEF Levels
    <3> QED BY <1>1, <3>1, <3>2
  <2> QED BY <2>1, <2>2
<1>10. /\ decoder' \in Decoders /\ request' \in Requests /\ phase' \in {"run", "done", "error"}
       /\ position' \in 0 .. n
       /\ points' = [w \in Sides |-> [l \in Lanes |-> Stale]] /\ valid' = [w \in Sides |-> {}]
       /\ ReturnedExact'
  <2>1. phase' = "run"
    BY <1>7
  <2>2. ReturnedExact'
    BY <2>1, Zenon DEF ReturnedExact
  <2>3. position' \in 0 .. n
    BY <1>3
  <2> QED BY <1>7, <2>1, <2>2, <2>3 DEF DecodeInv
<1>11. regs' = [w \in Sides |-> [l \in Lanes |-> regs'[w][l]]]
  BY <1>7, <1>8
<1>12. ASSUME NEW w \in Sides, NEW l \in Lanes
       PROVE  LaneAt(regs'[w][l], Input(w)'[l], l \in request'.active, f[position'][w])
  <2>1. Input(w)' = Input(w) /\ request' = request /\ position' = i
    BY <1>3, <1>4, <1>7 DEF Input
  <2> QED BY <1>9, <2>1
<1>13. decoder' = decoder
  BY <1>7
<1> QED BY <1>1, <1>2, <1>10, <1>11, <1>12, <1>13, Zenon DEF DecodeInv

\* A failed operation leaves everything as it is.
LEMMA FailKeeps == DecodeInv /\ (DecodeFail \/ UNCHANGED decodeVars) => DecodeInv'
<1> SUFFICES ASSUME DecodeInv, DecodeFail \/ UNCHANGED decodeVars PROVE DecodeInv'
  OBVIOUS
<1>1. /\ decoder' = decoder /\ request' = request /\ position' = position /\ regs' = regs
      /\ points' = points /\ valid' = valid
  BY DEF DecodeFail, decodeVars
<1>2. phase' = phase \/ (phase' = "error" /\ phase = "run")
  BY DEF DecodeFail, decodeVars
<1>3. phase' = "done" => phase = "done"
  BY <1>2
<1>4. ReturnedExact'
  <2>1. CASE phase' = "done"
    <3>1. phase' = phase
      BY <1>3, <2>1
    <3>2. ReturnedExact
      BY Zenon DEF DecodeInv
    <3> QED BY <1>1, <3>1, <3>2, ZenonT(60) DEF ReturnedExact, Input, Returned
  <2>2. CASE phase' # "done"
    BY <2>2, Zenon DEF ReturnedExact
  <2> QED BY <2>1, <2>2
<1>5. phase' \in {"run", "done", "error"} /\ (phase' # "done" => phase # "done")
  BY <1>2 DEF DecodeInv
<1>6. \A w : Input(w)' = Input(w)
  BY <1>1 DEF Input
<1> QED BY <1>1, <1>4, <1>5, <1>6, Zenon DEF DecodeInv

\* A commit returns what the lanes hold.
LEMMA CommitKeeps == DecodeInv /\ DecodeCommit => DecodeInv'
<1> SUFFICES ASSUME DecodeInv, DecodeCommit PROVE DecodeInv'
  OBVIOUS
<1>1. PICK f : /\ Along(f, Program[decoder]) /\ f[0] = [w \in Sides |-> 0]
               /\ f[Len(Program[decoder])] = Ends(decoder)
               /\ \A w \in Sides, l \in Lanes :
                    LaneAt(regs[w][l], Input(w)[l], l \in request.active, f[position][w])
  BY Zenon DEF DecodeInv
<1>2. UNCHANGED <<decoder, request, position, regs>> /\ position = Len(Program[decoder])
  BY DEF DecodeCommit
<1>3. Returned \in SUBSET Sides
  BY DEF Returned, Sides
<1>4. ASSUME NEW w \in Returned, NEW l \in Lanes
      PROVE  LET candidates == Decoded(Input(w)[l])
                 g == regs[w][l] IN
             /\ l \in ValidLanes(w) <=> l \in request.active /\ candidates # {}
             /\ l \in ValidLanes(w) => <<g.x, g.y>> \in candidates /\ (w = "A" => g.t = Times(g.x, g.y))
  <2>1. w \in Sides
    BY <1>3
  <2>2. PICK e \in Compressed : e = Input(w)[l]
    BY <2>1, DecodeAssumption DEF Input, DecodeInv
  <2>3. PICK k \in {11, 12} : f[position][w] = k /\ (w = "A" => k = 12)
    BY <1>1, <1>2, <1>4, <2>1 DEF Ends, Returned
  <2>4. PICK g : g = regs[w][l]
    OBVIOUS
  <2>5. ASSUME l \in request.active
        PROVE  /\ g.square => <<g.x, g.y>> \in Decoded(e)
               /\ Decoded(e) # {} => g.square
               /\ k = 12 => g.t = Times(g.x, g.y)
    <3>1. LaneAt(g, e, l \in request.active, k)
      BY <1>1, <2>1, <2>2, <2>3, <2>4
    <3>2. (l \in request.active) = TRUE
      BY <2>5
    <3>3. LaneAt(g, e, TRUE, k)
      BY <3>1, <3>2, Zenon
    <3> QED BY <3>3, LaneDecodes
  <2>6. l \in ValidLanes(w) <=> l \in request.active /\ g.square
    BY <2>4, Zenon DEF ValidLanes
  <2> QED BY <2>2, <2>3, <2>4, <2>5, <2>6
<1>5. ASSUME NEW w \in Returned
      PROVE  /\ valid'[w] = ValidLanes(w)
             /\ points'[w] = [l \in Lanes |->
                               IF l \notin ValidLanes(w) THEN Invalid(w, points[w][l])
                               ELSE IF w = "A" THEN Extended(regs[w][l]) ELSE Affine(regs[w][l])]
  <2>1. w \in {"A", "R"}
    BY <1>3 DEF Sides
  <2> QED BY <2>1, <1>5, Zenon DEF DecodeCommit
<1>6. points = [w \in Sides |-> [l \in Lanes |-> Stale]] /\ phase' = "done"
  BY DEF DecodeInv, DecodeCommit
<1>7. ASSUME NEW w \in Returned, NEW l \in Lanes
      PROVE  LET candidates == Decoded(Input(w)[l]) IN
      /\ l \in valid'[w] <=> l \in request.active /\ candidates # {}
      /\ l \in valid'[w] =>
           \E p \in candidates : points'[w][l] = IF w = "A" THEN <<p[1], p[2], 1, Times(p[1], p[2])>>
                                                          ELSE <<p[1], p[2], 0, 0>>
      /\ l \notin valid'[w] =>
           points'[w][l] = CASE decoder \in OneLane \ {"r43Decode2NoT"} -> Stale
                             [] decoder = "r43Decode2NoT" \/ w = "R" -> ZeroPoint
                             [] OTHER -> IdentityPoint
  <2>1. valid'[w] = ValidLanes(w)
    BY <1>5
  <2>2. points'[w][l] = IF l \notin ValidLanes(w) THEN Invalid(w, points[w][l])
                        ELSE IF w = "A" THEN Extended(regs[w][l]) ELSE Affine(regs[w][l])
    BY <1>5
  <2>3. points[w][l] = Stale
    BY <1>3, <1>6
  <2>4. ASSUME l \in ValidLanes(w)
        PROVE  \E p \in Decoded(Input(w)[l]) :
                 points'[w][l] = IF w = "A" THEN <<p[1], p[2], 1, Times(p[1], p[2])>> ELSE <<p[1], p[2], 0, 0>>
    <3>1. PICK g : g = regs[w][l]
      OBVIOUS
    <3>2. <<g.x, g.y>> \in Decoded(Input(w)[l]) /\ (w = "A" => g.t = Times(g.x, g.y))
      BY <1>4, <2>4, <3>1
    <3>3. points'[w][l] = IF w = "A" THEN <<g.x, g.y, 1, g.t>> ELSE <<g.x, g.y, 0, 0>>
      BY <2>2, <2>4, <3>1 DEF Extended, Affine
    <3>4. points'[w][l] = IF w = "A" THEN <<g.x, g.y, 1, Times(g.x, g.y)>> ELSE <<g.x, g.y, 0, 0>>
      BY <3>2, <3>3
    <3>5. <<g.x, g.y>>[1] = g.x /\ <<g.x, g.y>>[2] = g.y
      OBVIOUS
    <3>6. PICK p : p = <<g.x, g.y>>
      OBVIOUS
    <3> QED BY <3>2, <3>4, <3>5, <3>6
  <2>5. ASSUME l \notin ValidLanes(w)
        PROVE  points'[w][l] = CASE decoder \in OneLane \ {"r43Decode2NoT"} -> Stale
                                 [] decoder = "r43Decode2NoT" \/ w = "R" -> ZeroPoint
                                 [] OTHER -> IdentityPoint
    <3>1. points'[w][l] = Invalid(w, Stale)
      BY <2>2, <2>3, <2>5
    <3> QED BY <3>1, Zenon DEF Invalid
  <2>6. l \in ValidLanes(w) <=> l \in request.active /\ Decoded(Input(w)[l]) # {}
    BY <1>4
  <2> QED BY <2>1, <2>4, <2>5, <2>6, Zenon
<1>8. \A w : Input(w)' = Input(w)
  BY <1>2 DEF Input, DecodeCommit
<1>9. Returned' = Returned
  BY <1>2 DEF Returned
<1>10. ReturnedExact'
  BY <1>2, <1>7, <1>8, <1>9, ZenonT(60) DEF ReturnedExact
<1>11. phase' \in {"run", "done", "error"} /\ (phase' # "done" => FALSE)
  BY <1>6
<1> QED BY <1>1, <1>2, <1>8, <1>10, <1>11, Zenon DEF DecodeInv


\* Decoding is exact, for every field with a root of -1 in which D is no square,
\* every number of lanes and every input: a decoder that returns reports as
\* valid exactly the active lanes whose encoding has a curve point and gives
\* them that point with the encoded sign, one that fails has written nothing, and
\* the chains raise to the powers they are for (decode2.go, decode2_ifma.go,
\* decode_ifma.go, decode_composable_ifma_experiment.go).
THEOREM DecodeAlwaysExact == DecodeSpec => []DecodeExact
<1>1. DecodeInit => DecodeInv
  BY DecodeStarts
<1>2. DecodeInv /\ [DecodeNext]_decodeVars => DecodeInv'
  BY OperateKeeps, FailKeeps, CommitKeeps DEF DecodeNext
<1>3. DecodeInv => DecodeExact
  <2>1. DecodeInv => DecodeAtomic
    BY DEF DecodeInv, DecodeAtomic, Sides
  <2>2. DecodeInv => ReturnedExact
    BY Zenon DEF DecodeInv
  <2> QED BY <2>1, <2>2, ChainAlways DEF DecodeExact
<1> QED BY <1>1, <1>2, <1>3, PTL DEF DecodeSpec

===============================================================================
