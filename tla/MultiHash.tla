----------------------------- MODULE MultiHash ------------------------------
(***************************************************************************)
(* sha512mb/native.go: SHA-512 of several segmented messages at once.  A   *)
(* group's lanes advance block by block together; a shorter message writes *)
(* its digest when its own last block has been compressed and is then fed  *)
(* zero blocks.  A byte is where it comes from, and a lane's state is the  *)
(* sequence of blocks compressed into it (the kernel is external).         *)
(***************************************************************************)
EXTENDS Integers, Sequences, FiniteSetsExt

CONSTANTS
  Block,          \* bytes of a block (128)
  LengthField,    \* bytes of the length at its end (16)
  Half,           \* bytes of R and of A (32): a quarter of a block
  FixedSizes,     \* message sizes of the fixed path (64, 200, 1232)
  WidthX4, WidthX8,
  HashBatches     \* sequences of messages; a message is its segments' lengths

ASSUME MultiHashAssumption ==
  /\ Half \in Nat /\ Block = 4 * Half /\ LengthField \in 1 .. (Block - 1)
  /\ WidthX4 \in Nat \ {0} /\ WidthX8 \in Nat \ {0}
  /\ \A size \in FixedSizes :
       size \in Nat /\ size >= 2 * Half /\ (size - 2 * Half) % Block < Block - LengthField
  /\ \A messages \in HashBatches : messages \in Seq(Seq(Nat))

Kinds == {"x4", "x4three", "x8", "x8three"}
width(kind) == IF kind \in {"x4", "x4three"} THEN WidthX4 ELSE WidthX8

VARIABLES
  batch, kind, available,   \* the call and the hardware
  first,                    \* index of the group before its first lane
  lane,                     \* the cursors of the group's lanes
  blockIndex, state, out,
  step
hashVars == <<batch, kind, available, first, lane, blockIndex, state, out, step>>

ZeroByte == <<0, 0, "zero">>
Pad == <<0, 0, "0x80">>
LengthByte(i, n) == <<i, n, "length">>
Byte(m, i) == <<m, i, "data">>
Stale == << >>

\* The ends of the first segments of message m: SegmentEnds(m)[p] after p of them.
SegmentEnds(m) ==
  LET end[p \in 0 .. Len(batch[m])] == IF p = 0 THEN 0 ELSE end[p - 1] + batch[m][p]
  IN end
Total(m) == SegmentEnds(m)[Len(batch[m])]
Lanes == 1 .. Min({width(kind), Len(batch) - first})
Message(i) == first + i

\* Mutant: exactly 112 bytes are thought to leave room for the length.
BlocksShort(m) == (Total(m) \div Block) + (IF Total(m) % Block > Block - LengthField THEN 2 ELSE 1)

blocks(m) == (Total(m) \div Block) + (IF Total(m) % Block >= Block - LengthField THEN 2 ELSE 1)

\* The cursor is a byte position in the concatenation, which stands for part
\* and offset.
newNativeLane == [position |-> 0, paddingWritten |-> FALSE]

LengthOf(m, body) ==
  [i \in 1 .. Block |-> IF i > Block - LengthField THEN LengthByte(i, Total(m)) ELSE body[i]]

fill(m, cursor) ==
  LET n == Min({Block, Total(m) - cursor.position})
      body == [i \in 1 .. Block |->
                 IF i <= n THEN Byte(m, cursor.position + i)
                 ELSE IF i = n + 1 /\ ~cursor.paddingWritten THEN Pad ELSE ZeroByte]
  IN [block |-> IF blockIndex + 1 = blocks(m) THEN LengthOf(m, body) ELSE body,
      cursor |-> [position |-> cursor.position + n,
                  paddingWritten |-> cursor.paddingWritten \/ n < Block]]

\* The end of the segment that holds the next byte.
SegmentEnd(m, position) ==
  LET end == SegmentEnds(m)
  IN Min({end[p] : p \in {q \in 0 .. Len(batch[m]) : end[q] > position}} \cup {Total(m)})

takeDirectBlock(m, cursor) == SegmentEnd(m, cursor.position) - cursor.position >= Block

DirectBlock(m, cursor) ==
  [block |-> [i \in 1 .. Block |-> Byte(m, cursor.position + i)],
   cursor |-> [cursor EXCEPT !.position = @ + Block]]

ZeroBlock == [i \in 1 .. Block |-> ZeroByte]

\* The block of lane i and its cursor afterwards; x8 takes whole blocks in place.
NextBlock(i) ==
  LET m == Message(i) IN
  IF i \notin Lanes \/ blockIndex >= blocks(m) THEN [block |-> ZeroBlock, cursor |-> lane[i]]
  ELSE IF kind \in {"x8", "x8three"} /\ takeDirectBlock(m, lane[i]) THEN DirectBlock(m, lane[i])
  ELSE fill(m, lane[i])

maxBlocks == Max({blocks(Message(i)) : i \in Lanes})

\* x4 starts from the initial state, x8 asks the kernel for it in block 0.
InitialState == IF kind \in {"x4", "x4three"} THEN <<"iv">> ELSE <<"zero">>
Compress(s, b) == IF blockIndex = 0 /\ kind \in {"x8", "x8three"} THEN <<"iv", b>> ELSE Append(s, b)

HashInit ==
  /\ batch \in HashBatches /\ kind \in Kinds /\ available \in BOOLEAN
  /\ kind \in {"x4three", "x8three"} => \A m \in DOMAIN batch : Len(batch[m]) = 3
  /\ first = 0 /\ lane = <<>> /\ blockIndex = 0 /\ state = <<>>
  /\ out = [m \in DOMAIN batch |-> Stale]
  /\ step = IF available /\ batch # <<>> THEN "group" ELSE "done"

\* The equal-width shapes of the verifier take the fixed path.
FixedShape ==
  /\ kind = "x8three" /\ Lanes = 1 .. WidthX8
  /\ \E size \in FixedSizes : \A i \in Lanes : batch[Message(i)] = <<Half, Half, size>>

NextGroup ==
  /\ first' = first + width(kind)
  /\ step' = IF first + width(kind) < Len(batch) THEN "group" ELSE "done"

\* First, middle and final block; the final kernel writes padding and length.
Fixed3Digest(m) ==
  LET size == batch[m][3]
      middle == (size - 2 * Half) \div Block
      tailBytes == (size - 2 * Half) % Block
      tail == [i \in 1 .. Block |-> IF i <= tailBytes THEN Byte(m, 2 * Half + size - tailBytes + i)
                                    ELSE IF i = tailBytes + 1 THEN Pad ELSE ZeroByte]
  IN <<"iv">>
     \o [b \in 1 .. middle + 1 |-> [i \in 1 .. Block |-> Byte(m, (b - 1) * Block + i)]]
     \o <<LengthOf(m, tail)>>

sum512NativeFixed3X8 ==
  /\ step = "group" /\ FixedShape
  /\ out' = [m \in DOMAIN out |-> IF m - first \in Lanes THEN Fixed3Digest(m) ELSE out[m]]
  /\ NextGroup
  /\ UNCHANGED <<batch, kind, available, lane, blockIndex, state>>

sum512NativeGroup ==
  /\ step = "group" /\ ~FixedShape
  /\ lane' = [i \in 1 .. width(kind) |-> newNativeLane]
  /\ state' = [i \in 1 .. width(kind) |-> InitialState]
  /\ blockIndex' = 0 /\ step' = "block"
  /\ UNCHANGED <<batch, kind, available, first, out>>

\* One block of every lane; a lane whose last block it was gives its digest.
sum512NativeLanes ==
  /\ step = "block" /\ blockIndex < maxBlocks
  /\ LET fed == [i \in 1 .. width(kind) |-> NextBlock(i)]
         after == [i \in 1 .. width(kind) |-> Compress(state[i], fed[i].block)]
     IN /\ lane' = [i \in 1 .. width(kind) |-> fed[i].cursor]
        /\ state' = after
        /\ out' = [m \in DOMAIN out |->
                     IF m - first \in Lanes /\ blockIndex + 1 = blocks(m) THEN after[m - first] ELSE out[m]]
  /\ blockIndex' = blockIndex + 1
  /\ UNCHANGED <<batch, kind, available, first, step>>

GroupDone ==
  /\ step = "block" /\ blockIndex = maxBlocks
  /\ NextGroup
  /\ UNCHANGED <<batch, kind, available, lane, blockIndex, state, out>>

HashNext == sum512NativeFixed3X8 \/ sum512NativeGroup \/ sum512NativeLanes \/ GroupDone

HashSpec == HashInit /\ [][HashNext]_hashVars

-----------------------------------------------------------------------------
\* Properties.

\* FIPS 180-4: the message, 0x80, the fewest zero bytes that leave the length
\* at the end of a block, and the length; then block by block from the iv.
Reference(m) ==
  LET n == Min({k \in 1 .. Total(m) + 2 : k * Block >= Total(m) + 1 + LengthField})
      padded == [i \in 1 .. n * Block |->
                   IF i <= Total(m) THEN Byte(m, i)
                   ELSE IF i = Total(m) + 1 THEN Pad
                   ELSE IF i > n * Block - LengthField THEN LengthByte(i - (n - 1) * Block, Total(m))
                   ELSE ZeroByte]
  IN <<"iv">> \o [b \in 1 .. n |-> [i \in 1 .. Block |-> padded[(b - 1) * Block + i]]]

\* At any moment an entry of out is untouched or the digest of its own message,
\* whatever segments, lengths and neighbours it has and whichever path (copied
\* blocks, blocks taken in place, the fixed shapes) its group takes.
DigestsOwn == \A m \in DOMAIN batch : out[m] = Stale \/ out[m] = Reference(m)

\* When a call returns every digest is delivered, or none when the kernel is
\* unavailable: a lane that finishes early, or a partial last group, is not
\* left behind.
AllDelivered == step = "done" => \A m \in DOMAIN batch : (out[m] # Stale) <=> available

\* No digest but the right ones, and all of them when the call returns.
DigestExact == DigestsOwn /\ AllDelivered

=============================================================================
