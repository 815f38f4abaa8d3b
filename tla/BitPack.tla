------------------------------ MODULE BitPack ------------------------------
(***************************************************************************)
(* Where the bits go: every table of loads and stores that takes an        *)
(* encoding to limbs and back, with the shifts, offsets and masks of the   *)
(* code, at their real widths.  A byte string, a word and a limb are sets  *)
(* of bit positions.  All the operations act on each bit by itself, so the *)
(* strings with one bit, and all bits, show every string.                  *)
(***************************************************************************)
EXTENDS Integers, Sequences

CONSTANT Inputs   \* sets of bit positions of a string of 64 bytes

Down(a, n) == {b - n : b \in {c \in a : c >= n}}
Up(a, n, width) == {b + n : b \in a} \cap (0 .. (width - 1))
LowBits(a, n) == a \cap (0 .. (n - 1))

\* Layouts: a field element of 32 bytes, a scalar of 32, a wide scalar of 64.
Layouts == {"r51", "r43", "field", "uniform", "lanes", "scReduce", "scMulAdd"}
Field == {"r51", "r43", "field"}
Wide == {"uniform", "lanes", "scReduce"}
LimbBits(layout) == IF layout = "r43" THEN 43 ELSE IF layout \in Field THEN 51 ELSE 21
LimbCount(layout) ==
  IF layout = "r43" THEN 6 ELSE IF layout \in Field THEN 5 ELSE IF layout \in Wide THEN 24 ELSE 12

-----------------------------------------------------------------------------
\* Limbs of a field element from four words: shift right, shift left.

WordAt(in, i) == LowBits(Down(in, 64 * i), 64)
Join(in, low, right, high, left, mask) ==
  LowBits(Down(WordAt(in, low), right) \cup Up(WordAt(in, high), left, 64), mask)

r51UnpackLow255(in) ==
  <<LowBits(WordAt(in, 0), 51), Join(in, 0, 51, 1, 13, 51), Join(in, 1, 38, 2, 26, 51),
    Join(in, 2, 25, 3, 39, 51), LowBits(Down(WordAt(in, 3), 12), 51)>>
r43UnpackLow255(in) ==
  <<LowBits(WordAt(in, 0), 43), Join(in, 0, 43, 1, 21, 43), Join(in, 1, 22, 2, 42, 43),
    LowBits(Down(WordAt(in, 2), 1), 43), Join(in, 2, 44, 3, 20, 43), LowBits(Down(WordAt(in, 3), 23), 40)>>
\* Eight bytes from an offset of bytes.
feSetBytes(in) ==
  LET at == <<<<0, 0>>, <<6, 3>>, <<12, 6>>, <<19, 1>>, <<24, 12>>>>
  IN [i \in 1 .. 5 |-> LowBits(Down(LowBits(Down(in, 8 * at[i][1]), 64), at[i][2]), 51)]

\* And back: each word joins its limbs; the words follow one another.
WordsOf(w) == UNION {{b + 64 * (i - 1) : b \in LowBits(w[i], 64)} : i \in 1 .. 4}
r51Bytes(l) ==
  WordsOf(<<l[1] \cup Up(l[2], 51, 64), Down(l[2], 13) \cup Up(l[3], 38, 64),
            Down(l[3], 26) \cup Up(l[4], 25, 64), Down(l[4], 39) \cup Up(l[5], 12, 64)>>)
r43Bytes(l) ==
  WordsOf(<<l[1] \cup Up(l[2], 43, 64), Down(l[2], 21) \cup Up(l[3], 22, 64),
            Down(l[3], 42) \cup Up(l[4], 1, 64) \cup Up(l[5], 44, 64), Down(l[5], 20) \cup Up(l[6], 23, 64)>>)
feBytes(l) ==
  WordsOf(<<Up(l[2], 51, 64) \cup l[1], Up(l[3], 102 - 64, 64) \cup Down(l[2], 64 - 51),
            Up(l[4], 153 - 128, 64) \cup Down(l[3], 128 - 102), Up(l[5], 204 - 192, 64) \cup Down(l[4], 192 - 153)>>)

-----------------------------------------------------------------------------
\* Limbs of a scalar: three or four bytes from an offset, and a shift.

scalarLoad(in, bytes, at) == LowBits(Down(in, 8 * at), 8 * bytes)
Loads ==
  <<<<3, 0, 0>>, <<4, 2, 5>>, <<3, 5, 2>>, <<4, 7, 7>>, <<4, 10, 4>>, <<3, 13, 1>>, <<4, 15, 6>>, <<3, 18, 3>>,
    <<3, 21, 0>>, <<4, 23, 5>>, <<3, 26, 2>>, <<4, 28, 7>>, <<4, 31, 4>>, <<3, 34, 1>>, <<4, 36, 6>>, <<3, 39, 3>>,
    <<3, 42, 0>>, <<4, 44, 5>>, <<3, 47, 2>>, <<4, 49, 7>>, <<4, 52, 4>>, <<3, 55, 1>>, <<4, 57, 6>>, <<4, 60, 3>>>>
\* The last limb of n is not masked.
LoadAll(in, n) ==
  [i \in 1 .. n |-> LET limb == Down(scalarLoad(in, Loads[i][1], Loads[i][2]), Loads[i][3])
                    IN IF i = n THEN limb ELSE LowBits(limb, 21)]
uniformLoads(in) == LoadAll(in, 24)
scReduceLoads(in) == LoadAll(in, 24)
scMulAddLoads(in) == LoadAll(in, 12)
\* The eight-lane reducer computes its offsets.
laneLoads(in) ==
  [i \in 1 .. 24 |-> IF i = 24 THEN Down(scalarLoad(in, 4, 60), 3)
                     ELSE LowBits(Down(scalarLoad(in, 4, (21 * (i - 1)) \div 8), (21 * (i - 1)) % 8), 21)]

\* Byte by byte: the limb whose bits start it, how far it is shifted, and the
\* shift of the next limb when that one ends within the byte (0: it does not).
Stores ==
  <<<<1, 0, 0>>, <<1, 8, 0>>, <<1, 16, 5>>, <<2, 3, 0>>, <<2, 11, 0>>, <<2, 19, 2>>, <<3, 6, 0>>, <<3, 14, 7>>,
    <<4, 1, 0>>, <<4, 9, 0>>, <<4, 17, 4>>, <<5, 4, 0>>, <<5, 12, 0>>, <<5, 20, 1>>, <<6, 7, 0>>, <<6, 15, 6>>,
    <<7, 2, 0>>, <<7, 10, 0>>, <<7, 18, 3>>, <<8, 5, 0>>, <<8, 13, 0>>, <<9, 0, 0>>, <<9, 8, 0>>, <<9, 16, 5>>,
    <<10, 3, 0>>, <<10, 11, 0>>, <<10, 19, 2>>, <<11, 6, 0>>, <<11, 14, 7>>, <<12, 1, 0>>, <<12, 9, 0>>, <<12, 17, 0>>>>
\* Mutant: a limb that ends within a byte leaves the rest of it empty.
StoreOne(l, i) == LowBits(Down(l[Stores[i][1]], Stores[i][2]), 8)
StoreByte(l, i) ==
  LowBits(Down(l[Stores[i][1]], Stores[i][2])
        \cup (IF Stores[i][3] = 0 THEN {} ELSE Up(l[Stores[i][1] + 1], Stores[i][3], 64)), 8)
StoreAll(l) == UNION {{b + 8 * (i - 1) : b \in StoreByte(l, i)} : i \in 1 .. 32}
uniformStores(l) == StoreAll(l)
storeScalarRadix21Lane(l) == StoreAll(l)
scReduceStores(l) == StoreAll(l)
scMulAddStores(l) == StoreAll(l)

-----------------------------------------------------------------------------
VARIABLES layout, in, limbs, packed

packVars == <<layout, in, limbs, packed>>

\* The bytes an operation of the layout reads, and the bits it keeps.
Read(lay) == IF lay \in Wide THEN 512 ELSE 256
Kept(lay) == IF lay \in Field THEN 255 ELSE Read(lay)

PackInit ==
  /\ layout \in Layouts
  /\ \E i \in Inputs : in = LowBits(i, Read(layout))
  /\ limbs = <<>> /\ packed = {}

Unpack ==
  /\ limbs = <<>>
  /\ limbs' = CASE layout = "r51" -> r51UnpackLow255(in)
                [] layout = "r43" -> r43UnpackLow255(in)
                [] layout = "field" -> feSetBytes(in)
                [] layout = "uniform" -> uniformLoads(in)
                [] layout = "lanes" -> laneLoads(in)
                [] layout = "scReduce" -> scReduceLoads(in)
                [] layout = "scMulAdd" -> scMulAddLoads(in)
  /\ UNCHANGED <<layout, in, packed>>

\* The twelve low limbs of a scalar are stored.
Pack ==
  /\ limbs # <<>>
  /\ packed' = CASE layout = "r51" -> r51Bytes(limbs)
              [] layout = "r43" -> r43Bytes(limbs)
              [] layout = "field" -> feBytes(limbs)
              [] layout = "uniform" -> uniformStores(limbs)
              [] layout = "lanes" -> storeScalarRadix21Lane(limbs)
              [] layout = "scReduce" -> scReduceStores(limbs)
              [] layout = "scMulAdd" -> scMulAddStores(limbs)
  /\ UNCHANGED <<layout, in, limbs>>

PackNext == Unpack \/ Pack

PackSpec == PackInit /\ [][PackNext]_packVars

-----------------------------------------------------------------------------
\* Every bit of an encoding is in exactly the limb and position its weight
\* asks for, whichever load, shift and mask brought it there, and no bit
\* outside the encoding's low bits is in any.
UnpackExact ==
  limbs # <<>> =>
    \A i \in 1 .. LimbCount(layout) :
      limbs[i] = LET mine == Down(LowBits(in, Kept(layout)), LimbBits(layout) * (i - 1))
                 IN IF i = LimbCount(layout) THEN mine ELSE LowBits(mine, LimbBits(layout))

\* Storing the limbs that were loaded gives the encoding back, all of it for
\* a field element and the low 252 bits for a scalar.
PackExact ==
  limbs # <<>> /\ packed # {} =>
    IF layout \in Field THEN packed = LowBits(in, 255)
    ELSE LowBits(packed, 252) = LowBits(in, 252)

\* Each bit of an encoding reaches the one limb and position of its weight
\* through the loads, shifts and masks of its layout, and comes back by the stores.
PackingExact == UnpackExact /\ PackExact

=============================================================================
