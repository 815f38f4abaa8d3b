------------------------------- MODULE Recoding -------------------------------
(***************************************************************************)
(* The recodings of Recode, asked about the scalars of the lanes in use,   *)
(* one group after another.                                                *)
(***************************************************************************)
EXTENDS Recode

CONSTANTS
  Starts,             \* scalars a behaviour begins at
  AsymmetricWidths,   \* radices of asymmetric_fixed_b_dsm.go
  NafWidths           \* widths of the non-adjacent forms

VARIABLE scalars   \* those of the lanes in use

\* The order is just above a power of two, a digit spans at most two bytes, and
\* the digits of a recoding have room for the carry of any canonical scalar.
ASSUME RecodingAssumption ==
  /\ RecodeAssumption
  /\ ByteBits % 2 = 0 /\ ScalarBits < StorageBits /\ 3 * Order <= 2 ^ (ScalarBits + 1)
  /\ \A w \in DOMAIN RoundCount : 2 <= w /\ w <= ByteBits + 1
  /\ AsymmetricWidths \subseteq 2 .. WordBits
  /\ \A w \in AsymmetricWidths : asymmetricFixedBRoundCount(w) * w > ScalarBits
  /\ NafWidths \subseteq 2 .. WordBits
  /\ Starts \subseteq 0 .. (2 ^ ScalarBits - 1)

RecodeInit == \E x \in Starts : scalars = {x}

\* The next scalars, of as many bits as the order.
RecodeNext ==
  /\ \A x \in scalars : x + 1 < 2 ^ ScalarBits /\ x + 1 \notin Starts
  /\ scalars' = {x + 1 : x \in scalars}

RecodeSpec == RecodeInit /\ [][RecodeNext]_scalars

-----------------------------------------------------------------------------
\* Every recoding of every scalar stands for exactly the scalar, leaves no
\* carry, and has an entry in its table for each digit: balanced, radix 16 and
\* regular digits, and non-adjacent forms with their spacing.
RecodingExact ==
  \A x \in scalars :
    /\ BalancedExact(x, AsymmetricWidths) /\ Radix16Exact(x)
    /\ RegularExact(x) /\ NafExact(x, NafWidths)
=============================================================================
