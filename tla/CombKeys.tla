------------------------------ MODULE CombKeys ------------------------------
(***************************************************************************)
(* What the builder of per-key tables (CombBuild) and the verifiers over   *)
(* them (WarmComb) share: lanes, compressed keys and the groups they come  *)
(* in.  A compressed key is a name; several names may encode one point.    *)
(***************************************************************************)
EXTENDS Integers, FiniteSets

CONSTANTS
  CombX4,       \* X4Lanes
  MaxGroups,    \* ExperimentalIFMABatchEncodeMaxX4Groups
  PointOf,      \* compressed key -> point, "none" if it does not decode
  SmallOrder,   \* compressed keys of small order
  Builds,       \* lane -> compressed key: the groups callers build
  Inputs        \* 0..n-1 -> compressed key: what a complete verifier is prepared for

Raws == DOMAIN PointOf
CombLanes == 0 .. (CombX4 - 1)

IsArrayOf(b, n) == n \in Nat /\ DOMAIN b = 0 .. (n - 1)

\* "nil" and "none" are no keys.
ASSUME CombKeysAssumption ==
  /\ CombX4 \in Nat \ {0} /\ MaxGroups \in Nat \ {0}
  /\ "nil" \notin Raws /\ "none" \notin Raws
  /\ \A b \in Builds : b \in [CombLanes -> Raws]
  /\ \A c \in Inputs : IsArrayOf(c, Cardinality(DOMAIN c)) /\ \A i \in DOMAIN c : c[i] \in Raws

\* Full groups only, and no more than one encoder call takes.
WholeGroups(b) ==
  LET n == Cardinality(DOMAIN b) IN n # 0 /\ n % CombX4 = 0 /\ n <= MaxGroups * CombX4

\* No lane may be of small order or fail to decode.
Buildable(lanes) ==
  \A l \in DOMAIN lanes : lanes[l] \notin SmallOrder /\ PointOf[lanes[l]] # "none"
=============================================================================
