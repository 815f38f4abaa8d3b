\* Promotion of three keys in groups of two: the budget has room for all
\* first-tier tables and two promotions; hit counters wrap.
CONSTANTS
  p1 = p1 p2 = p2 p3 = p3 k1 = k1 k2 = k2 k3 = k3
  Procs = {p1, p2}
  Keys = {k1, k2, k3}
  NoProc = NoProc
  NoKey = NoKey
  Buildable = {k1, k2, k3}
  Modes = {"strict", "plain"}
  BuildThreshold = 1
  EntryLimit = 5
  MaxBytes = 8
  DecodedBytes = 2
  WarmBytes = 3
  PromotionThreshold = 1
  SoloThreshold = 2
  Width = 2
  HitLimit = 3
  StatModulus = 1
SPECIFICATION Spec
SYMMETRY PairSymmetry
INVARIANTS ByteAccounting PendingTracked StatsExact PromotionDisabledJustified
PROPERTIES DecisionsFinal ImplementsTableStore
