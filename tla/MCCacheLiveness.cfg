\* Progress of calls and of hot keys at the limits: two slots for two keys,
\* and a budget that both tables and one promotion fill exactly.  No symmetry,
\* since the properties are temporal.
CONSTANTS
  p1 = p1 p2 = p2 p3 = p3 k1 = k1 k2 = k2 k3 = k3
  Procs = {p1, p2}
  Keys = {k1, k2}
  NoProc = NoProc
  NoKey = NoKey
  Buildable = {k1, k2}
  Modes = {"strict"}
  BuildThreshold = 1
  EntryLimit = 2
  MaxBytes = 5
  DecodedBytes = 2
  WarmBytes = 3
  PromotionThreshold = 1
  SoloThreshold = 2
  Width = 2
  HitLimit = 3
  StatModulus = 1
SPECIFICATION FairSpec
INVARIANTS SlotAccounting DisabledJustified
PROPERTIES CallsReturn HotKeySettles
