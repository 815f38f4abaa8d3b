\* Admission races: three goroutines, two keys, calls with and without a
\* lookup; the table of one key cannot be built.  Slots are plentiful.
CONSTANTS
  p1 = p1 p2 = p2 p3 = p3 k1 = k1 k2 = k2 k3 = k3
  Procs = {p1, p2, p3}
  Keys = {k1, k2}
  NoProc = NoProc
  NoKey = NoKey
  Buildable = {k1}
  Modes = {"all", "narrow"}
  BuildThreshold = 2
  EntryLimit = 5
  MaxBytes = 3
  DecodedBytes = 2
  WarmBytes = 3
  PromotionThreshold = 1
  SoloThreshold = 2
  Width = 2
  HitLimit = 3
  StatModulus = 1
SPECIFICATION Spec
SYMMETRY ProcSymmetry
INVARIANTS TypeOK SingleBuilder AdmissionExact
