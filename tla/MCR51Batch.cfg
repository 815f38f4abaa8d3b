CONSTANTS
  k1 = k1 k2 = k2
  Keys = {k1, k2}
  Sizes = {0, 3, 9, 10, 12}
  X4 = 4
  X8 = 8
  MaxChunk = 8
  BuildThreshold = 1
  MaxCount = 1
  Batches <- AlternatingBatches
SPECIFICATION Spec
INVARIANTS VerdictsExact WarmSegmentsSound PoolClean CreditsExact
