CONSTANTS
  k1 = k1 k2 = k2
  Keys = {k1, k2}
  Sizes = {9}
  X4 = 4
  X8 = 8
  MaxChunk = 8
  BuildThreshold = 5
  MaxCount = 5
  Batches <- AlternatingBatches
SPECIFICATION Spec
INVARIANT TableEarned
