CONSTANTS
  X4 = 4
  Singles <- Single
  Batches <- EntryBatches
  MaxSets = 3
  Items <- Inputs
  MaxGroup = 3
  ByteBits = 5
  ByteCount = 3
  Gap = 3
  D = 155
  Alpha = 3674
  ScalarOrder = 2053
  Block = 8
  LengthField = 2
  Half = 2
  FixedSizes <- Sizes
  WidthX4 = 2
  WidthX8 = 3
  HashBatches <- MessageBatches
SPECIFICATION RequestSpec
INVARIANTS OneProfile EncodingExact GroupExact NothingPinned DigestExact
CHECK_DEADLOCK FALSE
