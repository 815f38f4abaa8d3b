SPECIFICATION Spec
CONSTANTS
  ByteBits = 4
  WordBits = 8
  StorageBits = 16
  ScalarBits = 13
  Order = 4099
  RoundCount <- RecodeRounds
  Starts <- RecodeStarts
  AsymmetricWidths = {4, 5, 6, 7}
  NafWidths = {2, 3, 5}
INVARIANTS RecodingExact ResultExact SplitExact
CHECK_DEADLOCK FALSE
