CONSTANTS
  Inputs <- PackInputs
  P = 29
  Gap = 3
  Lanes = {1, 2}
  MaxGroups = 3
  Leftovers = {0, 3}
  Calls <- EncodeCalls
  D = 3
  Scales = {1, 3}
  Quadruples <- GivenQuadruples
  SqrtM1 = 12
  Requests <- DecodeCalls
SPECIFICATION Spec
INVARIANTS FieldExact ReductionExact PackingExact HalfExact DecodeExact PointExact EncodeExact
CHECK_DEADLOCK FALSE
