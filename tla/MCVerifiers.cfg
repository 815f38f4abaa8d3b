CONSTANTS
  X4 = 2
  MaxChunk = 8
  EncodeMin = 5
  Configs <- Pipelines
  Batches <- LaneBatches
  Warmups <- FirstBatches
  MaxCalls = 2
  CombX4 = 2
  MaxGroups = 2
  PointOf <- WarmPoint
  SmallOrder = {"torsion"}
  Builds <- KeyGroups
  Inputs <- BuildLists
  Rows = 2
  Entries = 3
  RowShift = 2
  P = 7
  Factors <- TableZ
  MaxJobs = 3
  CombBatches <- WarmBatches
SPECIFICATION VerifiersSpec
INVARIANTS LanesExact TablesExact
PROPERTIES ImplementsContract VerifiersImplementContract
CHECK_DEADLOCK FALSE
