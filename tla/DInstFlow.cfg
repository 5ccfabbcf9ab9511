SPECIFICATION FlowSpec
CONSTANTS
  InitSize = 2
  Null = Null
  MaxInst = 6
  MaxID = 10
  MaxBatch = 3
INVARIANTS TypeOK HeadBetween ClonesAreLive WindowInOrder
PROPERTIES NeverSkips ImplementsStream
CHECK_DEADLOCK FALSE
