CONSTANTS
  N = 8
  Bulk = 5
  MinReal = 2
  MayPause = TRUE
  Programs <- AllPrograms
SPECIFICATION FairSpec
INVARIANTS TypeOK StaysInFIFO CreatedIsProgram
PROPERTIES ImplementsChannel ProgramEnds
CHECK_DEADLOCK FALSE
