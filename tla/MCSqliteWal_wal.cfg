CONSTANTS
  Readers = {r}
  Writer = w
  NPage = 2
  NReader = 2
  MaxFrame = 3
  MaxTx = 2
  MaxVersion <- OnceTwice
  MaxCheckpoints = 1
  MaxCrashes = 1
SPECIFICATION Spec
INVARIANTS TypeOK WriterReadsItsWrites
PROPERTIES ImplementsSnapshots CheckpointReturns
CHECK_DEADLOCK FALSE
