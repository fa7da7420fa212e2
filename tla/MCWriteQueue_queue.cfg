CONSTANTS
  Writes = {1, 2, 3, 4}
  ImageHash <- MCImageHash
  Threads = {p, q}
  InsertThreshold = 2
  FullThreshold = 3
  CheckpointThreshold = 4
  DbFaults = {"commit", "checkpoint"}
  MaxFaults = 1
  MaxCommits = 1
  MaxCrashes = 1

SPECIFICATION FairSpec

INVARIANTS
  TypeOK
  NoLostWakeup
  InsertsInBounds
  NoTxBetweenBatches

PROPERTIES
  ImplementsStore
  CommitReachesDisk

CHECK_DEADLOCK FALSE
