CONSTANTS
  Writes = {1, 2, 3}
  ImageHash <- MCImageHash
  Threads = {p}
  InsertThreshold = 2
  FullThreshold = 3
  CheckpointThreshold = 2
  DbFaults = {"step", "rollback", "commit", "busy", "checkpoint"}
  MaxFaults = 2
  MaxCommits = 2
  MaxCrashes = 0

SPECIFICATION FairSpec

INVARIANTS
  DanglingBounded

PROPERTY
  QueueDrains

CHECK_DEADLOCK FALSE
