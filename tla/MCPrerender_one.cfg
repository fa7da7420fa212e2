CONSTANTS
  Workers = {w1}
  Jobs = {"zooms", "b"}
  Tiles = {1, 2, 5}
  Blocks = {x, y}
  MinBatch = 2
  MayFail = {}
  MaxStatus = 1
  Batches <- MCBatches
  Location <- MCLocation

SPECIFICATION FairSpec

INVARIANTS
  StatsAlive
  OngoingListed
  NoneOngoingAtRest

PROPERTY
  TilesReachDisk

CHECK_DEADLOCK FALSE
