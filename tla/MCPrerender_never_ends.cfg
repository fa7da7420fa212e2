CONSTANTS
  Workers = {w1, w2}
  Jobs = {"small"}
  Tiles = {1, 2}
  Blocks = {x}
  MinBatch = 2
  MayFail = {}
  MaxStatus = 0
  Batches <- MCBatches
  Location <- MCLocation

SPECIFICATION Spec

INVARIANT
  NoneOngoingAtRest

CHECK_DEADLOCK FALSE
