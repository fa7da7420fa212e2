CONSTANTS
  Workers = {w1, w2}
  Jobs = {"small", "b"}
  Tiles = {1, 2, 5}
  Blocks = {x}
  MinBatch = 2
  MayFail = {}
  MaxStatus = 0
  Batches <- MCBatches
  Location <- MCLocation

SPECIFICATION Spec

INVARIANT
  OngoingListed

CHECK_DEADLOCK FALSE
