CONSTANTS
  Workers = {w1, w2}
  Jobs = {"a"}
  Tiles = {1, 2, 3}
  Blocks = {x}
  MinBatch = 2
  MayFail = {3}
  MaxStatus = 1
  Batches <- MCBatches
  Location <- MCLocation

SPECIFICATION Spec

INVARIANTS
  TypeOK
  NoPrematureFinish

CHECK_DEADLOCK FALSE
