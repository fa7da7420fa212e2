CONSTANTS
  Unit = 2
  Size = 5
  Extent = 10
  Shapes <- MCShapes
  MaxFills = {1, 2, 5}
SPECIFICATION FairSpec
INVARIANTS FillsWhole FillsPolygon
PROPERTIES GoodBatches FillEnds
CHECK_DEADLOCK FALSE
