SPECIFICATION FairSpec
CONSTANTS
  NULL = NULL
  b1 = b1
  b2 = b2
  b3 = b3
  Block = {b1, b2, b3}
  LatticeKind = "HLattice"
  Size <- Rhombus
  Dir <- MCDir
  Cell <- MCCell
  DirOrder <- MCDirOrder
  CellOrder <- MCCellOrder
  Opposite <- MCOpposite
  NeighborCell <- MCNeighbor
  InitialCell <- RhombusPlacement
  Msg = {m1, m2}
  TransmissionTime = {2}
  SendDelay = {0, 1}
  StartDelay = {1}
  IntLimit = 12
  FarDate = 13
  MotionTime = {3}
  EndDelay = 1
  MaximumDate = 12
  MaxSends = 1
  MaxMoves = 1
PROPERTIES ImplementsFifoLink EveryMessageSettles
CHECK_DEADLOCK FALSE
