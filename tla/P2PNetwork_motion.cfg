SPECIFICATION Spec
CONSTANTS
  NULL = NULL
  b1 = b1
  b2 = b2
  b3 = b3
  Block = {b1, b2, b3}
  LatticeKind = "SCLattice"
  Size <- Row
  Dir <- MCDir
  Cell <- MCCell
  DirOrder <- MCDirOrder
  CellOrder <- MCCellOrder
  Opposite <- MCOpposite
  NeighborCell <- MCNeighbor
  InitialCell <- RowPlacement
  Msg = {m1, m2, m3}
  TransmissionTime = {1, 2}
  SendDelay = {0, 1}
  StartDelay = {0, 1}
  IntLimit = 8
  FarDate = 9
  MotionTime = {3}
  EndDelay = 1
  MaximumDate = 9
  MaxSends = 1
  MaxMoves = 1
INVARIANTS NoFatalError WireHasOneStop BufferIsServed LocalListIsServed RightReceiver LinksMatchLattice
CHECK_DEADLOCK FALSE
