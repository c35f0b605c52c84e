SPECIFICATION GuiSpec
CONSTANTS
  NULL = NULL
  b1 = b1
  b2 = b2
  b3 = b3
  Block = {b1, b2, b3}
  Dir <- MCDir
  Cell <- Row
  DirOrder <- MCDirOrder
  CellOrder <- RowOrder
  Opposite <- RowOpposite
  NeighborCell <- RowNeighbor
  InitialCell <- RowPlacement
  Msg = {m1, m2}
  TransmissionTime = {1, 2}
  SendDelay = {0, 1}
  StartDelay = {0}
  IntLimit = 12
  FarDate = 13
  MotionTime = {3}
  EndDelay = 1
  MaximumDate = 12
  MaxSends = 2
  MaxMoves = 0
  MaxClicks = 2
INVARIANT NoFatalError
CHECK_DEADLOCK FALSE
