SPECIFICATION AppSpec
CONSTANTS
  NULL = NULL
  Catom = {1, 2, 3}
  Robot = {1, 2, 3, 4}
  Size <- RobotSize
  Start <- RobotStart
  NeighborCell <- RobotNeighborCell
  Rules <- RobotRules
  NoItf = NULL
  MaxTrains = 1
  MaxGain = 1
  Grid <- Grid2D
  Starts <- Starts2D
  Budget <- Budget2D
  Apps = {"robot01", "sbReconf", "sphereCatoms3D", "smartBlocks1", "csgCatoms3D", "catoms2D", "catoms3D"}
  SphereCatom = {1, 2, 3, 4, 5}
  Source = 1
  SphereGraphs <- MCSphereGraphs
  SmartBlock = {1, 2, 3, 4, 5}
  SmartMaster = 1
  Goal = 2
  SmartGraphs <- MCSmartGraphs
  CsgCatom = {1, 2, 3, 4, 5}
  CsgPlacements <- MCCsgPlacements
  CsgCodes <- MCCsgCodes
  CsgShape <- MCCsgShape
  NoPosition = NoPosition
INVARIANTS EchoIsExact TrainMovesAsOne FloodsAreExact FacesAgree NotBlockedIsNoCut
PROPERTIES CountIsExact RotationsLand
CHECK_DEADLOCK FALSE
