SPECIFICATION AnySpec
CONSTANTS
  VACANT = 0
  Block = {1, 2, 3}
  Program = {"topNeighborRed"}
  TypesOf <- MCTypesOf
  RulesOf <- MCRulesOf
  Faces <- MCFaces
  Opposite <- MCOpposite
  NeighborCell <- MCNeighborCell
  Placements <- MCRow
  Cell = {}
  Disturbed <- MCMovers
  MaxMoves = 1
  MaxTaps = 0
  MaxTime = 3
  Robotic = {}
  RobotPlaces <- MCRobots
CHECK_DEADLOCK FALSE
INVARIANT PortFactsFit
