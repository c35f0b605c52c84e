SPECIFICATION FairAnySpec
CONSTANTS
  VACANT = 0
  Block = {1, 2, 3}
  Program = {"rainbow", "cycle"}
  TypesOf <- MCTypesOf
  RulesOf <- MCRulesOf
  Faces <- MCFaces
  Opposite <- MCOpposite
  NeighborCell <- MCNeighborCell
  Placements <- MCColumn
  Cell <- MCCell
  Disturbed <- MCDisturbed
  MaxMoves = 1
  MaxTaps = 1
  MaxTime = 3
  Robotic = {"demo"}
  RobotPlaces <- MCRobots
CHECK_DEADLOCK FALSE
INVARIANTS FactsAreCounted HeightsAgree LinearIsConserved GateIsShared RowIsFormed
PROPERTY SettlesDown
