SPECIFICATION ServiceSpec
CONSTANTS
  NULL = NULL
  red = red
  grey = grey
  NoAttr = NoAttr
  BadAttr = BadAttr
  Plain = plain
  Formats <- SomeFormats
  Words <- SomeWords
  MaxWords = 5
  MaxCalls = 2
  MaxTurns = 2
  Extents <- SomeExtents
  Border = 1
  Services = {"target", "clocks", "configStat", "statistics", "configuration", "viewer", "windows"}
INVARIANTS BlocksAreFound TargetIsText WindowsAgree StatisticsAgree
PROPERTIES ClocksAreSound
CHECK_DEADLOCK FALSE
