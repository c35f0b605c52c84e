CONSTANTS
  e1 = e1
  e2 = e2
  e3 = e3
  NULL = NULL
  Ev <- MCEv
  First <- MCFirst
  Delay <- MCDelay
  MaximumDate = 2
  CommandLine <- OnlyWindow
  MaxKeys = 3
  Schedulers = {"threads"}
SPECIFICATION AllSpec
PROPERTIES DateNeverGoesBack
CHECK_DEADLOCK FALSE
