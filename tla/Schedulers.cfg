CONSTANTS
  e1 = e1
  e2 = e2
  e3 = e3
  NULL = NULL
  Ev <- MCEv
  First <- MCFirst
  Delay <- MCDelay
  MaximumDate = 2
  CommandLine <- Everything
  MaxKeys = 3
  Schedulers = {"threads", "process", "debugger"}
SPECIFICATION FairAllSpec
INVARIANTS NoEventLost NothingRunsUnasked MeldJoins
PROPERTIES MachinesAgree AllFinish QuitAlwaysEnds
CHECK_DEADLOCK FALSE
