SPECIFICATION Spec
CONSTANTS
  Base <- MCBase
  Addr = {a1}
  NoAddr = NoAddr
  Level <- MCLevel
  NoBar = NoBar
  MaxSets = 1
  MaxLogs = 1
  MaxFaults = 0
INVARIANTS
  NoLogLost
CHECK_DEADLOCK FALSE
