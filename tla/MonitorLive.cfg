SPECIFICATION LiveSpec
CONSTANTS
  Base <- MCBase
  Addr = {a1}
  NoAddr = NoAddr
  Level <- MCLevel
  NoBar = NoBar
  MaxSets = 2
  MaxLogs = 2
  MaxFaults = 0
PROPERTIES
  ViewLive
  LogsDrain
CHECK_DEADLOCK FALSE
