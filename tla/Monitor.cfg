SPECIFICATION Spec
CONSTANTS
  Base <- MCBase
  Addr = {a1}
  NoAddr = NoAddr
  Level <- MCOneLevel
  NoBar = NoBar
  MaxSets = 3
  MaxLogs = 2
  MaxFaults = 1
INVARIANTS
  TypeOK
  NoMissedUpdate
  LossBound
  LogsAccounted
  EventsReplay
PROPERTIES
  ViewSafe
CHECK_DEADLOCK FALSE
