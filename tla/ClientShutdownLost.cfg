SPECIFICATION MCLiveSpec
CONSTANTS
  Peer = {rust}
  Plain = {}
  Prefetch = {rust}
  Reconnects = {}
  Cap = 1
  MaxSends = 2
  MaxFaults = 0
  NoAddr = NoAddr
PROPERTIES
  ShutdownObeyedByAll
CHECK_DEADLOCK FALSE
