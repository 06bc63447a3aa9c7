SPECIFICATION MCLiveSpec
CONSTANTS
  Peer = {rust, go, py}
  Plain = {py}
  Prefetch = {rust, go}
  Reconnects = {go}
  Cap = 1
  MaxSends = 3
  MaxFaults = 1
  NoAddr = NoAddr
INVARIANTS
  TypeOK
  CommandsAccounted
  LossPerDeath
  StatusIsTrue
PROPERTIES
  RestartReturns
  CommandsMove
  ShutdownObeyed
CHECK_DEADLOCK FALSE
