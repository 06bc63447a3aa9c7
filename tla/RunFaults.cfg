SPECIFICATION Spec
CONSTANTS
  rust = rust
  py = py
  Peer <- MCPeers
  NoAddr = NoAddr
  Plain <- MCPlain
  Prefetch <- MCPrefetch
  Reconnects = {}
  Cap = 1
  MaxSends = 0
  OldAddr = OldAddr
  PeerSeq <- MCSeq
  BootSeq <- MCBoot
  MaxFaults = 1
  Batches <- MCRestartOne
  External = FALSE
  Stale <- MCNoStale
ACTION_CONSTRAINT EarlyOrNever
INVARIANTS
  TypeOK
  StartedThisRun
  BootstrapTrue
  NotCutShort
  ToldToStop
  NoLeak
CHECK_DEADLOCK FALSE
