SPECIFICATION MCOldSpec
CONSTANTS
  rust = rust
  py = py
  Peer <- MCPeers
  NoAddr = NoAddr
  Plain = {}
  Prefetch <- MCPrefetch
  Reconnects = {}
  Cap = 1
  MaxSends = 0
  OldAddr = OldAddr
  PeerSeq <- MCSeq
  BootSeq <- MCBoot
  MaxFaults = 0
  Batches <- MCOneCommand
  External = TRUE
  Stale <- MCStale
INVARIANT
  NoOldCommand
PROPERTY
  Terminates
CHECK_DEADLOCK FALSE
