SPECIFICATION MCSpec
CONSTANTS
  NPeers = 4
  NHosts = 3
  Tag = {"gpu", "lan"}
  GroupTags <- MCGroupTags
  Ports = 4
  BasePort = {2}
  MaxCommands = 4
  MaxTime = 3
INVARIANTS
  TypeOK
  PortsUnique
  Balanced
  AsScheduled
  OnTime
PROPERTIES
  PlanEnds
CHECK_DEADLOCK FALSE
