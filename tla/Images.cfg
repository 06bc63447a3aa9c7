SPECIFICATION LiveSpec
CONSTANTS
  img1 = img1
  img2 = img2
  h1 = h1
  h2 = h2
  Image <- MCImage
  Host <- MCHost
  Uses <- MCUses
  Pulls <- MCPulls
  Archive <- MCApart
  Version = {0, 1, 2}
  Newest = 2
  NoFile = NoFile
  Garbage = Garbage
  MaxFaults = 2
INVARIANTS
  TypeOK
  Distributed
  NothingSwallowed
  ReadsComplete
  Independent
  LocalClean
PROPERTY
  DistributionEnds
CHECK_DEADLOCK FALSE
