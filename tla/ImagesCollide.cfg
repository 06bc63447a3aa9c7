SPECIFICATION Spec
CONSTANTS
  img1 = img1
  img2 = img2
  h1 = h1
  h2 = h2
  Image <- MCImage
  Host <- MCHost
  Uses <- MCUses
  Pulls <- MCPulls
  Archive <- MCShared
  Version = {0, 1}
  Newest = 2
  NoFile = NoFile
  Garbage = Garbage
  MaxFaults = 0
INVARIANT
  Distributed
CHECK_DEADLOCK FALSE
