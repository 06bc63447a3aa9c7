SPECIFICATION MCSpec
CONSTANTS
  QueueCap = 2
  MaxEntries = 4
  MaxProcesses = 2
  MaxLogFaults = 1
  ChanCap = 1
  Loud = {2, 3}
INVARIANTS
  EntriesAccounted
  ConsoleComplete
PROPERTIES
  ArrivesInOrder
  Delivered
CHECK_DEADLOCK FALSE
