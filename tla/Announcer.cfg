SPECIFICATION FairSpec
CONSTANTS
  MergeWindow = 0
  OpenAge = 2
  Limit = 2
  Corroborates = {"nothing", "connected"}
  MaxTime = 2
  MaxRows = 3
  MaxFaults = 1
  MaxReboots = 1
INVARIANTS
  NothingPassedOver
  MessageIsOneChange
PROPERTIES
  CursorCatchesUp
CHECK_DEADLOCK FALSE
