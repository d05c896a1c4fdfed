SPECIFICATION Spec
CONSTANTS
  Bots = {old, new}
  Evenings = {1, 2}
  MaxMembers = 1
  Shunned = {1}
  MaxFaults = 2
  MaxPosts = 4
INVARIANTS
  PeakIsBestSample
  OnePostUp
PROPERTIES
  ImplementsBoard
