SPECIFICATION Spec
CONSTANTS
  Deliveries = {p1}
  MaxTime = 4
  Skew = 1
  ConnectGrace = 2
  VisitMaxAge = 2
  Restarts = {}
  Token = 2
  Burst = 2
  Second = 3
INVARIANTS
  OrderNeverMerges
CHECK_DEADLOCK FALSE
