SPECIFICATION Spec
CONSTANTS
  Deliveries = {p1, p2}
  MaxTime = 4
  Skew = 1
  ConnectGrace = 2
  VisitMaxAge = 2
  Restarts = {2, 4}
  Token = 2
  Burst = 2
  Second = 3
INVARIANTS
  SessionIsOneVisit
  AnswersAgree
  WholeVisits
  LimitIsKept
CHECK_DEADLOCK FALSE
