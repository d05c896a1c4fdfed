SPECIFICATION Spec
CONSTANTS
  Processes = {p1}
  Characters = {ana, bo}
  Restarts = {2, 3}
  AbsenceStreak = 3
  MaxTorn = 2
  Others = {0, 1}
  MaxTime = 3
  MaxChanges = 4
INVARIANTS
  OneOpenVisit
PROPERTIES
  NoFalseExit
  StaleNeedsALapse
CHECK_DEADLOCK FALSE
