SPECIFICATION BotSpec
CONSTANTS
  hyuna = hyuna
  valencia = valencia
  VisitMaxAge = 1
  Day = 6
  LastTime = 18
  Schedules <- MCSchedules
  Characters <- MCCharacters
  Visits <- MCVisits
  Required = 1
  MaxRecapFaults = 2
  MaxEdits = 1
  ana = ana
  People = {ana, bo}
  Processes = {old, new}
  Kinds <- MCKinds
  MaxChanges = 2
  MaxRosterFaults = 1
INVARIANTS
  EveningsCountOnce
  OneRecapMessage
  PlaytimeIsUnion
  PayslipsKeepTheContract
PROPERTIES
  PayslipRosterConverges
  AdministratorsRemain
CHECK_DEADLOCK FALSE
