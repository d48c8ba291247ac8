CONSTANTS
  s1 = s1
  s2 = s2
  p1 = p1
  p2 = p2
  AgingAge = 1
  StaleAge = 1
  Shelters = {s1, s2}
  Populations = {p1, p2}
  Viewers = {v1}
  Movable = {s2}
  MaxClock = 1
  MaxFaults = 1
  Reporting <- MCReporting
SPECIFICATION Spec
INVARIANTS
  TypeOK
  ConfidentialHidden
  OtherTenantSeesNothing
  StaleIsFlagged
  ReleasedAll
  ServedWhileOpen
PROPERTIES
  BoardFollows
  StopsWithoutWatchers
CHECK_DEADLOCK FALSE
