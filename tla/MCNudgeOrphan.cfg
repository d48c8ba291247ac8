CONSTANTS
  s1 = s1
  s2 = s2
  c1 = c1
  c2 = c2
  l1 = l1
  l2 = l2
  NoShelter = NoShelter
  AgingAge = 1
  StaleAge = 1
  EscalationWindow = 1
  Shelters = {s1}
  DvShelters = {}
  Reclassified = {}
  Populations = {p1}
  Coordinators = {l1}
  Leads = {l1}
  Unreachable = {}
  Toggled = {l1}
  Requests = {}
  CheckTimes = {2, 5}
  MaxClock = 6
  MaxFaults = 0
  ShelterOf <- MCShelterOf
SPECIFICATION FairSpec
PROPERTIES
  EveryOverdueEscalated
