CONSTANTS
  s1 = s1
  s2 = s2
  c1 = c1
  c2 = c2
  l1 = l1
  l2 = l2
  NoShelter = NoShelter
  AgingAge = 1
  StaleAge = 1
  EscalationWindow = 1
  Shelters = {s1, s2}
  DvShelters = {}
  Reclassified = {}
  Populations = {p1}
  Coordinators = {c1, c2}
  Leads = {}
  Unreachable = {c1}
  Toggled = {c1, c2}
  Requests = {}
  CheckTimes = {1, 2}
  MaxClock = 2
  MaxFaults = 0
  ShelterOf <- MCShelterOf
SPECIFICATION FairSpec
PROPERTIES
  ReachableIsNudged
