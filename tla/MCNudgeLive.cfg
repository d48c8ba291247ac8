CONSTANTS
  s1 = s1
  s2 = s2
  c1 = c1
  c2 = c2
  l1 = l1
  l2 = l2
  NoShelter = NoShelter
  AgingAge = 1
  StaleAge = 1
  EscalationWindow = 1
  Shelters = {s1}
  DvShelters = {}
  Reclassified = {s1}
  Populations = {p1}
  Coordinators = {c1, l1}
  Leads = {l1}
  Unreachable = {}
  Toggled = {l1}
  Requests = {}
  CheckTimes = {2, 4}
  MaxClock = 4
  MaxFaults = 1
  ShelterOf <- MCShelterOf
SPECIFICATION FairSpec
PROPERTIES
  DvLeftAlone
  StaleIsNudged
  EscalationAnswered
