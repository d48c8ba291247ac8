CONSTANTS
  s1 = s1
  s2 = s2
  c1 = c1
  c2 = c2
  l1 = l1
  l2 = l2
  NoShelter = NoShelter
  AgingAge = 1
  StaleAge = 1
  EscalationWindow = 1
  Shelters = {s1}
  DvShelters = {}
  Reclassified = {}
  Populations = {p1, p2}
  Coordinators = {c1, l1}
  Leads = {c1, l1}
  Unreachable = {c1}
  Toggled = {c1}
  Requests = {r1}
  CheckTimes = {1, 2, 3}
  MaxClock = 3
  MaxFaults = 1
  ShelterOf <- MCShelterOf
SPECIFICATION Spec
SYMMETRY MCPopulationSymmetry
INVARIANTS
  TypeOK
  AtMostOnePending
  EscalationWaits
  SavedClearsEarlier
  IInv
PROPERTIES
  NoTextWhilePending
  LedgerSpec
