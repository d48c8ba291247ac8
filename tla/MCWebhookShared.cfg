CONSTANTS
  Requests = {r1}
  Profiles = {"en"}
  Populations = {p1, p2}
  Unserved = Unserved
  NoOverride = NoOverride
  Overrides = {p1, NoOverride}
  Beds = {2}
  Holdable = {}
  MaxHolds = 0
  MaxFaults = 0
  Numbers = {0, 1, 2, 3}
  MaxCount = 2
  p1 = p1
  p2 = p2
  DefaultMap <- MCDefaultMap
  Overridable <- Buckets
  Texts <- MCTextsPair
SPECIFICATION Spec
INVARIANTS
  ConfirmationShown
