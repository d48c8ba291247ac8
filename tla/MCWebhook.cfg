CONSTANTS
  Requests = {r1, r2}
  Profiles = {"en", "xx"}
  Populations = {p1, p2}
  Unserved = Unserved
  NoOverride = NoOverride
  Overrides = {p2, NoOverride}
  Beds = {1}
  Holdable = {p1}
  MaxHolds = 1
  MaxFaults = 1
  Numbers = {0, 1, 2, 3}
  MaxCount = 2
  p1 = p1
  p2 = p2
  DefaultMap <- MCDefaultMap
  Overridable <- MCWomen
  Texts <- MCTexts
SPECIFICATION Spec
SYMMETRY MCRequestSymmetry
INVARIANTS
  TypeOK
  SnapshotFromText
  ToldUnlessErred
  ConfirmedIsSaved
