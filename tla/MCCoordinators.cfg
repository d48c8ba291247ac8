CONSTANTS
  Phones = {n1, n2}
  Shelters = {s1, s2}
  Tabs = {k1, k2}
  MaxRows = 3
SPECIFICATION Spec
SYMMETRY MCSymmetry
INVARIANTS
  TypeOK
  TextsAreDue
PROPERTIES
  DeletedStaysDeleted
