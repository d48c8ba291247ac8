CONSTANTS
  Writers = {w1, w2, w3, w4, w5}
  Values = {veteran, disabled}
  NoValue = NoValue
SPECIFICATION Spec
SYMMETRY MCWriterSymmetry
INVARIANTS
  TypeOK
  SavedTookEffect
  RaisesOnlyIfDeleted
  IInv
CHECK_DEADLOCK FALSE
