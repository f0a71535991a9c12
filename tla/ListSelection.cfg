CONSTANTS
  a = a
  b = b
  c = c
  None = None
  Sessions = {a, b, c}
SPECIFICATION Spec
SYMMETRY SessionSymmetry
INVARIANTS
  TypeOK
  KeepsSelection
  OpensWhatWasAsked
  ShownIsSelected
PROPERTIES
  RowsOnScreenStay
