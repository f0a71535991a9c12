CONSTANTS
  a = a
  b = b
  c = c
  None = None
  Sessions = {a, b}
SPECIFICATION Spec
SYMMETRY SessionSymmetry
PROPERTIES
  DeletesTheOpenSession
