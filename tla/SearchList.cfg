CONSTANTS
  Text = {qa, qb}
  SessionIds = {id}
  Empty = empty
  None = None
  Ops <- EveryOp
  MaxGeneration = 3
  MaxLayout = 2
  MaxCount = 1
  MaxPanics = 1
SPECIFICATION Spec
SYMMETRY TextSymmetry
CHECK_DEADLOCK FALSE
INVARIANTS
  TypeOK
  AnswerIsOfCurrentLayout
  RankedOnItsOwnVersions
  ShownQueryIsTrue
