CONSTANTS
  Passages = {1, 2, 3, 4}
  Corpora <- AllCorpora
  BatchSize = 1
  SaveInterval = 2
  MaxEntries = 3
  MaxAccess = 4
  Process = {p1}
  None = None
SPECIFICATION Spec
CHECK_DEADLOCK FALSE
INVARIANTS
  TypeOK
  RankedIsTrue
  SavedWhenStopped
  OwnPassagesStay
  RerunIndexesMore
PROPERTIES
  CoreIsKept
