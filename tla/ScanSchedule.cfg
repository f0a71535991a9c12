CONSTANTS
  N = 3
  Reads = 2
  Reader = {r1, r2}
  Searcher = {s1, s2}
  ReadAheadBytes = 2
  Size = {1, 2}
  None = None
  Wanted = {0, 3}
  Panics <- AnyPanic
SPECIFICATION FairSpec
CHECK_DEADLOCK FALSE
INVARIANTS
  TypeOK
  EachItemOnce
  ReadAheadBounded
  NoLostWakeup
  NeverStuck
PROPERTIES
  ReadsStartInOrder
  NothingStartsAfterStop
  ScanEnds
  ImplementsInOrder
