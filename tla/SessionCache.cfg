CONSTANTS
  a = a
  b = b
  main = main
  list = list
  None = None
  Foreign = Foreign
  Sessions = {a, b}
  Shards = {0, 1}
  ShardOf <- ShardOfSession
  Threads = {main, list}
  Loaders = {main}
  ProcessOf <- OneProcess
  Faults = {"write", "remove"}
  EmptyTexts = {2}
  MaxVersion = 2
SPECIFICATION Spec
INVARIANTS
  TypeOK
  HitIsCurrent
  NextLoadParsesNothing
PROPERTIES
  MergeKeepsOthers
SYMMETRY SessionSymmetry
