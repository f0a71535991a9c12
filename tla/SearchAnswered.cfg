CONSTANTS
  Text = {qa, qb}
  SessionIds = {}
  Empty = empty
  None = None
  Ops = {"mode", "refresh"}
  MaxGeneration = 3
  MaxLayout = 2
  MaxCount = 0
  MaxPanics = 0
SPECIFICATION FairSpec
CHECK_DEADLOCK FALSE
PROPERTIES
  QueryAnswered
  SearchEnds
