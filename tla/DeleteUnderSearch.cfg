CONSTANTS
  Text = {qa, qb}
  SessionIds = {}
  Empty = empty
  None = None
  Ops = {"delete"}
  MaxGeneration = 4
  MaxLayout = 2
  MaxCount = 1
  MaxPanics = 0
SPECIFICATION FairSpec
CHECK_DEADLOCK FALSE
PROPERTY
  QueryAnswered
