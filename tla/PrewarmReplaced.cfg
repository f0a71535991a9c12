CONSTANTS
  Text = {qa}
  SessionIds = {}
  Empty = empty
  None = None
  Ops <- OnlyTyping
  MaxGeneration = 3
  MaxLayout = 1
  MaxCount = 0
  MaxPanics = 0
SPECIFICATION FairSpec
CHECK_DEADLOCK FALSE
PROPERTY
  PollingEnds
