CONSTANTS
  a = a
  None = None
  Sessions = {a}
  Agents = {1, 2}
  AgentOf <- OfTheFirst
  MaxText = 4
  Faults = {"discovery", "read", "thread"}
SPECIFICATION Spec
INVARIANTS
  TypeOK
  DeletedStaysOut
  QuietRefreshIsComplete
PROPERTIES
  RowsNeverGoBack
  OnlyGoneRowsLeave
