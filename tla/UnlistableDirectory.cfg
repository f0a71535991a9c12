CONSTANTS
  a = a
  None = None
  Sessions = {a}
  Agents = {1, 2}
  AgentOf <- OfTheFirst
  MaxText = 2
  Faults = {"directory"}
SPECIFICATION Spec
PROPERTIES
  OnlyGoneRowsLeave
