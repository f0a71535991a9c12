CONSTANTS
  Size <- TheSizes
  Floor = 4
  Transcripts <- TheTranscripts
  FirstReads <- TheReads
  Budgets <- TheBudgets
  WarningSizes = {0, 2}
  BudgetStep = 6
  MaxBudget = 90
SPECIFICATION FairSpec
INVARIANTS
  TypeOK
  UsesItsBudget
  NothingDropped
  KeepsItsEnd
PROPERTIES
  ReadToTheEnd
