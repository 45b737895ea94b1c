SPECIFICATION FairSpec
CONSTANTS
  Bindings <- MCBindings
  Native = "native"
  Nobody = "nobody"
  Specs <- MCSpecs
  ReplyTables <- MCReplyTables
  Budget = 1
  BudgetStep = 1
  MaxInvocationDepth = 2
  HandlerRuns = 1
  InCapacity = 1
  MaxId = 2
  MaxNesting <- MCMaxNesting
  Cells = {"c1", "c2"}
  Solid = "stone"
  Bootstraps <- MCBootstraps
  OutCapacity = 1
  MaxEdits = 1
INVARIANTS CallerInv StartedAtMostOnce PlacedAllOrNone OnlyMissingCellsWait
PROPERTIES AbortIsFinal LoneInvocationsEnd
CHECK_DEADLOCK FALSE
