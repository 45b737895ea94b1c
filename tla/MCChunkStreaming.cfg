SPECIFICATION FairSpec
CONSTANTS
  Chunks <- Line
  Radius = 1
  CommitBudget = 1
  MaxReady = 2
  GenerationFails = TRUE
  MaxEpoch = 2
INVARIANTS StagingInv PlanCovered
PROPERTIES EditsSurviveCommit PlanEnds DestructorReturns
CHECK_DEADLOCK FALSE
