\* Every plan with two owners of the stage, seven attempts as in the code.
SPECIFICATION Spec
CONSTANTS
  None = None
  Plans <- EveryPlan
  MaxAttempts = 7
  MaxGen = 2
  MaxInner = 1
  MaxUnread = 1
INVARIANTS
  OnlyPermittedSettings LadderDescends RetriesWithinBudget
  NothingRepeatedInVain EnumerationIsTheLadder
\* A stage ends, with a result, a stop or its last attempt.
CHECK_DEADLOCK FALSE
