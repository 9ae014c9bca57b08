\* One plan, one resume, and one worker log that cannot be read.
SPECIFICATION Spec
CONSTANTS
  None = None
  Plans <- StrongPlans
  MaxAttempts = 7
  MaxGen = 2
  MaxInner = 1
  MaxUnread = 1
INVARIANTS
  NoFreshBudget
CHECK_DEADLOCK FALSE
