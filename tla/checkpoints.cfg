SPECIFICATION Spec
CONSTANTS
  e1 = e1
  e2 = e2
  r1 = r1
  Execs = {e1, e2}
  Recs = {r1}
  RecOf <- OneRecording
  Recording = r1
  Stages = 2
  MaxAttempts = 2
  MaxTries = 2
  Stoppable = {e1}
  Timed = {e1}
  Reusing = {e2}
  Adaptive = {e1}
  None = None
  Free = Free
  Deleter = Deleter
  MaxGen <- Owners
  MaxRestarts = 1
  MaxFaults = 1
INVARIANTS
  TypeOK SelectedIsReadable LineageIsOwnChain DeletionIsComplete AttemptsAddUp
PROPERTIES
  ResultsImplemented
\* The inputs are bounded: once they are used up the system may stop.
CHECK_DEADLOCK FALSE
