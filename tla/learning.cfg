SPECIFICATION MCSpec
CONSTANTS
  x1 = x1
  x2 = x2
  e1 = e1
  e2 = e2
  e3 = e3
  r1 = r1
  r2 = r2
  t1 = t1
  home = home
  away = away
  None = None
  Inherited = Inherited
  Executions <- MCExecutions
  RecordingOf <- MCRecordingOf
  StagesOf <- MCStagesOf
  Contexts = {home, away}
  Ladder <- MCLadderOf
  FullWindow = {"full"}
  Measurements = 2
  Edits = {home}
  Stoppable = {e1}
  Resumable = {e2}
  MaxAttempts <- MCAttempts
  Qualities <- MCQualities
  MaxRevision = 2
  MaxGeneration = 4
  MaxOwner = 2
INVARIANTS
  SelectionsAreEarned
  RunsUseTheirOwnEvidence
PROPERTIES
  LearningIsKept
CHECK_DEADLOCK FALSE
