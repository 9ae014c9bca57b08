\* One recording: three runs, two executions, one with a deadline, exact stops, a
\* database write that fails and a restart of the process.
SPECIFICATION Spec
CONSTANTS
  j1 = j1  j2 = j2  i1 = i1  i2 = i2  i3 = i3  e1 = e1  e2 = e2
  Jobs = {j1}
  Items = {i1, i2, i3}
  Execs = {e1, e2}
  JobOf <- OneRecording
  Recording = j1
  NoItem = NoItem  NoExec = NoExec  NoTask = NoTask  AnyRun = AnyRun  Free = Free
  StopTargets = {i1, i2, i3}
  Timed = {e1}
  Immediate = {}
  Renames = {}
  AutoStarts = {}
  MaxRuns = 3
  MaxWorkers = 1
  Capacity = 2
  MaxRestarts = 1
  MaxFaults = 1
  MaxGen = 2
SYMMETRY Interchangeable
INVARIANTS
  TypeOK OneActiveRun OneStory UnownedIsAccountedFor
PROPERTIES
  OutcomesAreFinal StopIsExact ReleaseTerminates ProtectedIsLeftAlone
  RunQueueImplemented
\* The inputs are bounded: once they are used up the system may stop.
CHECK_DEADLOCK FALSE
