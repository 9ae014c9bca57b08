\* A crash, a resume, a second crash before the resume is claimed.
SPECIFICATION Spec
CONSTANTS
  j1 = j1  j2 = j2  i1 = i1  i2 = i2  i3 = i3  e1 = e1  e2 = e2
  Jobs = {j1}
  Items = {i1}
  Execs = {e1}
  JobOf <- OneRecording
  Recording = j1
  NoItem = NoItem  NoExec = NoExec  NoTask = NoTask  AnyRun = AnyRun  Free = Free
  StopTargets = {AnyRun}
  Timed = {}
  Immediate = {}
  Renames = {}
  AutoStarts = {}
  MaxRuns = 3
  MaxWorkers = 1
  Capacity = 2
  MaxRestarts = 2
  MaxFaults = 0
  MaxGen = 2
INVARIANTS
  InterruptedCanBeResumed
\* The inputs are bounded: once they are used up the system may stop.
CHECK_DEADLOCK FALSE
