\* Two recordings compete for two workers whose number changes: one is started by
\* hand or by its upload and renamed, the other has a run queue.
SPECIFICATION Spec
CONSTANTS
  j1 = j1  j2 = j2  i1 = i1  i2 = i2  i3 = i3  e1 = e1  e2 = e2
  Jobs = {j1, j2}
  Items = {i2}
  Execs = {e2}
  JobOf <- TwoRecordings
  Recording = j1
  NoItem = NoItem  NoExec = NoExec  NoTask = NoTask  AnyRun = AnyRun  Free = Free
  StopTargets = {AnyRun}
  Timed = {}
  Immediate = {j1}
  Renames = {j1}
  AutoStarts = {j1}
  MaxRuns = 3
  MaxWorkers = 2
  Capacity = 2
  MaxRestarts = 0
  MaxFaults = 0
  MaxGen = 1
INVARIANTS
  OneOwner NoDoubleDispatch DeletingIsQuiet
PROPERTIES
  WorkerLimit
\* The inputs are bounded: once they are used up the system may stop.
CHECK_DEADLOCK FALSE
