\* Two recordings, one worker and room for one entry, under fairness.
SPECIFICATION FairSpec
CONSTANTS
  j1 = j1  j2 = j2  i1 = i1  i2 = i2  i3 = i3  e1 = e1  e2 = e2
  Jobs = {j1, j2}
  Items = {i1, i2}
  Execs = {e1, e2}
  JobOf <- TwoRecordings
  Recording = j1
  NoItem = NoItem  NoExec = NoExec  NoTask = NoTask  AnyRun = AnyRun  Free = Free
  StopTargets = {AnyRun}
  Timed = {}
  Immediate = {}
  Renames = {}
  AutoStarts = {}
  MaxRuns = 3
  MaxWorkers = 1
  Capacity = 1
  MaxRestarts = 1
  MaxFaults = 0
  MaxGen = 1
PROPERTIES
  AcceptedRunSettles StopsEnd
\* The inputs are bounded: once they are used up the system may stop.
CHECK_DEADLOCK FALSE
