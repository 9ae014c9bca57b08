\* An upload session of either kind with two chunks, a chunk upload at a time, a
\* quick job, an event stream and a run.
SPECIFICATION Spec
CONSTANTS
  s1 = s1  k1 = k1  k2 = k2  q1 = q1  u1 = u1  c1 = c1  w1 = w1
  Sessions = {s1}
  Quick = {q1}
  Requests = {u1}
  Clients = {c1}
  Workers = {w1}
  None = None
  Chunks = {k1, k2}
  MaxSlots = 1
  MaxActive = 1
SYMMETRY ChunksAlike
INVARIANTS
  TypeOK NoPanic OneResult NeededFilesStay
\* Once all sessions are used up the system may stop.
CHECK_DEADLOCK FALSE
