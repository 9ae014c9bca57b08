\* A run whose worker has something to announce, under fairness.
SPECIFICATION FairSpec
CONSTANTS
  s1 = s1  k1 = k1  k2 = k2  q1 = q1  u1 = u1  c1 = c1  w1 = w1
  Sessions = {}
  Quick = {}
  Requests = {u1}
  Clients = {}
  Workers = {w1}
  None = None
  Chunks = {k1, k2}
  MaxSlots = 1
  MaxActive = 1
PROPERTIES
  ShutdownCompletes
\* Nothing makes the next server start.
CHECK_DEADLOCK FALSE
