SPECIFICATION Spec
CONSTANTS
  m1 = m1
  r1 = r1
  f1 = f1
  Models = {m1}
  Runs = {r1}
  Fetches = {f1}
  Needs <- NeedsOne
  CachedOnly = {r1}
  Client = Client
  Collector = Collector
  Service = Service
  None = None
  MaxContent = 1
  MaxRequests = 2
  MaxCrashes = 1
INVARIANTS
  TypeOK
  StaleEntriesAreMarked
  ProvenMeansAlone
PROPERTIES
  UsedFilesStay
  KeptFilesStay
  CleanupAsAgreed
  CancellationWins
CHECK_DEADLOCK FALSE
