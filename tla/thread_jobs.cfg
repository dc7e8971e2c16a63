SPECIFICATION MixSpec
CONSTANTS
  t1 = t1
  t2 = t2
  j1 = j1
  j2 = j2
  Threads = {t1, t2}
  Scavenger = Scavenger
  Nobody = Nobody
  Jobs = {j1, j2}
  QueueMax = 1
  BatchSize = 1
  MaxDelay = 2
  MaxEntries = 2
  Extra = TRUE
  Shutdown = TRUE
INVARIANTS
  OwnershipExact
PROPERTIES
  ScavengerCatchesUp
CHECK_DEADLOCK FALSE
