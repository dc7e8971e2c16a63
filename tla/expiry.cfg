SPECIFICATION FairSpec
CONSTANTS
  m1 = m1
  m2 = m2
  m3 = m3
  m4 = m4
  Threads = {t1, t2}
  Reaper = Reaper
  Msgs = {m1, m2, m3}
  Expiry <- MCExpiry
  MaxTime = 4
  NUM_EARLIEST_MESSAGES = 2
  RacingScan = FALSE
  RacingFree = FALSE
  NoThread = NoThread
  NoMsg = NoMsg
INVARIANTS
  IndexExact
  ReaperListExact
PROPERTIES
  ReapIsThorough
  ThreadsGetOut
