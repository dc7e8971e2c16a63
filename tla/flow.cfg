SPECIFICATION FairSpec
CONSTANTS
  t1 = t1
  t2 = t2
  c1 = c1
  c2 = c2
  m1 = m1
  m2 = m2
  m3 = m3
  m4 = m4
  m5 = m5
  Threads = {t1, t2}
  Consumers = {c1}
  Msgs = {m1, m2}
  Expiring = {}
  MaxMsgCount = 1
  MaxMsgBehavior = "RejectNewMessages"
  ExplicitSuspends = TRUE
  CallbackOps = {"put"}
  Budget <- FlowBudget
  SlowPut = FALSE
  RacingDestroy = FALSE
  NoThread = NoThread
  NoConsumer = NoConsumer
  NoMsg = NoMsg
  NoCb = NoCb
INVARIANTS
  LockExclusion
  CallbacksAllowed
  NoLostWakeup
PROPERTIES
  CallsComplete
