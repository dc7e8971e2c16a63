SPECIFICATION Spec
CONSTANTS
  t1 = t1
  t2 = t2
  c1 = c1
  c2 = c2
  m1 = m1
  m2 = m2
  m3 = m3
  m4 = m4
  m5 = m5
  Threads = {t1, t2}
  Consumers = {c1, c2}
  Msgs = {m1, m2, m3, m4, m5}
  Expiring = {m1, m5}
  MaxMsgCount = 1
  MaxMsgBehavior = "DiscardOldMessages"
  ExplicitSuspends = FALSE
  CallbackOps = {"put", "start", "stop", "resume", "destroy"}
  Budget <- MixBudget
  SlowPut = FALSE
  RacingDestroy = FALSE
  NoThread = NoThread
  NoConsumer = NoConsumer
  NoMsg = NoMsg
  NoCb = NoCb
SYMMETRY Symmetry
ACTION_CONSTRAINT MixStep
INVARIANTS
  TypeOK
  OwnerStatus
  ReferencesBalance
  NothingDangling
  NothingUndone
PROPERTIES
  ImplementsContract
  DestroyedNotEnabled
