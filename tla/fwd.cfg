SPECIFICATION MixSpec
CONSTANTS
    MaxMsgs = 4
    MaxGtrid = 17
    CommitCount = 1
    MaxCreates = 1
    MaxXA = 2
    MinXA = 0
    RestartGap = 1
    MaxFaults = 2
INVARIANTS
  ExactlyOnce
  NothingStalls
PROPERTIES
  AllForwarded
CHECK_DEADLOCK FALSE
