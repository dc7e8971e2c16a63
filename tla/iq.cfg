SPECIFICATION Spec
ACTION_CONSTRAINT MixStep
CONSTANTS
    MaxMsgs = 3
    Kinds <- AllKinds
    Limit = 2
    BatchShift = 0
    MaxId = 3
    MaxCrashes = 1
    MaxBreaks = 1
    MaxRefusals = 1
    MaxRejects = 1
INVARIANTS
  StoreAndIdsAgree
  CountsAndWaiterExact
PROPERTIES
  KeepsContractInOrder
CHECK_DEADLOCK FALSE
