SPECIFICATION Spec
CONSTANTS
    Threads = {t1, t2}
    Consumers = {c1, c2}
    MaxMsgs = 3
    BatchSize = 2
    DeliveryLimit = 2
    Returns = TRUE
SYMMETRY Symmetry
INVARIANTS
  OnceWhenCommitted
  NothingOutOfReach
PROPERTIES
  GotInOrder
