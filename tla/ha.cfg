SPECIFICATION FairSpec
CONSTANTS
    Hbto <- SameTimeouts
    HbPerTimeout = 4
    Faults = {"kill", "poweroff", "channel", "apply", "shutdown"}
    LinkFaults <- AnyLink
    MaxFaults = 1
INVARIANTS
  TypeOK
  OnePrimaryUnlessIsolated
PROPERTIES
  PairResolves
