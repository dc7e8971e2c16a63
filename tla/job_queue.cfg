\* The ring at its smallest interesting sizes: the positions wrap twice.
CONSTANTS
    Getters = {owner, scavenger}
    Scavenger = scavenger
    JobMax = 4
    MaxJobs = 9
    NoThread = NoThread
SPECIFICATION FairSpec
INVARIANTS
  RingSafe
PROPERTIES
  ImplementsFifo
  AcceptedJobsRun
CHECK_DEADLOCK FALSE
