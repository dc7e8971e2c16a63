CONSTANTS
  Clients = {c1, c2, c3}
  NoClient = NoClient
  Requests <- ResumingRequests
  Wills = {"none"}
  Discards = {FALSE}
  Expires = FALSE
  Removes = FALSE
  MaxFinds = 1
  MaxCrashes = 0
  Mixes <- ResumedAndFound
SYMMETRY ClientSymmetry
SPECIFICATION MixSpec
INVARIANTS ReleasedOnce
CHECK_DEADLOCK FALSE
