CONSTANTS
  Clients = {c1, c2, c3}
  NoClient = NoClient
  Requests <- AllRequests
  Wills = {"none", "now", "delayed"}
  Discards = {FALSE, TRUE}
  Expires = TRUE
  Removes = TRUE
  MaxFinds = 2
  MaxCrashes = 1
  Mixes <- FourMixes
SYMMETRY ClientSymmetry
SPECIFICATION MixSpec
INVARIANTS
  ClientsSeparate
  DurableStateOwned
PROPERTIES
  EverythingSettled
CHECK_DEADLOCK FALSE
