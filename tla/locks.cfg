SPECIFICATION FairSpec
CONSTANTS
    Names = {n1, n2}
    Trans = {t1, t2}
    Selectors = {s1, s2}
    Instant = {i1}
INVARIANTS
  ReleaseObjectSafe
  ReleasedTogether
  ChainsMatchScopes
PROPERTIES
  RequestsAnswered
