SPECIFICATION ResolverSpec
CONSTANTS
  Runs = {r1, r2, r3}
  MaxBuilds = 3
  Clear = {1, 3}
  MaxLosses = 1
INVARIANTS
  ResolverTypeOK
  AnswerWasLive
  CacheNotStale
\* every run has ended
CHECK_DEADLOCK FALSE
