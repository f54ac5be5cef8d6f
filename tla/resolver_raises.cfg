SPECIFICATION ResolverSpec
CONSTANTS
  Runs = {r1}
  MaxBuilds = 1
  Clear = {1}
  MaxLosses = 0
INVARIANTS
  EveryFailureAnswers
\* every run has ended
CHECK_DEADLOCK FALSE
