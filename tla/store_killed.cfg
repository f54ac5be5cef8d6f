SPECIFICATION StoreSpec
CONSTANTS
  Runs = {r1, r2}
  NoRun = NoRun
  Legacy <- StrictFile
  Overlap = FALSE
  MaxKills = 1
INVARIANTS
  OldTableRebuilds
\* every run has ended
CHECK_DEADLOCK FALSE
