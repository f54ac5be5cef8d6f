SPECIFICATION StoreSpec
CONSTANTS
  Runs = {r1, r2, r3}
  NoRun = NoRun
  Legacy <- AnyFile
  Overlap = TRUE
  MaxKills = 1
INVARIANTS
  StoreTypeOK
  RecordedOnce
PROPERTIES
  TotalsKept
  ActiveKept
\* every run has ended
CHECK_DEADLOCK FALSE
