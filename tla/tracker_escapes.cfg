SPECIFICATION TrackerSpec
CONSTANTS
  Runs = {r1}
  NoRun = NoRun
  Legacy <- NoFile
  Overlap = FALSE
  MaxKills = 0
INVARIANTS
  EveryRunRecords
\* every run has ended
CHECK_DEADLOCK FALSE
