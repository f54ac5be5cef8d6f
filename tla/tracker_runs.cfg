SPECIFICATION TrackerFairSpec
CONSTANTS
  Runs = {r1, r2}
  NoRun = NoRun
  Legacy <- AnyFile
  Overlap = FALSE
  MaxKills = 2
INVARIANTS
  TrackerTypeOK
  ExitTellsRecorded
  RowTellsVerdict
  OfflineBeforeStore
  SchemaReady
PROPERTIES
  NamedFailureRecorded
  KeepsLedger
  UpgradeWorks
\* every run has ended
CHECK_DEADLOCK FALSE
