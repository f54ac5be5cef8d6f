SPECIFICATION WorkflowFairSpec
CONSTANTS
  MaxHour = 3
  MaxEdits = 2
  MaxRows = 3
  Retries = 2
INVARIANTS
  WorkflowTypeOK
  OneSampleAnHour
  SkippedHourIsSampled
  DashboardCurrent
PROPERTIES
  PushesKept
  DispatchRuns
