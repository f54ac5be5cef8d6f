SPECIFICATION DataSpec
CONSTANTS
  ByteXor <- XorByte
  Key <- DefaultKey
  Salts <- FirstSalts
  KeySalts <- SomeKeySalts
  Digest <- SomeDigest
  NULL = NULL
  StepsPerDay = 2
  RecentDays = 1
  Probe <- ProbeName
  Worlds <- SomeWorlds
  ChunkSizes = {1, 5}
  Draws <- OneDraw
  Faults = {"signature", "zero", "short", "truncated", "trailing"}
  Legacy <- OldTables
  FirstStep = 2
  MaxStep = 5
  MaxRuns = 2
  MaxFaults = 1
INVARIANTS
  DataTypeOK
  FramesAsSent
  SampleCountsOthers
  DashboardShowsRows
PROPERTIES
  SettledDayKept
