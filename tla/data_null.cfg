SPECIFICATION DataSpec
CONSTANTS
  ByteXor <- XorByte
  Key <- DefaultKey
  Salts <- FirstSalts
  KeySalts <- SomeKeySalts
  Digest <- SomeDigest
  NULL = NULL
  StepsPerDay = 2
  RecentDays = 1
  Probe <- ProbeName
  Worlds <- SomeWorlds
  ChunkSizes = {}
  Draws <- OneDraw
  Faults = {}
  Legacy <- OldTables
  FirstStep = 2
  MaxStep = 5
  MaxRuns = 2
  MaxFaults = 0
INVARIANTS
  NullOnlyIfAllFailed
