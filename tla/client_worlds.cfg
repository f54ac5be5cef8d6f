SPECIFICATION CooperativeSpec
CONSTANTS
  MaxConns = 4
  MaxAsked = 2
  SeqMod = 2
  LoginName = FALSE
  ServerIdSet = TRUE
  Env <- SeveralWorlds
INVARIANTS
  AskedOnce
  LoginOnce
  BeatsAnswered
  SequenceInStep
PROPERTIES
  ListArrives
\* fetch is over and the servers have nothing left to answer
CHECK_DEADLOCK FALSE
