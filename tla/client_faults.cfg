SPECIFICATION FairSpec
CONSTANTS
  MaxConns = 3
  MaxAsked = 0
  SeqMod = 2
  LoginName = TRUE
  ServerIdSet = FALSE
  Env <- AllFaults
INVARIANTS
  TypeOK
  ServerCanRead
  ClientCanRead
  OneConnection
  GracefulLogout
  NoSocketLeft
PROPERTIES
  SettledOnce
  KeepsPromise
  Terminates
\* fetch is over and the servers have nothing left to answer
CHECK_DEADLOCK FALSE
