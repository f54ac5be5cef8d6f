SPECIFICATION Spec
CONSTANTS
  MaxConns = 3
  MaxAsked = 0
  SeqMod = 2
  LoginName = TRUE
  ServerIdSet = FALSE
  Env <- TimerOnly
INVARIANTS
  LogoutOnlyFromWorld
\* fetch is over and the servers have nothing left to answer
CHECK_DEADLOCK FALSE
