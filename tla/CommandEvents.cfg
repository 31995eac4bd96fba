SPECIFICATION ThreadSpec
CONSTANTS
  Threads = {t1}
  NoThread = NoThread
  NumIds = 2
  EventIds = {0, 1}
  WaitMayFail = TRUE
  MaxCmds = 4
  MaxEvents = 2
INVARIANTS
  CleanReply
PROPERTY
  CommandReturns
