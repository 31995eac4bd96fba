SPECIFICATION Spec
CONSTANTS
  Threads = {t1}
  NoThread = NoThread
  NumIds = 3
  EventIds = {}
  WaitMayFail = TRUE
  MaxCmds = 4
  MaxEvents = 0
INVARIANT ReplyMatches
