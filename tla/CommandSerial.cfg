SPECIFICATION FairSpec
CONSTANTS
  Threads = {t1}
  NoThread = NoThread
  NumIds = 3
  EventIds = {}
  WaitMayFail = FALSE
  MaxCmds = 7
  MaxEvents = 0
INVARIANT ReplyMatches
PROPERTY
  ImplementsService
