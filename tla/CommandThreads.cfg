SPECIFICATION Spec
CONSTANTS
  Threads = {t1, t2}
  NoThread = NoThread
  NumIds = 2
  EventIds = {}
  WaitMayFail = TRUE
  MaxCmds = 2
  MaxEvents = 0
SYMMETRY ThreadSymmetry
INVARIANTS
  TypeOK
  OneSender
  TokenBalance
  CleanReply
