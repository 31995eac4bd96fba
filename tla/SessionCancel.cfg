SPECIFICATION FairSpec
CONSTANTS
  Programs = {"stream"}
  Sessions = 1
PROPERTY
  ProgramEnds
