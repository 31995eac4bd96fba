SPECIFICATION FairSpec
CONSTANTS
  MaxNals = 4
  Parts = 3
  Kinds = {"nal", "fu", "stap"}
  Aggregated = {1, 2, 3}
  MaxFaults = 2
  MaxInFlight = 3
  prepend_mpeg4_starter = TRUE
INVARIANTS
  FramesAreUnits
  FramesKeepOrder
  Recovers
PROPERTY
  AllFramesOut
