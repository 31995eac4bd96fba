SPECIFICATION Spec
CONSTANTS
  MaxNals = 3
  Parts = 2
  Kinds = {"nal", "fu", "stap"}
  Aggregated = {2}
  MaxFaults = 0
  MaxInFlight = 2
  prepend_mpeg4_starter = TRUE
INVARIANT
  OnlyUnitsInFrames
