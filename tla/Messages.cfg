SPECIFICATION Spec
CONSTANTS
  Tags = {0, 255, 2320, 65535}
  DataTypes = {0, 12}
  Rws = {0, 1}
  RequestIds = {0, 2, 255}
  ClientIds = {0, 4097}
  SessionWords = {0, 43981}
  Descriptors = {0, 1, 511}
  PayloadLengths = {0, 1, 236, 260, 5000}
  Lines = {1, 2}
  Values = {0, 3, 127, 300, 50331648}
  MaxCalls = 3
  Basic <- SomeBasic
  Extended <- SomeExtended
  Presets = 2
  MaxFailures = 2
  MaxOthers = 1
  Resolutions = {"VGA", "CIF4"}
  Modes = {"MP_FIXED_1080P", "MP_SD"}
  Frequencies = {30000, 25000, 12500}
  Moves <- SomeMoves
  Address = 1
  Noise = {1, 64}
  MaxMoves = 2
  MaxDamage = 1
  Devices = {d1, d2}
  MaxSockets = 2
  MaxSearches = 3
  MaxDoubled = 1
  Units = {u1, u2}
  NetMasks <- SomeNetMasks
  MaxLookups = 2
  MaxRequests = 2
  SectionCounts = {0, 2}
  MaxSections = 3
  Rows = {0, 1, 3}
  Leftovers = {0, 1}
  HeaderLength = 2
  PictureLength = 5
  FirstMost = 4
  NextMost = 3
  MaxBroken = 1
INVARIANTS
  RoundTrip
  
  InventsNothing
  OthersSurvive
  AsWanted
  SizeOfStream
  OnlyAsked
  Heeded
  ListsAnswers
  OwnNetwork
  AnswersAsSent
  SnapshotTail
CHECK_DEADLOCK FALSE
