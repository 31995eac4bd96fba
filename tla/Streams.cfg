SPECIFICATION StreamsSpec
CONSTANTS
  MaxPackets = 3
  Lengths = {4, 6}
  AnyLengths = {6}
  MaxReturned = 3
  RecvMayFail = TRUE
  HeaderSplits = TRUE
  PeerCloses = TRUE
  FRAGMENT_COUNT = 3
  MaxRtpPackets = 4
  MaxFailures = 2
  Reorders = TRUE
  MaxFrames = 4
  Bits = 21
  Cuts = {1, 4, 8, 13, 18}
  Lossy = TRUE
  PopsAlways = TRUE
INVARIANTS
  PacketsAsSent
  SlotsAccounted
  HandedAsArrived
  FramesWhole
  BitsInPlace
  Recovers
PROPERTIES
  AllReturned
  KeepsReceiving
