SPECIFICATION SnapshotSpec
CONSTANTS
  HeaderLength = 2
  PictureLength = 5
  FirstMost = 4
  NextMost = 3
  MaxBroken = 1
INVARIANT SnapshotIsPicture
CHECK_DEADLOCK FALSE
