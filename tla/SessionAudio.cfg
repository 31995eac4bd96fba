SPECIFICATION Spec
CONSTANTS
  Programs = {"audio"}
  Sessions = 1
INVARIANT
  OneSender
