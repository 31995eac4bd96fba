SPECIFICATION ClientSpec
CONSTANTS
  Programs = {"stream", "audio", "series"}
  Sessions = 3
  AlarmTags = {a1, a2}
  MaxStarts = 2
  MaxRegistrations = 2
  Places = {c1, c2}
  Guarded = {c2}
  Identifiers = {1, 2}
  MaxVisits = 2
  MaxGuests = 1
INVARIANTS
  SendersApart
  OwnConnection
  OneStrayToken
  RightHandler
  LeavesNothing
  OthersStay
PROPERTIES
  UncancelledEnd
  EventsHandled
