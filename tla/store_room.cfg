CONSTANTS
  Journey = {here, there}
  Slot = {s1, s2}
  NULL = NULL
  Length = 2
  GraceLength = 1
  MaxPeriod = 2
  MaxRefunds = 1
  MaxClock = 3
SPECIFICATION RoomSpec
SYMMETRY Symmetry
INVARIANTS RoomFollowsStore
PROPERTIES LeftWithGrace
CHECK_DEADLOCK FALSE
