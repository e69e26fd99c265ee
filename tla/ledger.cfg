CONSTANTS
  Settings = {journey}
  Entry = {expense}
  Milestone = {milestone}
  Note = {note}
  Slot = {s1, s2, s3}
  None = None
  MaxEvents = 4
SPECIFICATION Spec
SYMMETRY Symmetry
INVARIANTS TypeOK ChainUnbroken
PROPERTIES TellsEverything
CHECK_DEADLOCK FALSE
