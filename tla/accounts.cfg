CONSTANTS
  Person = {ann, ben}
  Journey = {1, 2, 3}
  Slot = {s1, s2}
  None = None
  Limit = 2
SPECIFICATION Spec
SYMMETRY Symmetry
INVARIANTS WithinLimit OnlyRowsFirstMeet
PROPERTIES NobodyStranded
CHECK_DEADLOCK FALSE
