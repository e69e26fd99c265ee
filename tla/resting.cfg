CONSTANTS
  Person = {ann, ben, cat}
  Web = {web}
  Store = {app}
  None = None
  Included = 1
  Quantity = {1}
  Week = 1
  Period = 1
  Year = 4
  PerYear = 1
  Start = 2
  MaxTime = 5
  MaxPayments = 2
  MaxJoins = 3
SPECIFICATION Spec
SYMMETRY Symmetry
INVARIANTS GraceEnds
PROPERTIES OverStaysOver JoiningKeepsThePlaced
CHECK_DEADLOCK FALSE
