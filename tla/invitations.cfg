CONSTANTS
  a = a
  c = c
  Person = {a, c}
  Founders = {a}
  Creator = a
  ProposalId = {q1, q2}
  InvitationId = {i1, i2}
  Slot = {s1, s2}
  None = None
  PlaceLevels = {2}
  MaxPlaces = 2
  ProposalDays = 2
  InvitationDays = 1
  MaxClock = 2
  MaxErased = 1
SPECIFICATION Spec
SYMMETRY Symmetry
CHECK_DEADLOCK FALSE
INVARIANTS TypeOK LiveIsAgreed OneEnding OneMailEach NothingLeftBehind HolderIsOwner
PROPERTIES SettledStays
