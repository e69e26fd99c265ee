CONSTANTS
  a = a
  c = c
  d = d
  Person = {a, c, d}
  Founders = {a}
  Creator = a
  ProposalId = {q1, q2}
  InvitationId = {i1, i2}
  Slot = {s1, s2}
  None = None
  PlaceLevels = {1, 2}
  MaxPlaces = 2
  ProposalDays = 1
  InvitationDays = 1
  MaxClock = 1
  MaxErased = 0
SPECIFICATION Spec
SYMMETRY Symmetry
INVARIANTS WithinPlaces
PROPERTIES PlaceGivenOnlyWhenFree EveryoneAsked
