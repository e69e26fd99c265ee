CONSTANTS
  Phone = {f}
  PairId = {p1, p2, p3}
  Slot = {s1, s2}
  None = None
  Ends = {"logout", "password"}
  LateArrivals = TRUE
  MaxPassword = 1
SPECIFICATION Spec
SYMMETRY Symmetry
INVARIANTS TypeOK OneLivePair ReplacedUnseen RefusedOnlyWhenOver
PROPERTIES NoRevival
