CONSTANTS
  Sub = {s}
  Worker = {w1, w2}
  Reconciler = Reconciler
  None = None
  Offer = {"room", "place", "image"}
  MaxBusy = 2
  MaxTime = 3
  MaxEvents = 3
  MaxMishaps = 0
SPECIFICATION Spec
SYMMETRY Symmetry
INVARIANTS TypeOK AgreesWhenQuiet ProcessedIsApplied
PROPERTIES GraceHoldsStill
CHECK_DEADLOCK FALSE
