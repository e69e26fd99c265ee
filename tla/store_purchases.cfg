CONSTANTS
  Purchase = {p}
  Phone = {f1, f2}
  Moment = {m1}
  None = None
  Window = 1
  Retention = 1
  MaxTime = 1
SPECIFICATION FairSpec
INVARIANTS PaidIsGranted
PROPERTIES AcknowledgedInTheEnd WithdrawnInTheEnd
CHECK_DEADLOCK FALSE
