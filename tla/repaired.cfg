CONSTANTS
  Sub = {s}
  Worker = {w1}
  Reconciler = Reconciler
  None = None
  Offer = {"room"}
  MaxBusy = 2
  MaxTime = 2
  MaxEvents = 3
  MaxMishaps = 1
SPECIFICATION FairSpec
PROPERTIES RepairedInTheEnd
CHECK_DEADLOCK FALSE
