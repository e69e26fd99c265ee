CONSTANTS
  Account = {ann}
  Key = {k1, k2}
  None = None
  MaxReturns = 1
  MaxMishaps = 1
SPECIFICATION FairSpec
INVARIANTS TypeOK HeldOncePerStay SentInOrder
PROPERTIES NotLeftBehind KeptUntilHeld WaitingIsSent
