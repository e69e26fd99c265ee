CONSTANTS
  Account = {ann, ben}
  Key = {k1}
  None = None
  MaxReturns = 0
  MaxMishaps = 0
SPECIFICATION Spec
INVARIANTS SentByItsHolder
