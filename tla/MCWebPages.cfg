CONSTANTS
  MaxTimers = 3
  MaxTyped = 2
  MaxKeys = 3
  ProductNames = {n1}
  Prices = {p1, p2}
  None = None
SPECIFICATION Spec
INVARIANT TypeOK
INVARIANT LoadingHasTimer
INVARIANT AcceptedOnce
PROPERTY EditsOneRow
PROPERTY OnlyOnward
PROPERTY LoadingEnds
