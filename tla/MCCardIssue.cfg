CONSTANTS
  Sessions = {s1, s2}
  Orders = {o1, o2}
  Keys = {k1}
  Quantities = {1, 2}
  Batches = {b1}
  BatchSize = 2
  MinFetch = 1
  MaxCards = 4
  MaxEdits = 1
  MaxCalls = 3
  MaxFaults = 1
  None = None
SPECIFICATION Spec
SYMMETRY Symmetric
INVARIANT TypeOK
INVARIANT HandedOnce
INVARIANT PaidInCards
INVARIANT StockIsBacked
CHECK_DEADLOCK FALSE
