CONSTANTS
  Sessions = {s1, s2}
  Orders = {o1, o2}
  Keys = {}
  Quantities = {1, 2}
  Batches = {b1}
  BatchSize = 4
  MinFetch = 1
  MaxCards = 4
  MaxEdits = 0
  MaxCalls = 2
  MaxFaults = 0
  None = None
SPECIFICATION Spec
PROPERTY ShortageIsReal
CHECK_DEADLOCK FALSE
