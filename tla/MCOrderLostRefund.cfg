CONSTANTS
  Sessions = {s1, s2}
  Customers = {c1}
  Orders = {o1}
  Refunds = {}
  Recharges = {}
  Keys = {}
  Prices = {2}
  RefundSums = {0, 1, 3}
  StartBalance = 3
  MaxVersion = 4
  MaxRecharges = 1
  None = None
SPECIFICATION FaultFreeSpec
INVARIANT RefundedIsCredited
