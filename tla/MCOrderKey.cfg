CONSTANTS
  Sessions = {s1, s2, s3}
  Customers = {c1}
  Orders = {o1, o2, o3}
  Refunds = {}
  Recharges = {}
  Keys = {k1}
  Prices = {1, 2}
  RefundSums = {1, 2}
  StartBalance = 3
  MaxVersion = 0
  MaxRecharges = 1
  None = None
SPECIFICATION FaultFreeSpec
INVARIANT OneOrderPerKey
