CONSTANTS
  Sessions = {s1, s2}
  Customers = {c1}
  Orders = {o1, o2}
  Refunds = {}
  Recharges = {r1, r2}
  Keys = {k1}
  Prices = {1, 2}
  RefundSums = {}
  StartBalance = 2
  MaxVersion = 0
  MaxRecharges = 0
  None = None
  Reviewers = {a1, a2}
  RechargeKeys = {n0, i1}
  NoKey = n0
  Amounts = {0, 1}
SPECIFICATION RSpec
SYMMETRY Symmetric
INVARIANT PaidOnce
INVARIANT RechargedOnce
