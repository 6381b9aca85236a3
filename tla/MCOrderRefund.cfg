CONSTANTS
  Sessions = {s1, s2}
  Customers = {c1}
  Orders = {o1}
  Refunds = {r1, r2}
  Recharges = {}
  Keys = {}
  Prices = {2}
  RefundSums = {0, 1, 3}
  StartBalance = 3
  MaxVersion = 4
  MaxRecharges = 1
  None = None
SPECIFICATION Spec
SYMMETRY Symmetric
INVARIANT TypeOK
INVARIANT CreditedOnce
INVARIANT CompletedIsCredited
INVARIANT RefundAmountAgrees
INVARIANT AuditChained
PROPERTY StatusMoves
