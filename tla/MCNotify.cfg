CONSTANTS
  Callbacks = {c1, c2}
  Sessions = {s1, s2}
  MaxRetry = 2
  MaxSweeps = 1
  MaxFailures = 1
  None = None
SPECIFICATION FairSpec
INVARIANT TypeOK
INVARIANT SuccessIsHeard
INVARIANT PostsBudgeted
PROPERTY SuccessKept
PROPERTY FirstPost
CHECK_DEADLOCK FALSE
