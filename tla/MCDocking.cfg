CONSTANTS
  Orders = {o1}
  Sessions = {s1, s2}
  MaxRetry = 2
  Attempts = 2
  MaxManual = 1
  MaxCrashes = 1
  MaxFaults = 1
  None = None
SPECIFICATION FairSpec
INVARIANT TypeOK
INVARIANT OneSubmitter
INVARIANT AcceptedOnce
INVARIANT PendingHasRetries
INVARIANT LockedForAReason
PROPERTY FirstRound
