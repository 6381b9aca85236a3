CONSTANTS
  Tabs = {t1, t2}
  MaxMoves = 6
  MaxFailures = 1
  None = None
SPECIFICATION Spec
INVARIANT TypeOK
INVARIANT StrandedForAReason
PROPERTY EnteredWithToken
PROPERTY EndsAtLogin
CHECK_DEADLOCK FALSE
