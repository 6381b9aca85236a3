CONSTANTS
  Users = {u1}
  Sessions = {s1, s2, s3}
  Amounts <- MCAmounts
  MaxRetries = 2
  RepeatableRead = TRUE
  MaxPosts = 3
  NoWallet = NoWallet
  NoSession = NoSession
  NoRequest = NoRequest
SPECIFICATION Spec
SYMMETRY Symmetric
INVARIANT TypeOK
INVARIANT NoOverdraft
INVARIANT JournalChained
INVARIANT WalletIsLastEntry
INVARIANT WaitsForWorker
