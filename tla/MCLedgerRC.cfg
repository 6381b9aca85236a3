CONSTANTS
  Users = {u1}
  Sessions = {s1, s2}
  Amounts <- MCAmounts
  MaxRetries = 2
  RepeatableRead = FALSE
  MaxPosts = 3
  NoWallet = NoWallet
  NoSession = NoSession
  NoRequest = NoRequest
SPECIFICATION FairSpec
PROPERTY ImplementsAccount
PROPERTY CallsReturn
