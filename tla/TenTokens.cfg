\* Two tokens of an account are created at the same time.
CONSTANTS
  UserNames = {root, u1}
  Admin = root
  Roles = {"admin", "user"}
  Calls = {q1, q2}
  MaxActive = 1
  MaxEpoch = 1
  TokenIds = {k1, k2}
  MaxSessions = 1
  MaxGrants = 2
  NoAccount = NoAccount
  NoRow = NoRow
  NoAttr = NoAttr
SPECIFICATION AccountsSpec
INVARIANTS TenTokens
CHECK_DEADLOCK FALSE
