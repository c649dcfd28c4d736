\* Two registrations and two requests over three tokens; one share with two
\* requests of a visitor; any four of eleven transactions.
CONSTANTS
  Accounts = {"ann", "bob"}
  Name <- SwappedName
  Email <- SwappedEmail
  Requests = {r1, r2}
  MaxTokens = 3
  NoToken = NoToken
  VisitorRequests = {v1, v2}
  Keys = {k1, k2}
  Expiries = {1, 3}
  TTL = 1
  Second = 2
  MaxTime = 2
  MaxEdits = 2
  None = None
  MaxConcurrent = 4
  Transactions <- AllTransactions
SPECIFICATION SuiteSpec
INVARIANTS
  SessionsSound
  SharesHonoured
  OrderedLocks
CHECK_DEADLOCK FALSE
