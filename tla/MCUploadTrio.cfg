\* Three sessions that compete for a name, for content and for quota.
CONSTANTS
  Sessions = {1, 2, 3}
  Workers = {w1}
  Size <- TrioSize
  Name <- TrioName
  Content <- TrioContent
  Quota = 3
  MaxAttempts = 1
  MaxFaults = 0
  Nobody = Nobody
  NoOp = NoOp
SPECIFICATION Spec
INVARIANTS
  QuotaHolds
  OneFilePerNameAndContent
CHECK_DEADLOCK FALSE
