\* One session, two workers, three faults of every kind.
CONSTANTS
  Sessions = {1}
  Workers = {w1, w2}
  Size <- UnitSize
  Name <- OneName
  Content <- OneContent
  Quota = 1
  MaxAttempts = 2
  MaxFaults = 3
  Nobody = Nobody
  NoOp = NoOp
SPECIFICATION FairSpec
INVARIANTS
  BytesPresent
  QuotaExact
PROPERTIES
  EndedStaysEnded
  SessionsSettle
CHECK_DEADLOCK FALSE
