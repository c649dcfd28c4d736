\* Two dispatchers and two consumers whose leases may run out under them.
CONSTANTS
  Dispatchers = {d1, d2}
  Consumers = {c1, c2}
  MaxRetry = 1
  MaxFaults = 2
  MaxCopies = 2
  Nobody = Nobody
SPECIFICATION FairSpec
INVARIANTS
  OneExecutor
  ReceiptsTellTheTruth
PROPERTIES
  RecordsKept
  TaskSettles
CHECK_DEADLOCK FALSE
