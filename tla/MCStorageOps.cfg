\* Two operations, two competing invocations: stale workers, takeovers, budget.
CONSTANTS
  Ops = {o1, o2}
  Workers = {w1, w2}
  NoWorker = NoWorker
  NoOp = NoOp
  MaxAttempts = 2
  LeaseTicks = 1
  MaxCancels = 1
SPECIFICATION FairSpec
INVARIANTS
  BudgetHolds
PROPERTIES
  ImplementsDurableWork
  LiveLeaseProtected
  EveryOperationSettles
CHECK_DEADLOCK FALSE
