\* Two callers and buckets of two ticks; two dispatcher replicas and destinations;
\* two registered instances; three queues; three resources in two classes.
CONSTANTS
  Callers = {c1, c2}
  Window = 6
  Buckets = 3
  MinRequests = 2
  RateNum = 1
  RateDen = 2
  OpenTimeout = 2
  HalfOpenProbes = 2
  MaxAttempts = 2
  MaxLog = 3
  Replicas = {r1, r2}
  Destinations = {x, y}
  BatchSize = 2
  MaxOutages = 2
  Free = Free
  Unknown = Unknown
  Instances = {i1, i2}
  MaxBreaks = 3
  Takers = {t1, t2}
  Prefetch = 3
  Classes = 2
  Retryable = {1}
  Limit = 1
  MaxRecoveryEvents = 1
  Reconcilers = {m1}
SPECIFICATION MCSpec
INVARIANTS
  BreakerSound
  LeaderHoldsKey
  WorkBounded
PROPERTIES
  Recovers
  PlatformSettles
CHECK_DEADLOCK FALSE
