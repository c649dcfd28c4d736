\* Two indexers of one object over two lives; two attempts at a thumbnail with a
\* cleaner and two collectors; two projectors, one of them with a backfill; three
\* steps of a workflow; three commands on three index generations; a request with one
\* change of the data during it; texts of five runes and tables of three rows; two
\* documents to parse with one slot.
CONSTANTS
  Projectors = {p1, p2}
  Snapshots = {p2}
  MaxVersions = 2
  MaxEvents = 5
  MaxFaults = 1
  Indexers = {i1, i2}
  DocumentVersions = 3
  DocumentLives = 2
  Attempts = {a1, a2}
  Cleaners = {c1}
  Collectors = {g1, g2}
  ThumbnailLives = 2
  ThumbnailFaults = 2
  Nobody = Nobody
  Steps = {s1, s2, s3}
  Commands = {k1, k2, k3}
  Operators = {o1, o2}
  Generation <- TwoNew
  Built = {3}
  Pages = 2
  MaxCommands = 3
  MaxChanges = 1
  Limit = 2
  RecallLimit = 3
  FusionLimit = 4
  CandidateLimit = 4
  TopK = 3
  PerFile = 2
  MaxMatches = 2
  MaxRunes = 5
  MaxRows = 3
  Requests = {r1, r2}
  ServerSlots = 1
  WorkerSlots = 1
  MaxTries = 2
SPECIFICATION SuiteSpec
INVARIANTS
  DocumentSound
  ThumbnailsHold
  CompensationSound
  IndexSound
  AnswerSound
  IngestSound
CHECK_DEADLOCK FALSE
