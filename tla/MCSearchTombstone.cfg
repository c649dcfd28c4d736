\* A create and a delete, while a second generation is built from a snapshot.
CONSTANTS
  Workers = {w1, w2}
  Targets = {1, 2}
  MaxWrites = 2
  MaxACL = 1
  MaxFaults = 0
  None = None
SYMMETRY Symmetric
SPECIFICATION Spec
INVARIANTS
  SnapshotKeepsDeletion
CHECK_DEADLOCK FALSE
