\* Two uploads of one content by one user, an import by another, a reconciling worker
\* beside the two verification tasks, two faults.
CONSTANTS
  Sessions = {s1, s2}
  Owner <- OneOwner
  Importers = {i1}
  Workers = {w1}
  MaxVersion = 12
  MaxFaults = 2
  Nobody = Nobody
SPECIFICATION FairSpec
INVARIANTS
  ReadyBytesExist
  ReferencesExact
  NoOrphanedCopy
PROPERTIES
  ContentSettles
CHECK_DEADLOCK FALSE
