\* Two events of one file, handled by two workers that may hold the same one,
\* while a second generation is built and activated.
CONSTANTS
  Workers = {w1, w2}
  Targets = {1, 2}
  MaxWrites = 2
  MaxACL = 2
  MaxFaults = 1
  None = None
SYMMETRY Symmetric
SPECIFICATION Spec
INVARIANTS
  CaughtUp
PROPERTIES
  NeverRevived
  ActivatesCaughtUp
CHECK_DEADLOCK FALSE
