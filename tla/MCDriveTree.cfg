\* Three concurrent requests over three folders besides the root and one file.
CONSTANTS
  Folders = {Root, a, b, c}
  Files = {f}
  Names = {x, y}
  Root = Root
  Requests = {q1, q2, q3}
  TreeLock = TreeLock
  None = None
  MaxEpoch = 4
SYMMETRY Symmetric
SPECIFICATION Spec
INVARIANTS
  Tree
  NoLostEdit
  NoDeadlock
CHECK_DEADLOCK FALSE
