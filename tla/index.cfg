\* The bridge and two writers of the appview file four issues in two repos; then all
\* issues are filed and nothing is left to do.
CONSTANTS
  Bridge = bridge
  Appview = {a1, a2}
  Repos = {r1, r2}
  Issues = {j1, j2, j3, j4}
  None = None
SPECIFICATION FairSpec
INVARIANTS
  TypeOK
  NoCollision
PROPERTIES
  NumbersInOrder
  LockReleased
CHECK_DEADLOCK FALSE
