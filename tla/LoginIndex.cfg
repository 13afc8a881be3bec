SPECIFICATION FairSpec
CONSTANTS
  User = {u1, u2}
  Expired = {u2}
  Job = {j1, j2}
  MaxOps = 3
INVARIANTS TypeOK IndexFollowsLogins
PROPERTY EventuallyReconciled
CHECK_DEADLOCK FALSE
