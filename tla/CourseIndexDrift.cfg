SPECIFICATION Spec
CONSTANTS
  User = {u1, u2}
  Course = {1}
  Task = {t1, t2}
  MaxOps = 4
SYMMETRY Symmetry
INVARIANT TablesAgree
CHECK_DEADLOCK FALSE
