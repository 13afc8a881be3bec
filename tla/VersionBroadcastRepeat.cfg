SPECIFICATION Spec
CONSTANTS
  Key = {state}
  STATE_KEY = state
  Value = {v1, v2}
  Release = {v2}
  Absent = Absent
  IoErrors = FALSE
  Group = {g1, g2}
  MaxRestarts = 1
INVARIANT ToldOnce
CHECK_DEADLOCK FALSE
