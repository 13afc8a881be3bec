SPECIFICATION FairSpec
CONSTANTS
  Key = {k1}
  Value = {v1}
  Absent = Absent
  NoCall = NoCall
  IoErrors = TRUE
  Caller = {c1, c2}
  MaxOps = 3
  MaxCrashes = 1
PROPERTY EventuallySettled
CHECK_DEADLOCK FALSE
