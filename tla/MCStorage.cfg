SPECIFICATION PartsSpec
CONSTANTS
  Key = {k1, k2}
  Value = {v1}
  Absent = Absent
  NoCall = NoCall
  IoErrors = TRUE
  Caller = {c1, c2}
  MaxOps = 3
  MaxCrashes = 1
  Account = {q1}
  Strong = {pa, pb}
  Weak = {px}
  Certificate = {w1, w2}
  Item = {1, 2, 3}
  SETUP_EXPIRE = 1
  GUARD_EXPIRE = 2
  LOCK = 1
  MAX_FAILS = 2
  MaxTime = 2
  MaxCalls = 3
  MaxRestarts = 1
SYMMETRY PartsSymmetry
INVARIANTS DiskIsReplay QuiescentCacheIsDisk WhatIsStoredHolds
PROPERTIES ImplementsStore ImplementsOneTimeLink
CHECK_DEADLOCK FALSE
