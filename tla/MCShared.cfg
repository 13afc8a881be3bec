SPECIFICATION PartsSpec
CONSTANTS
  User = {u1, u2}
  Course = {1, 2}
  Task = {t1, t2}
  MaxOps = 4
  Doc = {d1}
  Req = {r1}
  Absent = Absent
  Sizes = {3}
  OPTIMAL_CHUNKS = 2
  TRIES = 2
  EXPIRE = 1
  CLEAN = 1
  MaxFaults = 1
  FileTime = 2
  MAX_REDIRECTS = 1
  MaxCookies = 1
  FLOW_EXPIRE = 1
  MaxTokens = 3
  VpnTime = 1
  MaxLogins = 2
  MaxBegun = 3
  Places = 2
  Radii = {2, 4}
  PROBES = 2
  MAX_RETRY = 2
  MAX_TRIES = 2
  MAX_ATTEMPTS = 2
  MaxTickets = 2
  MaxElsewhere = 2
  RESULT_POLL_TRIES = 1
  MaxResults = 2
  Numbers = {1, 2}
  Letters = {1, 2}
  MaxRows = 2
  MAX_ASKS = 2
  FILES = 2
  MaxCrashes = 1
  KEEP = 1
  PageTime = 3
SYMMETRY Symmetry
INVARIANTS TypeOK DriftIsTorn NoEmptyRow FilesAreKept CookiesReachTheNextRequest SessionsAreWhatTheySay AnswersAreHonest
CHECK_DEADLOCK FALSE
