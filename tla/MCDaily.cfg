SPECIFICATION PartsSpec
CONSTANTS
  Key = {state}
  STATE_KEY = state
  Value = {v1, v2}
  Release = {v1, v2}
  Absent = Absent
  IoErrors = TRUE
  Group = {g1, g2}
  MaxRestarts = 2
  User = {u1}
  Course = {ca}
  Cmd = {k1, k2}
  Link = {l1}
  MaxDay = 1
  MaxEdits = 3
  Fallback <- MCFallback
  Published <- MCPublished
  Weeks <- MCWeeks
  Day <- MCDay
  Tables <- MCTables
  Raw <- MCRaw
  Edit <- MCEdit
  DateStrings = {"d1", "d2", "d3"}
  Numbers = {"2025", "2026"}
  Files <- MCFiles
  Missing = Missing
  FALLBACK_START = 0
  OLDEST = 3
  NEWEST = 1
  WEEK_BITS = 2
  SESSION_GAP = 1
  WARM_RETRY = 1
  WARM_MAX_AGE = 2
  SIGNED_MARK_TTL = 3
  WARM_TIME = 1
  MaxUpsets = 1
  MaxTime = 4
INVARIANTS NewcomersAreSpared LeftOutOnlyByCrash TimetablesAreKept CalendarIsReadWhole
PROPERTIES RepeatNeedsLostMark TableCatchesUp
CHECK_DEADLOCK FALSE
