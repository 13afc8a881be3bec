SPECIFICATION Spec
CONSTANTS
  Caller = {c1}
  MaxCalls = 1
  MaxReplies = 1
PROPERTY UnmatchedIsOver
CHECK_DEADLOCK FALSE
