SPECIFICATION PartsSpec
CONSTANTS
  Caller = {c1, c2}
  MaxCalls = 3
  MaxReplies = 2
  Event = {e1}
  Kinds <- MCKinds
INVARIANTS TypeOK AnswerIsMine WaitingIsReachable RegistryOwned AnsweredInTime OneCommandOneAnswer
PROPERTIES EveryCallEnds 
CHECK_DEADLOCK FALSE
