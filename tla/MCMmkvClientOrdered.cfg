SPECIFICATION DisciplinedFairSpec
CONSTANTS
  Caller = {t1, t2}
  Call = {c1, c2, c3, c4}
  NoCall = NoCall
  MayClose = TRUE
INVARIANTS OwnResponse PendingEmptyOnMessage
PROPERTY CallsComplete
CHECK_DEADLOCK FALSE
