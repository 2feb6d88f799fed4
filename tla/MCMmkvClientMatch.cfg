SPECIFICATION Spec
CONSTANTS
  Caller = {t1}
  Call = {c1, c2}
  NoCall = NoCall
  MayClose = FALSE
INVARIANT OwnResponse
CHECK_DEADLOCK FALSE
