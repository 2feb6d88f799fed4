SPECIFICATION Spec
CONSTANTS
  Caller = {t1, t2, t3}
  Call = {c1, c2, c3, c4}
  NoCall = NoCall
  MayClose = TRUE
SYMMETRY Symmetry
INVARIANTS TypeOK CallbackForEveryRequest
PROPERTY CompletedOnce
CHECK_DEADLOCK FALSE
