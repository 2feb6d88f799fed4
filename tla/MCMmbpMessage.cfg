SPECIFICATION Spec
CONSTANTS
  a = a
  b = b
  Char = {a, b}
  W16 = 3
  W32 = 8
  Messages <- MCMessages
  MaxSent = 2
INVARIANTS InStep RoundTrip
CHECK_DEADLOCK FALSE
