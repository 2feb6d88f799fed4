SPECIFICATION Spec
CONSTANTS
  Streams <- MCStreams
  MaxSize = 10
  MaxHeader = 2
INVARIANTS TypeOK InOrder Prompt
CHECK_DEADLOCK FALSE
