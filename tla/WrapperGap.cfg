SPECIFICATION Spec
CONSTANTS
  OverTmux = FALSE
  FeedQueue = 2
  SendQueue = 2
  MaxChunks = 3
  MaxConns = 2
  MaxAsks = 1
CHECK_DEADLOCK FALSE
INVARIANTS
  NoGapAfterSnapshot
