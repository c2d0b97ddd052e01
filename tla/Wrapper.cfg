SPECIFICATION FairSpec
CONSTANTS
  OverTmux = TRUE
  FeedQueue = 1
  SendQueue = 1
  MaxChunks = 3
  MaxConns = 2
  MaxAsks = 1
CHECK_DEADLOCK FALSE
INVARIANTS
  TypeOK
  NoLeftovers
PROPERTIES
  StreamsAsPromised
  StopReturns
  BrokenIsGivenUp
