SPECIFICATION FairSpec
CONSTANTS
  Hosts = {h1, h2}
  Viewers = {v1}
  ViewerQueue = 1
  NoHost = NoHost
  Kill = Kill
CHECK_DEADLOCK FALSE
INVARIANTS
  TypeOK
  ServingHostIsFound
  ClosedHostHasNoViewers
  NeverClosedTwice
PROPERTIES
  TerminalStaysShut
  ViewerOfClosedHostReleased
  BrokenHostIsUnregistered
