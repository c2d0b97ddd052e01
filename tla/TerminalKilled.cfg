SPECIFICATION Spec
CONSTANTS
  Hosts = {h1}
  Viewers = {v1}
  ViewerQueue = 1
  NoHost = NoHost
  Kill = Kill
CHECK_DEADLOCK FALSE
INVARIANTS
  NoTerminalAfterKill
