SPECIFICATION Spec
CONSTANTS
  Hosts = {h1}
  Guests = {g1}
  QueueSize = 2
  MaxFrames = 0
  NoHost = NoHost
  NoGuest = NoGuest
CHECK_DEADLOCK FALSE
INVARIANTS
  NoGuestInDeadRoom
