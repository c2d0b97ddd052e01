SPECIFICATION LoadSpec
CONSTANTS
  Hosts = {h1, h2}
  Guests = {g1, g2}
  QueueSize = 1
  MaxFrames = 2
  MaxConns = 3
  NoHost = NoHost
  NoGuest = NoGuest
CHECK_DEADLOCK FALSE
INVARIANTS
  TypeOK
  RoomIsItsHost
  MembersCanBeSent
  GenerationsIsolated
  RosterAgrees
  CleanupClosesMembers
PROPERTIES
  GoneHostFreesRoom
