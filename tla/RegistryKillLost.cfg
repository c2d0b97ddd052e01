SPECIFICATION Spec
CONSTANTS
  Sessions = {s1}
  Healthy = {s1}
  MaxSessions = 0
  RemoteTTL = 3
  KeepEnded = 1
  KilledTTL = 4
  MaxKills = 1
  MaxFaults = 0
INVARIANTS
  KillSticks
