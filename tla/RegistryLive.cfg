SPECIFICATION SoloSpec
CONSTANTS
  Sessions = {s1, s2}
  Healthy = {s1}
  MaxSessions = 0
  RemoteTTL = 2
  KeepEnded = 0
  KilledTTL = 3
  MaxKills = 2
  MaxFaults = 2
PROPERTIES
  KilledWrapperStops
  EndedIsPruned
  RunningIsReannounced
