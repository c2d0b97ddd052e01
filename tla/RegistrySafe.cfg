SPECIFICATION Spec
CONSTANTS
  Sessions = {s1, s2}
  Healthy = {s2}
  MaxSessions = 1
  RemoteTTL = 2
  KeepEnded = 0
  KilledTTL = 2
  MaxKills = 1
  MaxFaults = 1
INVARIANTS
  TypeOK
  StopOnlyAfterKill
  HealthyStaysListed
PROPERTIES
  QuietStaysQuiet
  QuietWrapperNotForgotten
  EndedClockOnlyMovedByKill
