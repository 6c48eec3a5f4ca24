SPECIFICATION MCSpec
CONSTANTS
  c1 = c1
  c2 = c2
  c3 = c3
  Calls = {c1, c2, c3}
  Bridged <- MCBridged
  Suppressing <- MCSuppressing
  Retryable <- MCRetryable
  Permits = 1
  Deadline = 3
  Delay = 1
  MinRemaining = 1
  MaxAttempts = 2
  Null = Null
  None = None
  r1 = r1
  r2 = r2
  r0 = r0
  Requests = {r1, r2}
  Startup = r0
  Configurations <- MCConfigurations
  Worlds <- MCWorlds
  MaxClock = 3
INVARIANTS
  AdmissionInvariant
  ReportTellsOutcome
  WorkersAccounted
  CatalogueInvariant
PROPERTY
  EveryCallEnds
CHECK_DEADLOCK FALSE
