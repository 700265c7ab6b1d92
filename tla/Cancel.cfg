SPECIFICATION FairSpec
CONSTANTS
  s1 = s1
  c1 = c1
  NULL = NULL
  UNREADABLE = UNREADABLE
  Groups <- MCGroups
  Sessions <- MCSessions
  Callers = {"cancel", "close"}
  Perils = {}
  Faults = {"create", "write", "kill", "unknown", "damage"}
  MaxWakes = 3
  MaxCalls = 2
  MaxFaults = 1
INVARIANTS
  TypeOK
  Reachable
PROPERTIES
  StoppedKillsStrays
  CancelStops
CHECK_DEADLOCK FALSE
