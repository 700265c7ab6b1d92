SPECIFICATION Spec
CONSTANTS
  s1 = s1
  c1 = c1
  NULL = NULL
  UNREADABLE = UNREADABLE
  Groups <- MCGroups
  Sessions <- MCSessions
  Callers = {"cancel", "close"}
  Perils = {}
  Faults = {}
  MaxWakes = 1
  MaxCalls = 1
  MaxFaults = 0
PROPERTIES
  FinishedIsImmutable
CHECK_DEADLOCK FALSE
