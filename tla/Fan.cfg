SPECIFICATION FairSpec
CONSTANTS
  N = 4
  Deps <- FanDeps
  Kind <- FanKind
  Goto <- FanGoto
  MaxReroutes = 1
  SendsBack <- NoNode
  OnInterrupt <- Restart
  OnFailure = "continue"
  MaxParallel = 2
  Promotes = TRUE
  FailCauses = {"fixable", "frozen", "reset"}
  Adverse = {"crash", "fail", "cancel", "pause", "absent", "refused", "pending", "changes", "closed", "drift", "early", "offline"}
  MaxSetbacks = 2
  MaxWakes = 8
  Calls = {"answer"}
  Callers = {c1}
  MaxCalls = 1
  Overlap = FALSE
  c1 = c1
INVARIANTS
  EffortIsOwed
PROPERTIES
  ImplementsRun
  Completes
CHECK_DEADLOCK FALSE
