SPECIFICATION Spec
CONSTANTS
  N = 4
  Deps <- ShipDeps
  Kind <- ShipKind
  Goto <- ShipGoto
  MaxReroutes = 1
  SendsBack <- ShipBack
  OnInterrupt <- ThirdUncertain
  OnFailure = "pause"
  MaxParallel = 2
  Promotes = TRUE
  FailCauses = {"fixable", "reset"}
  Adverse = {"crash", "fail", "abort", "back", "cancel", "pause", "absent", "early"}
  MaxSetbacks = 4
  MaxWakes = 5
  Calls = {"cancel", "close", "resolve"}
  Callers = {c1}
  MaxCalls = 2
  Overlap = FALSE
  c1 = c1
INVARIANTS
  TypeOK
  LogNeverBroken
  WorkFollowsItsInputs
  CorrectedBeforeAgain
  DoneIsFresh
PROPERTIES
  UncertainStaysPut
  DecisionIsKept
  CapNeedsAPerson
CHECK_DEADLOCK FALSE
