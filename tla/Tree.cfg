SPECIFICATION Spec
CONSTANTS
  N = 5
  Deps <- MCDeps
  Judges = {2, 4}
  Rewriters = {2, 4}
  Own = {3}
  Goto <- MCGoto
  MaxParallel = 3
  Perils = {}
  MaxChanges = 1
  MaxSetbacks = 2
  MaxParks = 1
CHECK_DEADLOCK FALSE
INVARIANTS TypeOK PassHolds NeverSentRound
