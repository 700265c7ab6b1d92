CONSTANTS
    NTasks = 3
    Deps <- MCDeps
    Meets <- MCMeets
    Concurrency = 2
    MaxIterations = 2
    MaxPerRun = 1
    Faults <- FaultKinds
    MaxFaults = 2
SPECIFICATION Spec
CHECK_DEADLOCK FALSE
PROPERTY DepartureWasAsked
