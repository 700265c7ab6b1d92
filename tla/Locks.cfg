SPECIFICATION Spec
CONSTANTS
    p1 = p1
    p2 = p2
    p3 = p3
    Pids <- MCPids
    NULL = NULL
    Kinds = {"none", "pool", "mutation"}
    Perils = {}
    MaxStart = 3
    MaxExits = 2
INVARIANTS TypeOK MutualExclusion
PROPERTIES HolderKeepsFile ImplementsLock
CHECK_DEADLOCK FALSE
