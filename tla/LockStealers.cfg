SPECIFICATION Spec
CONSTANTS
    p1 = p1
    p2 = p2
    p3 = p3
    Pids <- MCPids
    NULL = NULL
    Kinds = {"mutation"}
    Perils = {"stale"}
    MaxStart = 4
    MaxExits = 2
INVARIANT MutualExclusion
CHECK_DEADLOCK FALSE
