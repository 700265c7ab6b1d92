SPECIFICATION Spec
CONSTANTS
    r1 = r1
    r2 = r2
    u1 = u1
    m1 = m1
    NULL = NULL
    Runs = {r1}
    Units = {u1}
    Probes = {m1}
    RunOf <- MCRunOf
    Budget = 1
    Disk = 1
    Perils = {}
    MaxSlots = 2
    MaxAttempts = 2
    MaxFaults = 1
    MaxPasses = 1
CHECK_DEADLOCK FALSE
INVARIANTS OneUser WorkKept
PROPERTIES DirtyKept
