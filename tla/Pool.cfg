SPECIFICATION Spec
CONSTANTS
    r1 = r1
    r2 = r2
    u1 = u1
    m1 = m1
    NULL = NULL
    Runs = {r1, r2}
    Units = {u1}
    Probes = {}
    RunOf <- MCRunOf
    Budget = 1
    Disk = 1
    Perils = {}
    MaxSlots = 2
    MaxAttempts = 1
    MaxFaults = 1
    MaxPasses = 0
CHECK_DEADLOCK FALSE
INVARIANTS TypeOK OneUser AgentsKeepCheckout
