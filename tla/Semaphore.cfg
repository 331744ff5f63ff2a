CONSTANTS
    Procs = {p1, p2, p3}
    MaxConcurrency = 2
    MaxGen = 2
    MaxDepth = 2
SPECIFICATION FairSpec
INVARIANTS Conservation ConcurrencyBound
PROPERTY PermitComesBack
CHECK_DEADLOCK FALSE
