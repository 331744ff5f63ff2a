SPECIFICATION RoleSpec
CONSTANTS
    SIG_COUNT = 2
    Waiters = {w1, w2}
    Signallers = {s1}
    Threads = {w1, w2, s1}
    NoThread = NoThread
INVARIANTS
    NoLostWakeup
    LowestFirst
    GroupInv
PROPERTY SignalsAreDelivered
