SPECIFICATION FairSpec
CONSTANTS
    Clients = {c1, c2}
    MaxTasks = 2
PROPERTY WorkerIsNotified
CHECK_DEADLOCK FALSE
