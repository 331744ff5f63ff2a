SPECIFICATION QueueFairSpec
CONSTANTS
    Builds = {"windows", "futex", "posix"}
    Capacity = 3
    PushSizes = {1, 3}
    PopSizes = {1, 2}
    MaxBytes = 4
INVARIANTS
    FifoDelivery
PROPERTIES
    QueuePushReturns
    QueuePopReturns
CHECK_DEADLOCK FALSE
