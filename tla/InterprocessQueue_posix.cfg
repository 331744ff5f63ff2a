SPECIFICATION QueueFairSpec
CONSTANTS
    Builds = {"posix"}
    Capacity = 3
    PushSizes = {1, 3}
    PopSizes = {1, 2}
    MaxBytes = 4
PROPERTY PopReturns
CHECK_DEADLOCK FALSE
