SPECIFICATION MCSpec
CONSTANTS
    Clients = {c1, c2}
    Caller = c1
    MaxTasks = 4
INVARIANTS
    NoTaskLost
    CompletionIsRecent
    ExceptionIsOfLastTask
    CompletionIsOwn
PROPERTIES
    DestructorReturns
    WaitCompletes
CHECK_DEADLOCK FALSE
