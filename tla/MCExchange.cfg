CONSTANTS
    HdrLen = 2
    Functions <- MCFunctions
    MAX_PARAM_COUNT = 3
    MaxCalls = 3
    MaxSize = 3
    BufferSize = 2
    MaxObjects = 3
    SIZE_MAX = 7
SPECIFICATION Spec
INVARIANTS ReturnedValueIsOwn ReturnedWasExecuted RejectedOnlyIf ObjectsArriveIntact
PROPERTIES CallReturns TransferCompletes
CHECK_DEADLOCK FALSE
