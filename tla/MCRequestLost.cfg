SPECIFICATION FairSpec
CONSTANTS
    r1 = r1
    r2 = r2
    None = None
    Requests <- TwoCalls
    InitRoles = {"ESME"}
    Commands = {"submit_sm"}
    Cancellable <- OneCancels
    InitStates = {"BoundTRX"}
    WindowSize = 1
    MaxPending = 1
    TXQueueSize = 1
    TXBatchItems = 1
    MaxSequence = 2
CHECK_DEADLOCK FALSE
PROPERTY RegisteredCallReturns
