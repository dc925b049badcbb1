SPECIFICATION Spec
CONSTANTS
    r1 = r1
    r2 = r2
    None = None
    Requests <- TwoCalls
    InitRoles = {"ESME", "SMSC"}
    InitStates = {"Open", "BoundTRX"}
    Commands = {"bind_transceiver", "submit_sm", "unbind", "alert_notification", "outbind"}
    Cancellable <- TwoCalls
    WindowSize = 1
    MaxPending = 1
    TXQueueSize = 1
    TXBatchItems = 2
    MaxSequence = 2
SYMMETRY Symmetry2
CHECK_DEADLOCK FALSE
INVARIANTS ExactlyOnce WindowAccounting ReservationOwnership DeadlinesExact OneWayUnambiguous
PROPERTY NeverReopens
