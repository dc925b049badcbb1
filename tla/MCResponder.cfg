SPECIFICATION Spec
CONSTANTS
    p1 = p1
    p2 = p2
    p3 = p3
    a1 = a1
    a2 = a2
    n1 = n1
    n2 = n2
    NoPdu = NoPdu
    Pdus <- ThreePdus
    InitRoles = {"ESME", "SMSC"}
    PeerCommands = {"bind_transceiver", "deliver_sm", "unbind", "alert_notification"}
    LocalCommands = {"unbind", "outbind"}
    InitStates = {"Open", "BoundTRX"}
    PanickingEncoders = {"bind_transceiver"}
    InboundSeqs <- OneNumber
    Callers = {}
    TXQueueSize = 1
    TXBatchItems = 2
    MaxDeferredResponses = 1
SYMMETRY Symmetry
CHECK_DEADLOCK FALSE
INVARIANTS AcceptedBindIsBound BindReservationHeld UnboundInProgress UnbindIsLast
