SPECIFICATION FairSpec
CONSTANTS
    p1 = p1
    p2 = p2
    p3 = p3
    a1 = a1
    a2 = a2
    n1 = n1
    n2 = n2
    NoPdu = NoPdu
    Pdus <- TwoPdus
    InitRoles = {"ESME"}
    PeerCommands = {"deliver_sm", "unbind"}
    LocalCommands = {}
    InitStates = {"BoundTRX"}
    PanickingEncoders = {"deliver_sm"}
    InboundSeqs <- OneNumber
    Callers <- TwoCallers
    TXQueueSize = 1
    TXBatchItems = 2
    MaxDeferredResponses = 1
CHECK_DEADLOCK FALSE
INVARIANTS NoExtraResponse DeferredAccounting
PROPERTIES RequestAnswered
