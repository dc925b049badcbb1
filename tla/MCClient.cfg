SPECIFICATION FairSpec
CONSTANTS
    b1 = b1
    b2 = b2
    w1 = w1
    None = None
    Binders <- TwoBinders
    Waiters <- OneWaiter
    MaxSessions = 3
    Policies <- MCPolicies
    Millisecond = 2
CHECK_DEADLOCK FALSE
INVARIANTS NoOrphan PublishedIsRebound ReconnectingIsHonest
PROPERTIES CloseCompletes WaiterReturns
