SPECIFICATION FairSpec
CONSTANTS
    c1 = c1
    c2 = c2
    c3 = c3
    c4 = c4
    h1 = h1
    h2 = h2
    NoConn = NoConn
    Conns <- FourConns
    Hosts <- TwoHosts
    Host <- FourConnHost
    Exempt = {}
    MaxSessions = 2
    MaxUnboundPerIP = 1
    Outbinds = TRUE
CHECK_DEADLOCK FALSE
INVARIANTS SessionLimit UnboundLimit LiveIsOwned
PROPERTIES CloseCompletes
