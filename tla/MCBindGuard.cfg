SPECIFICATION Spec
CONSTANTS
    l1 = l1
    l2 = l2
    h1 = h1
    h2 = h2
    h3 = h3
    NoHost = NoHost
    Loops <- TwoLoops
    Hosts <- ThreeHosts
    MaxFailures = 2
    Window = 2
    Lockout = 2
    MaxTracked = 2
    MaxTime = 5
    MaxAttempts = 6
SYMMETRY Symmetry
CHECK_DEADLOCK FALSE
INVARIANTS OvershootBounded GuessBudget
