SPECIFICATION Spec
CONSTANTS
    n1 = n1
    n2 = n2
    n3 = n3
    Node = {n1, n2}
    NoNode = NoNode
    LeaseDuration = 3
    RenewDeadline = 2
    RetryPeriod = 1
    OpDelay = 1
    Second = 2
    MaxClock = 9
    MaxFaults = 1
    MaxCrashes = 1
SYMMETRY NodeSymmetry
INVARIANTS TypeOK LeaderOnRecord NoTakeover DeposedLeaderStops
PROPERTY ImplementsLeadership
