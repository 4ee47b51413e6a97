SPECIFICATION LiveSpec
CONSTANTS
    b1 = b1
    b2 = b2
    a1 = a1
    a2 = a2
    Lb = {b1, b2}
    stem <- Hidden
    Ver = {1}
    Invalid = Invalid
    Addr = {a1, a2}
    Request = {}
    GivesPort = {FALSE}
    NoIP = NoIP
    Free = Free
    Absent = Absent
    MaxRuns = 1
    MaxChanges = 3
    MaxPeer = 0
    MaxFaults = 1
    MaxCrashes = 1
    MaxFailures = 1
CHECK_DEADLOCK FALSE
INVARIANT ServesOwned
PROPERTIES Converges NoLeak 
