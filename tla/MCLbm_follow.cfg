SPECIFICATION LiveSpec
CONSTANTS
    b1 = b1
    b2 = b2
    a1 = a1
    a2 = a2
    Lb = {b1, b2}
    stem <- Plain
    Ver = {1}
    Invalid = Invalid
    Addr = {a1, a2}
    Request = {a1}
    GivesPort = {TRUE, FALSE}
    NoIP = NoIP
    Free = Free
    Absent = Absent
    MaxRuns = 1
    MaxChanges = 2
    MaxPeer = 2
    MaxFaults = 1
    MaxCrashes = 0
    MaxFailures = 1
CHECK_DEADLOCK FALSE
INVARIANT FilesTracked
PROPERTY FollowerConverges
