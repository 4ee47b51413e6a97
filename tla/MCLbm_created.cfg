SPECIFICATION LiveSpec
CONSTANTS
    b1 = b1
    b2 = b2
    a1 = a1
    a2 = a2
    Lb = {b1}
    stem <- Plain
    Ver = {1}
    Invalid = Invalid
    Addr = {a1, a2}
    Request = {}
    GivesPort = {FALSE}
    NoIP = NoIP
    Free = Free
    Absent = Absent
    MaxRuns = 1
    MaxChanges = 1
    MaxPeer = 0
    MaxFaults = 0
    MaxCrashes = 0
    MaxFailures = 0
CHECK_DEADLOCK FALSE
PROPERTY CreatedIsServed
