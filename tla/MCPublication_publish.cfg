SPECIFICATION Spec
CONSTANTS
    TooLong = TooLong
    Rooted <- AbsolutePaths
    p1 = p1
    p2 = p2
    Proc = {p1, p2}
    Configs <- Texts
    Requests <- Writes
    Key = "lb"
    Highest = 511
    Absent = Absent
    MaxChanges = 2
    MaxFailures = 1
SYMMETRY Symmetry
CHECK_DEADLOCK FALSE
INVARIANTS TypeOK HostVIP PublishedIsValid ServersInGroup PutsBounded Agreement
