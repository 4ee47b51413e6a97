SPECIFICATION Spec
CONSTANTS
    TooLong = TooLong
    Rooted <- AbsolutePaths
    w1 = w1
    w2 = w2
    Lb = {"a", "b"}
    Cluster = "c"
    Watcher = {w1, w2}
    Requests <- Mixed
    Absent = Absent
    Torn = Torn
    MaxChanges = 2
    MaxFaults = 1
    MaxCrashes = 1
SYMMETRY Symmetry
CHECK_DEADLOCK FALSE
INVARIANTS TypeOK RunsFiles FilesConverge
