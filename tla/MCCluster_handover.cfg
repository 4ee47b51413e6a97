SPECIFICATION CSpec
CONSTANTS
    SubnetIP = 12
    SubnetSize = 8
    NoIP = NoIP
    i1 = i1
    i2 = i2
    t1 = t1
    t2 = t2
    p1 = p1
    p2 = p2
    Id = {i1, i2}
    Thread = {t1, t2}
    Proc = {p1, p2}
    procOf <- TwoProcs
    Request = {13}
    Free = Free
    Nobody = Nobody
    MaxFaults = 1
    NoProc = NoProc
SYMMETRY Symmetry
VIEW ButCache
INVARIANTS OwnedUnlessDisturbed RefusedUnlessDisturbed
PROPERTIES HarmConfined SearchAdvances
