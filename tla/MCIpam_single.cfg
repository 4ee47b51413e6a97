SPECIFICATION Spec
CONSTANTS
    SubnetIP = 11
    SubnetSize = 8
    NoIP = NoIP
    i1 = i1
    i2 = i2
    i3 = i3
    i4 = i4
    t1 = t1
    t2 = t2
    p1 = p1
    Id = {i1, i2, i3, i4}
    Thread = {t1, t2}
    Proc = {p1}
    procOf <- OneProc
    Request = {12, 13, 15}
    Free = Free
    Nobody = Nobody
    MaxFaults = 2
SYMMETRY IdSymmetry
INVARIANTS TypeOK OwnedOnReturn RefusalsTrue AtMostOneAddress CacheComplete
PROPERTIES RefinesAddressPool FreesOwnAddress
