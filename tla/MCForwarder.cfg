CONSTANTS
    f1 = f1
    f2 = f2
    n1 = n1
    n2 = n2
    None = None
    Face = {f1, f2}
    P2P = {f1}
    AdHoc = {}
    Local = {f1}
    Name = {"q", "h"}
    Extends <- MCExtends
    Localhost = {"h"}
    Nonce = {n1, n2}
    ProbeNonce = {n2}
    Interest <- MCInterest
    Data <- MCData
    Millisecond = 1
    MaxLifetime = 2
    AgeBound = 0
    Reason = {150}
    DnlLifetime = 1
SPECIFICATION FairSpec
INVARIANTS NoDanglingRecords NoLeak DistinctInNonces
PROPERTIES PitDrains
