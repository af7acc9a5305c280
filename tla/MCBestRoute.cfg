CONSTANTS
    a = a
    b = b
    c = c
    n1 = n1
    n2 = n2
    None = None
    Face = {a, b, c}
    P2P = {a, b}
    AdHoc = {}
    Local = {b}
    Name = {"q"}
    Extends <- MCExtends
    Localhost = {}
    Localhop = {"q"}
    Rank <- MCRank
    Nonce = {n1, n2}
    ProbeNonce = {}
    Interest <- MCInterest
    Data <- MCData
    Millisecond = 2
    MaxLifetime = 4
    AgeBound = 4
    DnlLifetime = 1
    Reason = {150}
    InitialInterval = 1
    Multiplier = 2
    MaxInterval = 2
SPECIFICATION BRSpec
VIEW MCView
INVARIANTS NeverBackToSender TimerCoversInRecords
PROPERTIES NackReturnsInterest ScopeRespected ImplementsForwarder
