CONSTANTS
    a = a
    b = b
    c = c
    n1 = n1
    None = None
    Face = {a, b, c}
    P2P = {a, b}
    AdHoc = {}
    Local = {b}
    Name = {"p", "q"}
    Extends <- MCExtends
    Localhost = {}
    Rank <- MCRank
    Nonce = {n1}
    ProbeNonce = {}
    Interest <- MCInterest
    Data <- MCData
    Millisecond = 1
    MaxLifetime = 2
    AgeBound = 0
    DnlLifetime = 1
    Reason = {150}
    NackPenalty = 1
SPECIFICATION QSpec
VIEW MCView
INVARIANTS OneUpstreamPending GreedyTakesFirst
PROPERTIES OneDataPerInterest
