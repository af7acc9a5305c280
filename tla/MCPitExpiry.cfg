CONSTANTS
    Id = {t1, t2, x1, x2}
    Context = {A, B}
    Node = A
    TimerId = {t1, t2}
    NoTimer = NoTimer
    MaxDelay = 2
    MaxPending = 3
SPECIFICATION PitExpiryFairSpec
INVARIANTS HeadIsArmed OnePlace LiveHasTimer ExactUnlessRaced
PROPERTIES AllExecuted
