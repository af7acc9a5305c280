CONSTANTS
    Id = {t1, t2, t3, x1}
    Context = {A, B}
    Node = A
    TimerId = {t1, t2, t3}
    NoTimer = NoTimer
    MaxDelay = 2
    MaxPending = 4
SPECIFICATION PitExpirySpec
INVARIANT EraseFindsEntry
