CONSTANTS
    N = 4
    Thread = {t1, t2}
    Suite = {1, 3, 4}
    Skip = {3}
    None = None
SPECIFICATION FairSpec
INVARIANTS SuccessIsEarned ResultsComplete
PROPERTIES RunnerEnds
CHECK_DEADLOCK FALSE
