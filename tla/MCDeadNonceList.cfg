CONSTANTS
    Nonce = {n1, n2, n3, n4}
    MARK = MARK
    INITIAL_CAPACITY = 6
    MIN_CAPACITY = 5
    MAX_CAPACITY = 7
    EXPECTED_MARK_COUNT = 2
    EVICT_LIMIT = 2
SPECIFICATION FairSpec
INVARIANTS QueueBounded
PROPERTIES IdleShrinks ImplementsNonceSet
