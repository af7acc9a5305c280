CONSTANTS
    Name <- MCName
    PrefixOf <- MCPrefixOf
    Face = {1, 2}
    Offer <- MCOffer
    CounterSize = 8
    None = None
    MAX_NUM_TIMEOUTS = 1
    Mortal = {1}
    MaxRequests = 4
    MaxQueue = 2
SPECIFICATION FuFairSpec
INVARIANTS BatchEndsInOrder FibSoundBetweenBatches
PROPERTIES QueueDrains DeadFacesLeaveRib
CHECK_DEADLOCK FALSE
