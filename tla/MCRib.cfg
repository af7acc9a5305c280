CONSTANTS
    Name <- MCName
    PrefixOf <- MCPrefixOf
    Face = {1, 2}
    Offer <- MCOffer
    CounterSize = 8
    None = None
SPECIFICATION RibSpec
INVARIANTS ParentIsLongestPrefix NextHopsHaveRoutes
