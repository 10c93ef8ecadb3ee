SPECIFICATION JwksFairSpec
CONSTANTS
    g1 = g1
    g2 = g2
    k1 = k1
    k2 = k2
    Goroutine = {g1, g2}
    NoOne = NoOne
    Kid = {k1, k2}
    MaxEpoch = 2
    Published <- MCPublished
    JwksTTL = 2
    NoKid = NoKid
    NoSet = NoSet
    Failed = Failed
INVARIANTS JwksTypeOK WriterIsAlone FetchIsNeeded
PROPERTIES CacheMovesForward EveryCallReturns RotatedKeyIsPickedUp LookupFairness
