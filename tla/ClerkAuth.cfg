SPECIFICATION AuthFairSpec
CONSTANTS
    g1 = g1
    g2 = g2
    k1 = k1
    c1 = c1
    s1 = s1
    Goroutine = {g1, g2}
    NoOne = NoOne
    Kid = {k1}
    MaxEpoch = 1
    Published <- MCPublished
    JwksTTL = 1
    NoKid = NoKid
    NoSet = NoSet
    Failed = Failed
    ClientID = {c1}
    Secret = {s1}
    Registered <- MCRegistered
    MaxLife = 1
    TokenTTL = 1
    UseTemplate = FALSE
    NoExp = NoExp
    NoToken = NoToken
PROPERTIES AuthKeyLookups AuthRequestsReturn
