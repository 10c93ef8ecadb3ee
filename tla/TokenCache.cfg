SPECIFICATION TokenFairSpec
CONSTANTS
    g1 = g1
    g2 = g2
    c1 = c1
    s1 = s1
    s2 = s2
    Goroutine = {g1, g2}
    NoOne = NoOne
    ClientID = {c1}
    Secret = {s1, s2}
    Registered <- MCRegistered
    MaxLife = 3
    TokenTTL = 1
    UseTemplate = TRUE
    NoExp = NoExp
    NoToken = NoToken
INVARIANTS TokenTypeOK TokensStayWithTheirOwner
PROPERTIES RevocationTakesHold EveryIssueReturns
