SPECIFICATION StackFairSpec
CONSTANTS
    MaxRetries = 1
    MaxLife = 3
    Margin = 2
    Never = Never
    NoToken = NoToken
    NoOne = NoOne
CHECK_DEADLOCK FALSE
INVARIANTS StackTypeOK BodiesClosed NotRepeatedUninvited RetriesAreUsedUp AttemptsSendWholeBody RefusedOnlyIfLate
PROPERTIES StackRetries ContextEndsCallBut CallsReturn RefusalsPass
