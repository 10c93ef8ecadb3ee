SPECIFICATION Spec
CONSTANTS
    MaxTime = 3
    NoClaim = NoClaim
    BadClaim = BadClaim
CHECK_DEADLOCK FALSE
INVARIANTS ServiceExpiryIsReported
