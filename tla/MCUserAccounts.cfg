CONSTANTS
    r1 = r1
    r2 = r2
    Requests <- TwoRequests
    LoginAttemptsToLockUser = 2
    MaxTokens = 3
    Ops <- AllOps
    Overlapping <- OverlapOps

SPECIFICATION Spec
CHECK_DEADLOCK FALSE
SYMMETRY MCSymmetry
CONSTRAINT Telling

INVARIANT TypeOK
INVARIANT RedeemedOnce
INVARIANT LockMeansFailures
INVARIANT SomeIdentityActive
INVARIANT NewestIdentityActive
