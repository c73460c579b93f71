CONSTANTS
    r1 = r1
    r2 = r2
    Requests <- OneRequest
    LoginAttemptsToLockUser = 2
    MaxTokens = 4
    Ops <- IdentityOps
    Overlapping = {}

SPECIFICATION Spec
CHECK_DEADLOCK FALSE

INVARIANT OneActiveIdentity
