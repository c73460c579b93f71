CONSTANTS
    h1 = h1
    h2 = h2
    t1 = t1
    t2 = t2
    u1 = u1
    u2 = u2
    m1 = m1
    NoToken = NoToken
    NoPeriod = NoPeriod
    Handlers <- MCHandlers
    Tokens <- MCTokens
    Users <- MCUsers
    Months <- MCMonths
    MaxStamp = 3

SPECIFICATION Spec
CHECK_DEADLOCK FALSE
SYMMETRY MCSymmetry

INVARIANT NoDuplicateInvoice
