CONSTANTS
    a1 = a1
    t1 = t1
    t2 = t2
    Poller = Poller
    NoToken = NoToken
    Admins <- OneAdmin
    Tokens <- OneInvoice
    MaxIndex = 2
    MaxPayments = 2
    MaxRestarts = 0
    Lapsing = {}
    Arriving = {}
    Polling = TRUE
    Deciding = FALSE
    Losing = TRUE
    Rewinding = FALSE

SPECIFICATION Spec
CHECK_DEADLOCK FALSE

INVARIANT PaidPaymentsKept
