CONSTANTS
    a1 = a1
    t1 = t1
    t2 = t2
    Poller = Poller
    NoToken = NoToken
    Admins <- OneAdmin
    Tokens <- OneInvoice
    MaxIndex = 1
    MaxPayments = 1
    MaxRestarts = 0
    Lapsing = {0}
    Arriving = {0}
    Polling = TRUE
    Deciding = FALSE
    Losing = TRUE
    Rewinding = FALSE

SPECIFICATION FairSpec
CHECK_DEADLOCK FALSE

PROPERTY ExpiredIsRemoved
