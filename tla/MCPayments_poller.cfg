CONSTANTS
    a1 = a1
    t1 = t1
    t2 = t2
    Poller = Poller
    NoToken = NoToken
    Admins <- OneAdmin
    Tokens <- OneInvoice
    MaxIndex = 2
    MaxPayments = 1
    MaxRestarts = 0
    Lapsing = {1}
    Arriving = {0}
    Polling = TRUE
    Deciding = TRUE
    Losing = FALSE
    Rewinding = FALSE

SPECIFICATION FairSpec
CHECK_DEADLOCK FALSE

INVARIANT RecordedStaysPaid
INVARIANT UnpaidIsWatched
PROPERTY TransactionNoticed
