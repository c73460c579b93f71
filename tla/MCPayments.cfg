CONSTANTS
    a1 = a1
    t1 = t1
    t2 = t2
    Poller = Poller
    NoToken = NoToken
    Admins <- OneAdmin
    Tokens <- TwoInvoices
    MaxIndex = 2
    MaxPayments = 2
    MaxRestarts = 2
    Lapsing = {}
    Arriving = {}
    Polling = FALSE
    Deciding = TRUE
    Losing = TRUE
    Rewinding = TRUE

SPECIFICATION Spec
CHECK_DEADLOCK FALSE
SYMMETRY InvoiceSymmetry
CONSTRAINT Telling

INVARIANT TypeOK
INVARIANT AddressesDistinct
INVARIANT RecordedStaysPaid
INVARIANT UnpaidIsWatched
