CONSTANTS
    Main = Main
    Poller = Poller
    Nobody = Nobody
    r1 = r1
    t1 = t1
    t2 = t2
    Requests = {r1}
    Tokens <- TwoTokens
    Approved <- OneToken
    HasSMTP = TRUE
    MaxEvents = 2
    MaxStarts = 2
    MaxDecisions = 1

SPECIFICATION FairSpec
CHECK_DEADLOCK FALSE

INVARIANT TypeOK
INVARIANT ServedIsLoaded
INVARIANT AdminLogComplete
INVARIANT WatchedFromStart
INVARIANT ListensWithKeys
PROPERTY DeliversEvents
PROPERTY RequestsEnd
PROPERTY EventsHandled
PROPERTY InventoryRecovers
