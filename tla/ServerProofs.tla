---------------------------- MODULE ServerProofs ----------------------------
(***************************************************************************)
(* Proofs about Server, for any number of requests, records and events.    *)
(***************************************************************************)
EXTENDS Server, FiniteSetTheorems, TLAPS

USE DEF InvoiceSteps, keyVars, decisionVars

-----------------------------------------------------------------------------
(* The inductive invariant, in named parts *)

\* Goroutines that load the inventory.
Loaders == Requests \cup {Main}

\* What _main has done is what it says it has done.
Startup ==
    /\ pc[Main] # "listening" => \A r \in Requests : pc[r] = "idle"
    /\ pc[Main] \notin {"down", "tables", "events"} => listeners = Registered
    /\ pc[Main] \in {"down", "tables", "events"} => \A l \in Listeners : pc[l] = "off"
    /\ pc[Poller] # "off" => pc[Main] \in {"cookie", "cookieWrite", "listening"}
    /\ starts = 0 => pc[Main] = "down" /\ fired = {}
    /\ loaded => rows = Tokens /\ pc[Main] \notin {"down", "tables"}

\* Who loads the inventory holds the lock; what has no row is to be created.
Loading ==
    /\ \A g \in Loaders :
           /\ pc[g] \in {"fetch", "create"} => mutex = g
           /\ pc[g] = "create" => Tokens \subseteq rows \cup toCreate
    /\ \A r \in Requests : pc[r] \in InvoiceSteps => loaded

\* A key file is whole once _main has passed it, but for a torn cookie key.
Keys ==
    /\ pc[Main] \in {"checker", "cookie", "cookieWrite", "listening"} => keyFile["csrf"] = "whole"
    /\ keyFile["cookie"] = "empty" => pc[Main] = "cookieWrite" \/ torn
    /\ pc[Main] = "listening" => keyFile["cookie"] # "none"

\* Events are numbered in the order in which they were fired.
Numbered ==
    /\ fired \subseteq Event
    /\ IsFiniteSet(fired) /\ Cardinality(fired) <= MaxEvents
    /\ \A e \in fired : e.n <= Cardinality(fired)

\* A listener has an event in hand that nobody waits to send it, or none.
Listening ==
    \A l \in Listeners :
        /\ pc[l] \in {"received", "write"} => l = "statusLog" /\ inbox[l] # NoEvent
        /\ pc[l] \notin {"received", "write"} => inbox[l] = NoEvent
        /\ pc[l] = "write" => inbox[l].decision # 0
        /\ <<inbox[l], l>> \notin deliveries

\* A request has a decision in hand from its acceptance until it is announced.
InHand ==
    \A r \in Requests :
        /\ pc[r] = "accepted" => inHand[r] # 0
        /\ inHand[r] # 0 => pc[r] \in {"accepted", "fire"}

\* The poller has found only what is paid.
Watching == WatchedFromStart /\ found \subseteq paid

IndInv ==
    /\ TypeOK
    /\ Startup
    /\ Loading
    /\ Keys
    /\ Numbered
    /\ Listening
    /\ AdminLogComplete
    /\ InHand
    /\ Watching

-----------------------------------------------------------------------------
(* Steps of a goroutine *)

\* The goroutines differ from each other.
LEMMA Distinct ==
    /\ Main \in Goroutines /\ Poller \in Goroutines /\ Main # Poller
    /\ \A r \in Requests : r \in Goroutines /\ r # Main /\ r # Poller /\ r \notin Listeners
    /\ \A l \in Listeners : l \in Goroutines /\ l # Main /\ l # Poller
    /\ \A g \in Goroutines : g # Nobody
    /\ "statusLog" \in Listeners
  BY GoroutinesAssumption DEF Goroutines, Listeners

\* A step changes nothing of the other goroutines.
LEMMA StepOf ==
    ASSUME TypeOK, NEW g \in Goroutines, NEW from, NEW to, Step(g, from, to)
    PROVE  /\ pc[g] = from /\ pc'[g] = to /\ DOMAIN pc' = Goroutines
           /\ \A h \in Goroutines : h # g => pc'[h] = pc[h]
  BY DEF TypeOK, Step

\* The numbers tell events from NoEvent.
LEMMA NoEventFired ==
    ASSUME Numbered
    PROVE  NoEvent \notin fired
  BY DEF Numbered, Event, NoEvent

\* Parts that only depend on the events and the listeners.
LEMMA EventsKept ==
    ASSUME Numbered, Listening, UNCHANGED eventVars, \A l \in Listeners : pc'[l] = pc[l]
    PROVE  Numbered' /\ Listening'
<1>1. fired' = fired /\ deliveries' = deliveries /\ inbox' = inbox
  BY DEF eventVars
<1>2. Numbered'
  BY <1>1 DEF Numbered
<1>3. Listening'
  BY <1>1 DEF Listening
<1> QED
  BY <1>2, <1>3

\* The log's property only depends on the events and the decisions.
LEMMA LogKept ==
    ASSUME AdminLogComplete, UNCHANGED eventVars, UNCHANGED decisionVars
    PROVE  AdminLogComplete'
<1>1. /\ fired' = fired /\ adminLog' = adminLog /\ unlogged' = unlogged
      /\ deliveries' = deliveries /\ inbox' = inbox
  BY DEF eventVars
<1>2. Pending' = Pending
  BY <1>1 DEF Pending
<1> QED
  BY <1>1, <1>2 DEF AdminLogComplete, OnItsWay

\* Requests that have nothing in hand may go anywhere but to "accepted".
LEMMA InHandKept ==
    ASSUME InHand, UNCHANGED decisionVars,
           \A r \in Requests : \/ pc'[r] = pc[r]
                               \/ pc[r] \notin {"accepted", "fire"} /\ pc'[r] # "accepted"
                               \/ pc[r] = "accepted" /\ pc'[r] = "fire"
    PROVE  InHand'
  BY DEF InHand

\* A step of a request or of the poller that leaves the events alone.
LEMMA BesideMain ==
    ASSUME IndInv, NEW g \in Requests \cup {Poller}, NEW from, NEW to, Step(g, from, to),
           UNCHANGED eventVars, UNCHANGED serverVars,
           g \in Requests => \/ from \notin {"accepted", "fire"} /\ to # "accepted"
                             \/ from = "accepted" /\ to = "fire"
    PROVE  /\ pc[g] = from /\ pc'[g] = to /\ DOMAIN pc' = Goroutines
           /\ \A h \in Goroutines : h # g => pc'[h] = pc[h]
           /\ pc'[Main] = pc[Main] /\ g \in Goroutines
           /\ Keys' /\ Numbered' /\ Listening' /\ AdminLogComplete' /\ InHand'
<1>1. TypeOK /\ Keys /\ Numbered /\ Listening /\ AdminLogComplete /\ InHand
  BY DEF IndInv
<1>2. g \in Goroutines /\ g # Main /\ g \notin Listeners
  BY Distinct
<1>3. /\ pc[g] = from /\ pc'[g] = to /\ DOMAIN pc' = Goroutines
      /\ \A h \in Goroutines : h # g => pc'[h] = pc[h]
  BY <1>1, <1>2, StepOf
<1>4. pc'[Main] = pc[Main] /\ \A l \in Listeners : pc'[l] = pc[l]
  BY <1>2, <1>3, Distinct
<1>5. starts' = starts /\ keyFile' = keyFile /\ torn' = torn /\ UNCHANGED decisionVars
  BY DEF serverVars
<1>6. Keys'
  BY <1>1, <1>4, <1>5 DEF Keys
<1>7. Numbered' /\ Listening' /\ AdminLogComplete'
  BY <1>1, <1>4, <1>5, EventsKept, LogKept
<1>8. InHand'
  <2>1. \A r \in Requests : r # g => pc'[r] = pc[r]
    BY <1>3, Distinct
  <2> QED
    BY <2>1, <1>1, <1>3, <1>5, InHandKept
<1> QED
  BY <1>2, <1>3, <1>4, <1>6, <1>7, <1>8

\* A step of _main that leaves the events alone.
LEMMA MainAlone ==
    ASSUME IndInv, NEW from, NEW to, Step(Main, from, to), UNCHANGED eventVars,
           UNCHANGED decisionVars
    PROVE  /\ pc[Main] = from /\ pc'[Main] = to /\ DOMAIN pc' = Goroutines
           /\ \A h \in Goroutines : h # Main => pc'[h] = pc[h]
           /\ Numbered' /\ Listening' /\ InHand'
<1>1. TypeOK /\ Numbered /\ Listening /\ InHand
  BY DEF IndInv
<1>2. /\ pc[Main] = from /\ pc'[Main] = to /\ DOMAIN pc' = Goroutines
      /\ \A h \in Goroutines : h # Main => pc'[h] = pc[h]
  BY <1>1, Distinct, StepOf
<1>3. InHand'
  BY <1>1, <1>2, Distinct, InHandKept
<1> QED
  BY <1>1, <1>2, <1>3, Distinct, EventsKept

-----------------------------------------------------------------------------
(* Steps that preserve the invariant *)

\* A request that only goes on.
LEMMA RequestPreserves ==
    ASSUME IndInv, NEW r \in Requests,
           Dispatch(r) \/ HandleInvoice(r) \/ HandleUser(r) \/ LogUserAction(r) \/ WriteUserLog(r)
               \/ SaveDecision(r) \/ StatusChangeFired(r)
    PROVE  IndInv'
<1>1. /\ TypeOK /\ Startup /\ Loading /\ Watching
  BY DEF IndInv
<1>2. PICK from, to : Step(r, from, to) /\ to \in RequestSteps \ {"fetch", "create"}
                      /\ (from = "idle" => pc[Main] = "listening")
                      /\ (to \in InvoiceSteps =>
                              from \in InvoiceSteps)
                      /\ from \in RequestSteps \ {"fetch", "create"}
                      /\ \/ from \notin {"accepted", "fire"} /\ to # "accepted"
                         \/ from = "accepted" /\ to = "fire"
  <2>1. CASE Dispatch(r)
    BY <2>1 DEF Dispatch, RequestSteps
  <2>2. CASE HandleInvoice(r)
    BY <2>2 DEF HandleInvoice, RequestSteps
  <2>3. CASE HandleUser(r)
    BY <2>3 DEF HandleUser, RequestSteps
  <2>4. CASE LogUserAction(r) \/ WriteUserLog(r)
    BY <2>4 DEF LogUserAction, WriteUserLog, RequestSteps
  <2>5. CASE SaveDecision(r) \/ StatusChangeFired(r)
    BY <2>5 DEF SaveDecision, StatusChangeFired, FireEventReturns, RequestSteps
  <2> QED
    BY <2>1, <2>2, <2>3, <2>4, <2>5
<1>3. UNCHANGED eventVars /\ UNCHANGED inventoryVars /\ UNCHANGED serverVars
  BY DEF Dispatch, HandleInvoice, HandleUser, LogUserAction, WriteUserLog, SaveDecision,
         StatusChangeFired, FireEventReturns, requestVars
<1>4. mutex' = mutex \/ (mutex = Nobody /\ mutex' = r) \/ (mutex = r /\ mutex' = Nobody)
  BY DEF Dispatch, HandleInvoice, HandleUser, LogUserAction, WriteUserLog, SaveDecision,
         StatusChangeFired, FireEventReturns, requestVars, Lock, Unlock, LockIsFree
<1>5. /\ pc[r] = from /\ pc'[r] = to /\ DOMAIN pc' = Goroutines
      /\ \A h \in Goroutines : h # r => pc'[h] = pc[h]
      /\ pc'[Main] = pc[Main] /\ r \in Goroutines
      /\ Keys' /\ Numbered' /\ Listening' /\ AdminLogComplete' /\ InHand'
  BY <1>2, <1>3, BesideMain
<1>6. /\ rows' = rows /\ loaded' = loaded /\ toCreate' = toCreate /\ watched' = watched
      /\ found' = found /\ paid' = paid /\ halfLoaded' = halfLoaded /\ early' = early
      /\ starts' = starts /\ keyFile' = keyFile /\ torn' = torn
      /\ UNCHANGED decisionVars
      /\ listeners' = listeners /\ fired' = fired /\ deliveries' = deliveries /\ inbox' = inbox
      /\ adminLog' = adminLog /\ handled' = handled /\ unlogged' = unlogged
  BY <1>3 DEF eventVars, inventoryVars, serverVars
<1>7. TypeOK'
  BY <1>1, <1>2, <1>4, <1>5, <1>6, Distinct DEF TypeOK
<1>8. Startup'
  BY <1>1, <1>2, <1>5, <1>6, Distinct DEF Startup
<1>9. Loading'
  <2>1. ASSUME NEW g \in Loaders, pc'[g] \in {"fetch", "create"}
        PROVE  mutex' = g /\ (pc'[g] = "create" => Tokens \subseteq rows \cup toCreate)
    <3>1. g # r /\ pc'[g] = pc[g] /\ mutex = g
      BY <2>1, <1>1, <1>2, <1>5, Distinct DEF Loaders, Loading
    <3> QED
      BY <2>1, <3>1, <1>1, <1>4, Distinct DEF Loading, Loaders
  <2>2. \A q \in Requests : pc'[q] \in InvoiceSteps => loaded
    BY <1>1, <1>2, <1>5, Distinct DEF Loading
  <2> QED
    BY <2>1, <2>2, <1>6 DEF Loading
<1>10. Watching'
  BY <1>1, <1>5, <1>6 DEF Watching, WatchedFromStart
<1> QED
  BY <1>5, <1>7, <1>8, <1>9, <1>10 DEF IndInv

\* A start of the server.
LEMMA StartPreserves ==
    ASSUME IndInv, Start
    PROVE  IndInv'
<1>1. /\ TypeOK /\ Startup /\ Loading /\ Keys /\ AdminLogComplete /\ Watching /\ Numbered
  BY DEF IndInv
<1>2. /\ pc[Main] = "down" /\ pc'[Main] = "tables" /\ DOMAIN pc' = Goroutines
      /\ \A h \in Goroutines : h # Main => pc'[h] = pc[h]
      /\ Numbered' /\ Listening' /\ InHand'
  BY MainAlone DEF Start
<1>3. /\ rows' = rows /\ loaded' = loaded /\ toCreate' = toCreate /\ watched' = watched
      /\ found' = found /\ paid' = paid /\ halfLoaded' = halfLoaded /\ early' = early
      /\ keyFile' = keyFile /\ torn' = torn /\ mutex' = mutex /\ UNCHANGED decisionVars
      /\ listeners' = listeners /\ fired' = fired /\ deliveries' = deliveries /\ inbox' = inbox
      /\ adminLog' = adminLog /\ handled' = handled /\ unlogged' = unlogged
      /\ starts' = starts + 1 /\ starts < MaxStarts
  BY DEF Start, eventVars, inventoryVars
<1>4. starts' \in 0..MaxStarts /\ starts' # 0
  BY <1>1, <1>3, ServerAssumption DEF TypeOK
<1>5. TypeOK'
  BY <1>1, <1>2, <1>3, <1>4, Distinct DEF TypeOK, MainSteps
<1>6. Startup'
  BY <1>1, <1>2, <1>3, <1>4, Distinct DEF Startup
<1>7. Loading'
  BY <1>1, <1>2, <1>3, Distinct DEF Loading, Loaders
<1>8. Keys'
  BY <1>1, <1>2, <1>3 DEF Keys
<1>9. AdminLogComplete'
  BY <1>1, <1>3, LogKept DEF Start
<1>10. Watching'
  BY <1>1, <1>2, <1>3 DEF Watching, WatchedFromStart
<1> QED
  BY <1>2, <1>5, <1>6, <1>7, <1>8, <1>9, <1>10 DEF IndInv

\* A step of _main on the way to listening that has to do with neither the
\* events nor the inventory: the key files.
LEMMA KeyPreserves ==
    ASSUME IndInv,
           \/ CreateKey("csrf", "csrf", "csrfWrite") \/ WriteKey("csrf", "csrfWrite", "checker")
           \/ CreateKey("cookie", "cookie", "cookieWrite")
           \/ WriteKey("cookie", "cookieWrite", "listening")
           \/ ReadCSRFKey \/ ReadCookieKey
    PROVE  IndInv'
<1>1. /\ TypeOK /\ Startup /\ Loading /\ Keys /\ AdminLogComplete /\ Watching
  BY DEF IndInv
<1>2. PICK from \in MainSteps, to \in MainSteps :
          /\ Step(Main, from, to)
          /\ from \notin {"down", "tables", "events", "listening", "checker"}
          /\ to \notin {"down", "tables", "events", "fetch", "create"}
          /\ to = "cookieWrite" => from = "cookie"
          /\ from \in {"cookie", "cookieWrite"} => to \in {"cookieWrite", "listening"}
          /\ to = "listening" => from \in {"cookie", "cookieWrite"}
          /\ to # "cookie"
  BY DEF CreateKey, WriteKey, ReadCSRFKey, ReadCookieKey, MainSteps
<1>3. UNCHANGED eventVars /\ UNCHANGED inventoryVars /\ mutex' = mutex /\ starts' = starts
      /\ torn' = torn /\ UNCHANGED decisionVars
  BY DEF CreateKey, WriteKey, ReadCSRFKey, ReadCookieKey, serverVars
<1>4. /\ pc[Main] = from /\ pc'[Main] = to /\ DOMAIN pc' = Goroutines
      /\ \A h \in Goroutines : h # Main => pc'[h] = pc[h]
      /\ Numbered' /\ Listening' /\ InHand'
  BY <1>2, <1>3, MainAlone
<1>5. /\ rows' = rows /\ loaded' = loaded /\ toCreate' = toCreate /\ watched' = watched
      /\ found' = found /\ paid' = paid /\ halfLoaded' = halfLoaded /\ early' = early
      /\ listeners' = listeners /\ fired' = fired /\ deliveries' = deliveries /\ inbox' = inbox
      /\ adminLog' = adminLog /\ handled' = handled /\ unlogged' = unlogged
  BY <1>3 DEF eventVars, inventoryVars
<1>6. keyFile' \in [KeyFiles -> {"none", "empty", "whole"}]
  BY <1>1 DEF CreateKey, WriteKey, ReadCSRFKey, ReadCookieKey, serverVars, KeyFiles, TypeOK
<1>7. TypeOK'
  BY <1>1, <1>2, <1>3, <1>4, <1>5, <1>6, Distinct DEF TypeOK
<1>8. Startup'
  <2>1. pc'[Poller] # "off" => to \in {"cookie", "cookieWrite", "listening"}
    BY <1>1, <1>2, <1>4, Distinct DEF Startup
  <2> QED
    BY <2>1, <1>1, <1>2, <1>3, <1>4, <1>5, Distinct DEF Startup
<1>9. Loading'
  <2>1. ASSUME NEW g \in Loaders, pc'[g] \in {"fetch", "create"}
        PROVE  mutex' = g /\ (pc'[g] = "create" => Tokens \subseteq rows \cup toCreate)
    <3>1. g # Main /\ g \in Goroutines /\ pc'[g] = pc[g]
      BY <2>1, <1>2, <1>4, Distinct DEF Loaders
    <3> QED
      BY <2>1, <3>1, <1>1, <1>3 DEF Loading
  <2>2. \A q \in Requests : pc'[q] \in InvoiceSteps => loaded
    BY <1>1, <1>4, Distinct DEF Loading
  <2> QED
    BY <2>1, <2>2, <1>5 DEF Loading
<1>10. Keys'
  <2>1. CASE CreateKey("csrf", "csrf", "csrfWrite")
    BY <2>1, <1>1, <1>3, <1>4 DEF CreateKey, Keys, TypeOK, KeyFiles, Step
  <2>2. CASE WriteKey("csrf", "csrfWrite", "checker")
    BY <2>2, <1>1, <1>3, <1>4 DEF WriteKey, Keys, TypeOK, KeyFiles, Step
  <2>3. CASE CreateKey("cookie", "cookie", "cookieWrite")
    BY <2>3, <1>1, <1>3, <1>4, Distinct DEF CreateKey, Keys, TypeOK, KeyFiles, Step
  <2>4. CASE WriteKey("cookie", "cookieWrite", "listening")
    BY <2>4, <1>1, <1>3, <1>4, Distinct DEF WriteKey, Keys, TypeOK, KeyFiles, Step
  <2>5. CASE ReadCSRFKey
    BY <2>5, <1>1, <1>3, <1>4, Distinct DEF ReadCSRFKey, Keys, TypeOK, KeyFiles, Step, serverVars
  <2>6. CASE ReadCookieKey
    BY <2>6, <1>1, <1>3, <1>4, Distinct DEF ReadCookieKey, Keys, TypeOK, KeyFiles, Step, serverVars
  <2> QED
    BY <2>1, <2>2, <2>3, <2>4, <2>5, <2>6
<1>11. AdminLogComplete'
  BY <1>1, <1>2, <1>3, <1>4, LogKept
<1>12. Watching'
  BY <1>1, <1>2, <1>4, <1>5 DEF Watching, WatchedFromStart
<1> QED
  BY <1>4, <1>7, <1>8, <1>9, <1>10, <1>11, <1>12 DEF IndInv

\* The invoice tables are dropped and created.
LEMMA TablesPreserve ==
    ASSUME IndInv, OpenTables
    PROVE  IndInv'
<1>1. /\ TypeOK /\ Startup /\ Loading /\ Keys /\ AdminLogComplete /\ Watching
  BY DEF IndInv
<1>2. UNCHANGED eventVars /\ UNCHANGED serverVars /\ Step(Main, "tables", "events")
  BY DEF OpenTables, New
<1>3. /\ pc[Main] = "tables" /\ pc'[Main] = "events" /\ DOMAIN pc' = Goroutines
      /\ \A h \in Goroutines : h # Main => pc'[h] = pc[h]
      /\ Numbered' /\ Listening' /\ InHand'
  BY <1>2, MainAlone DEF serverVars
<1>4. /\ rows' = {} /\ halfLoaded' = FALSE /\ mutex' = mutex /\ loaded' = loaded
      /\ toCreate' = toCreate /\ watched' = watched /\ found' = found /\ paid' = paid
      /\ early' = early
  BY DEF OpenTables, New
<1>5. /\ listeners' = listeners /\ fired' = fired /\ deliveries' = deliveries /\ inbox' = inbox
      /\ adminLog' = adminLog /\ handled' = handled /\ unlogged' = unlogged
      /\ starts' = starts /\ keyFile' = keyFile /\ torn' = torn
      /\ UNCHANGED decisionVars
  BY <1>2 DEF eventVars, serverVars
<1>6. TypeOK'
  BY <1>1, <1>3, <1>4, <1>5, Distinct DEF TypeOK, MainSteps
<1>7. Startup'
  BY <1>1, <1>3, <1>4, <1>5, Distinct DEF Startup
<1>8. Loading'
  <2>1. \A r \in Requests : pc'[r] = "idle"
    BY <1>1, <1>3, Distinct DEF Startup
  <2> QED
    BY <2>1, <1>3 DEF Loading, Loaders
<1>9. Keys'
  BY <1>1, <1>3, <1>5 DEF Keys
<1>10. AdminLogComplete'
  BY <1>1, <1>2, <1>3, <1>5, LogKept
<1>11. Watching'
  BY <1>1, <1>3, <1>4 DEF Watching, WatchedFromStart
<1> QED
  BY <1>3, <1>6, <1>7, <1>8, <1>9, <1>10, <1>11 DEF IndInv

\* The listeners are registered and start to receive.
LEMMA SetupPreserves ==
    ASSUME IndInv, SetupEvents
    PROVE  IndInv'
<1>1. /\ TypeOK /\ Startup /\ Loading /\ Keys /\ AdminLogComplete /\ Watching /\ Numbered
      /\ Listening /\ InHand
  BY DEF IndInv
<1>2. /\ pc[Main] = "events" /\ DOMAIN pc' = Goroutines
      /\ \A p \in Goroutines :
             pc'[p] = IF p = Main THEN "load" ELSE IF p \in Registered THEN "receive" ELSE pc[p]
  BY DEF SetupEvents, InitEventManager
<1>3. Registered \subseteq Listeners
  BY DEF Registered, Listeners
<1>4. /\ pc'[Main] = "load" /\ pc'[Poller] = pc[Poller]
      /\ \A r \in Requests : pc'[r] = pc[r]
      /\ \A l \in Listeners : pc'[l] = "receive" \/ pc'[l] = pc[l]
  BY <1>2, <1>3, Distinct
<1>5. /\ listeners' = Registered /\ fired' = fired /\ deliveries' = deliveries
      /\ inbox' = inbox /\ adminLog' = adminLog /\ handled' = handled /\ unlogged' = unlogged
      /\ starts' = starts /\ keyFile' = keyFile /\ torn' = torn
      /\ UNCHANGED decisionVars
      /\ rows' = rows /\ loaded' = loaded /\ toCreate' = toCreate /\ watched' = watched
      /\ found' = found /\ paid' = paid /\ halfLoaded' = halfLoaded /\ early' = early
      /\ mutex' = mutex /\ mutex = Nobody
  BY DEF SetupEvents, InitEventManager, serverVars, inventoryVars, LockIsFree
<1>6. TypeOK'
  BY <1>1, <1>2, <1>3, <1>4, <1>5 DEF TypeOK, MainSteps, ListenerSteps
<1>7. Startup'
  BY <1>1, <1>2, <1>4, <1>5 DEF Startup
<1>8. Loading'
  BY <1>1, <1>4, <1>5 DEF Loading, Loaders
<1>9. Keys'
  BY <1>1, <1>2, <1>4, <1>5 DEF Keys
<1>10. Numbered'
  BY <1>1, <1>5 DEF Numbered
<1>11. Listening'
  <2>1. \A l \in Listeners : pc[l] = "off" /\ pc'[l] \in {"receive", "off"}
    BY <1>1, <1>2, <1>4 DEF Startup
  <2> QED
    BY <2>1, <1>1, <1>5 DEF Listening
<1>12. AdminLogComplete'
  <2>1. Pending' = Pending
    BY <1>5 DEF Pending
  <2> QED
    BY <2>1, <1>1, <1>5 DEF AdminLogComplete, OnItsWay
<1>13. Watching'
  BY <1>1, <1>4, <1>5 DEF Watching, WatchedFromStart
<1>14. InHand'
  BY <1>1, <1>4, <1>5, InHandKept
<1> QED
  BY <1>6, <1>7, <1>8, <1>9, <1>10, <1>11, <1>12, <1>13, <1>14 DEF IndInv

\* The steps of a load that keep to the goroutine that loads.
LEMMA LoadSteps ==
    ASSUME IndInv, NEW g \in Loaders, LoadInventory(g)
    PROVE  \/ AlreadyLoaded(g, AfterLoad(g)) \/ CallInventory(g) \/ RemoteInventory(g)
           \/ (\E t \in Tokens : NewInventoryRecord(g, t))
           \/ LoadReturns(g, AfterLoad(g)) \/ LoadFails(g, AfterFailure(g))
  BY DEF LoadInventory

\* Whoever loads, the others are not affected.
LEMMA LoadAlone ==
    ASSUME IndInv, NEW g \in Loaders, NEW from, NEW to, Step(g, from, to),
           UNCHANGED eventVars, UNCHANGED serverVars,
           from \in {"load", "fetch", "create"},
           to \in {"fetch", "create"} \/ to = AfterLoad(g) \/ to = AfterFailure(g)
    PROVE  /\ pc[g] = from /\ pc'[g] = to /\ DOMAIN pc' = Goroutines
           /\ \A h \in Goroutines : h # g => pc'[h] = pc[h]
           /\ g \in Goroutines /\ g \notin Listeners /\ g # Poller
           /\ \/ pc'[Main] = pc[Main]
              \/ g = Main /\ pc'[Main] \in {"fetch", "create", "csrf"}
           /\ g # Main => pc'[g] \in {"fetch", "create", "handle", "idle"}
           /\ Keys' /\ Numbered' /\ Listening' /\ AdminLogComplete' /\ InHand'
<1>1. TypeOK /\ Keys /\ Numbered /\ Listening /\ AdminLogComplete /\ InHand
  BY DEF IndInv
<1>2. g \in Goroutines /\ g \notin Listeners /\ g # Poller
  BY Distinct DEF Loaders
<1>3. /\ pc[g] = from /\ pc'[g] = to /\ DOMAIN pc' = Goroutines
      /\ \A h \in Goroutines : h # g => pc'[h] = pc[h]
  BY <1>1, <1>2, StepOf
<1>4. \A l \in Listeners : pc'[l] = pc[l]
  BY <1>2, <1>3, Distinct
<1>5. pc'[Main] = pc[Main] \/ (g = Main /\ pc'[Main] \in {"fetch", "create", "csrf"})
  <2>1. CASE g = Main
    BY <2>1, <1>3 DEF AfterLoad, AfterFailure
  <2>2. CASE g # Main
    BY <2>2, <1>3, Distinct
  <2> QED
    BY <2>1, <2>2
<1>6. g # Main => pc'[g] \in {"fetch", "create", "handle", "idle"}
  BY <1>3 DEF AfterLoad, AfterFailure
<1>7. starts' = starts /\ keyFile' = keyFile /\ torn' = torn /\ UNCHANGED decisionVars
  BY DEF serverVars
<1>8. Keys'
  <2>1. pc[Main] = "cookieWrite" => pc'[Main] = "cookieWrite"
    BY <1>3, <1>5
  <2> QED
    BY <2>1, <1>1, <1>5, <1>7 DEF Keys
<1>9. Numbered' /\ Listening'
  BY <1>1, <1>4, EventsKept
<1>10. AdminLogComplete'
  BY <1>1, <1>7, LogKept
<1>11. InHand'
  <2>1. ASSUME NEW r \in Requests
        PROVE  \/ pc'[r] = pc[r]
               \/ pc[r] \notin {"accepted", "fire"} /\ pc'[r] # "accepted"
    BY <1>3, <1>6, Distinct
  <2> QED
    BY <2>1, <1>1, <1>7, InHandKept
<1> QED
  BY <1>2, <1>3, <1>5, <1>6, <1>8, <1>9, <1>10, <1>11

\* A load at the start or for a request.
LEMMA LoadPreserves ==
    ASSUME IndInv, NEW g \in Loaders, LoadInventory(g)
    PROVE  IndInv'
<1>1. /\ TypeOK /\ Startup /\ Loading /\ Watching
  BY DEF IndInv
<1>2. /\ UNCHANGED eventVars /\ UNCHANGED serverVars
      /\ listeners' = listeners /\ fired' = fired /\ deliveries' = deliveries /\ inbox' = inbox
      /\ adminLog' = adminLog /\ handled' = handled /\ unlogged' = unlogged
      /\ starts' = starts /\ keyFile' = keyFile /\ torn' = torn
      /\ UNCHANGED decisionVars
  BY DEF LoadInventory, eventVars, serverVars
<1>3. /\ watched' = watched /\ found' = found /\ paid' = paid /\ early' = early
  BY DEF LoadInventory, AlreadyLoaded, CallInventory, RemoteInventory, NewInventoryRecord,
         LoadReturns, LoadFails, inventoryVars
<1>4. ASSUME NEW t \in Tokens, NewInventoryRecord(g, t)
      PROVE  IndInv'
  <2>1. /\ pc' = pc /\ mutex' = mutex /\ loaded' = loaded /\ halfLoaded' = halfLoaded
        /\ rows' = rows \cup {t} /\ toCreate' = toCreate \ {t} /\ pc[g] = "create"
    BY <1>4 DEF NewInventoryRecord
  <2>2. TypeOK'
    BY <2>1, <1>1, <1>2, <1>3 DEF TypeOK
  <2>3. Startup'
    BY <2>1, <1>1, <1>2 DEF Startup, TypeOK
  <2>4. Loading'
    BY <2>1, <1>1 DEF Loading
  <2>5. Keys' /\ AdminLogComplete' /\ InHand'
    <3>1. Keys'
      BY <2>1, <1>2 DEF IndInv, Keys
    <3>2. AdminLogComplete'
      BY <2>1, <1>2, LogKept DEF IndInv
    <3>3. InHand'
      BY <2>1, <1>2, InHandKept DEF IndInv
    <3> QED
      BY <3>1, <3>2, <3>3
  <2>6. Numbered' /\ Listening'
    BY <2>1, <1>2, EventsKept DEF IndInv
  <2>7. Watching'
    BY <2>1, <1>1, <1>3 DEF Watching, WatchedFromStart
  <2> QED
    BY <2>2, <2>3, <2>4, <2>5, <2>6, <2>7 DEF IndInv
<1>5. ASSUME NEW from, NEW to, Step(g, from, to), from \in {"load", "fetch", "create"},
             to \in {"fetch", "create"} \/ to = AfterLoad(g) \/ to = AfterFailure(g),
             mutex' \in {mutex, g, Nobody}, mutex' # mutex => mutex \in {g, Nobody},
             to \in {"fetch", "create"} => mutex' = g,
             to = "create" => Tokens \subseteq rows' \cup toCreate',
             g # Main /\ to = "handle" => loaded',
             loaded => loaded', loaded' => rows' = Tokens,
             rows' = rows, toCreate' \subseteq Tokens, {loaded', halfLoaded'} \subseteq BOOLEAN,
             toCreate' # toCreate => mutex = g
      PROVE  IndInv'
  <2>1. /\ pc[g] = from /\ pc'[g] = to /\ DOMAIN pc' = Goroutines
        /\ \A h \in Goroutines : h # g => pc'[h] = pc[h]
        /\ g \in Goroutines /\ g \notin Listeners /\ g # Poller
        /\ \/ pc'[Main] = pc[Main]
           \/ g = Main /\ pc'[Main] \in {"fetch", "create", "csrf"}
        /\ g # Main => pc'[g] \in {"fetch", "create", "handle", "idle"}
        /\ Keys' /\ Numbered' /\ Listening' /\ AdminLogComplete' /\ InHand'
    BY <1>2, <1>5, LoadAlone
  <2>2. TypeOK'
    <3>1. pc'[Main] \in MainSteps
      BY <2>1, <1>1 DEF TypeOK, MainSteps
    <3>2. \A r \in Requests : pc'[r] \in RequestSteps
      BY <2>1, <1>1, Distinct DEF TypeOK, RequestSteps
    <3>3. pc'[Poller] \in PollerSteps /\ \A l \in Listeners : pc'[l] \in ListenerSteps
      BY <2>1, <1>1, Distinct DEF TypeOK
    <3>4. mutex' \in Goroutines \cup {Nobody}
      BY <1>5, <2>1, <1>1 DEF TypeOK
    <3> QED
      BY <3>1, <3>2, <3>3, <3>4, <1>1, <1>2, <1>3, <1>5, <2>1 DEF TypeOK
  <2>3. Startup'
    <3>1. pc[Main] # "down" \/ g # Main
      BY <1>5, <2>1
    <3>2. g # Main => pc[Main] = "listening"
      <4>1. SUFFICES ASSUME g # Main PROVE pc[g] # "idle" /\ g \in Requests
        BY <1>1 DEF Startup
      <4> QED
        BY <4>1, <1>5, <2>1 DEF Loaders
    <3>3. pc'[Main] \notin {"down", "tables", "events"}
      BY <3>2, <2>1, <1>5
    <3>4. pc'[Main] # "listening" => \A r \in Requests : pc'[r] = "idle"
      <4>1. SUFFICES ASSUME pc'[Main] # "listening", NEW r \in Requests PROVE pc'[r] = "idle"
        OBVIOUS
      <4>2. g = Main
        BY <4>1, <3>2, <2>1, Distinct
      <4>3. pc[Main] # "listening"
        BY <4>2, <1>5, <2>1
      <4> QED
        BY <4>1, <4>2, <4>3, <1>1, <2>1, Distinct DEF Startup
    <3>5. listeners = Registered
      <4>1. pc[Main] \notin {"down", "tables", "events"}
        BY <3>2, <1>5, <2>1
      <4> QED
        BY <4>1, <1>1 DEF Startup
    <3>6. starts # 0
      <4>1. pc[Main] # "down"
        BY <3>2, <1>5, <2>1
      <4> QED
        BY <4>1, <1>1 DEF Startup
    <3>7. pc'[Poller] # "off" => pc'[Main] \in {"cookie", "cookieWrite", "listening"}
      <4>1. pc'[Poller] = pc[Poller]
        BY <2>1, Distinct
      <4>2. CASE g = Main
        BY <4>1, <4>2, <1>1, <1>5, <2>1 DEF Startup
      <4>3. CASE g # Main
        BY <4>1, <4>3, <1>1, <2>1 DEF Startup
      <4> QED
        BY <4>2, <4>3
    <3> QED
      BY <3>3, <3>4, <3>5, <3>6, <3>7, <1>2, <1>5 DEF Startup
  <2>4. Loading'
    <3>1. ASSUME NEW h \in Loaders, pc'[h] \in {"fetch", "create"}
          PROVE  mutex' = h /\ (pc'[h] = "create" => Tokens \subseteq rows' \cup toCreate')
      <4>1. CASE h = g
        BY <4>1, <3>1, <1>5, <2>1
      <4>2. CASE h # g
        <5>1. h \in Goroutines /\ pc'[h] = pc[h] /\ h # Nobody
          BY <4>2, <2>1, Distinct DEF Loaders
        <5>2. mutex = h /\ (pc[h] = "create" => Tokens \subseteq rows \cup toCreate)
          BY <3>1, <5>1, <1>1 DEF Loading
        <5>3. mutex' = h /\ toCreate' = toCreate
          BY <5>1, <5>2, <4>2, <1>5
        <5> QED
          BY <5>1, <5>2, <5>3, <1>5
      <4> QED
        BY <4>1, <4>2
    <3>2. \A r \in Requests : pc'[r] \in InvoiceSteps => loaded'
      <4>1. SUFFICES ASSUME NEW r \in Requests, pc'[r] \in InvoiceSteps
                     PROVE  loaded'
        OBVIOUS
      <4>2. CASE r = g
        BY <4>1, <4>2, <1>5, <2>1, Distinct
      <4>3. CASE r # g
        BY <4>1, <4>3, <1>1, <1>5, <2>1, Distinct DEF Loading
      <4> QED
        BY <4>2, <4>3
    <3> QED
      BY <3>1, <3>2 DEF Loading
  <2>5. Watching'
    BY <2>1, <1>1, <1>3 DEF Watching, WatchedFromStart
  <2> QED
    BY <2>1, <2>2, <2>3, <2>4, <2>5 DEF IndInv
<1>6. CASE AlreadyLoaded(g, AfterLoad(g))
  <2>1. /\ Step(g, "load", AfterLoad(g)) /\ loaded /\ loaded' = loaded /\ rows' = rows
        /\ toCreate' = toCreate /\ mutex' = mutex /\ halfLoaded' = halfLoaded
    BY <1>6 DEF AlreadyLoaded, inventoryVars
  <2>2. rows = Tokens /\ toCreate \subseteq Tokens /\ {loaded, halfLoaded} \subseteq BOOLEAN
    BY <2>1, <1>1 DEF Startup, TypeOK
  <2>3. AfterLoad(g) \notin {"fetch", "create"}
    BY DEF AfterLoad
  <2> QED
    BY <2>1, <2>2, <2>3, <1>5
<1>7. CASE CallInventory(g)
  <2>1. /\ Step(g, "load", "fetch") /\ ~loaded /\ loaded' = loaded /\ rows' = rows
        /\ toCreate' = toCreate /\ mutex = Nobody /\ mutex' = g /\ halfLoaded' = halfLoaded
    BY <1>7 DEF CallInventory, inventoryVars, Lock, LockIsFree
  <2>2. toCreate \subseteq Tokens /\ {loaded, halfLoaded} \subseteq BOOLEAN
    BY <1>1 DEF TypeOK
  <2> QED
    BY <2>1, <2>2, <1>5
<1>8. CASE RemoteInventory(g)
  <2>1. /\ Step(g, "fetch", "create") /\ loaded' = loaded /\ rows' = rows
        /\ toCreate' = Tokens /\ mutex' = mutex /\ halfLoaded' = halfLoaded
    BY <1>8 DEF RemoteInventory
  <2>2. {loaded, halfLoaded} \subseteq BOOLEAN /\ (loaded => rows = Tokens)
    BY <1>1 DEF TypeOK, Startup
  <2>3. mutex = g
    BY <2>1, <1>1 DEF Loading, Step
  <2> QED
    BY <2>1, <2>2, <2>3, <1>5
<1>9. CASE LoadReturns(g, AfterLoad(g))
  <2>1. /\ Step(g, "create", AfterLoad(g)) /\ loaded' = TRUE /\ rows' = rows
        /\ toCreate = {} /\ toCreate' = toCreate /\ mutex = g /\ mutex' = Nobody
        /\ halfLoaded' = halfLoaded
    BY <1>9 DEF LoadReturns, Unlock
  <2>2. rows = Tokens
    BY <2>1, <1>1 DEF Loading, Step, TypeOK
  <2>3. AfterLoad(g) \notin {"fetch", "create"}
    BY DEF AfterLoad
  <2>4. {loaded', halfLoaded'} \subseteq BOOLEAN
    BY <2>1, <1>1 DEF TypeOK
  <2> QED
    BY <2>1, <2>2, <2>3, <2>4, <1>5
<1>10. CASE LoadFails(g, AfterFailure(g))
  <2>1. PICK from \in {"fetch", "create"} : Step(g, from, AfterFailure(g))
    BY <1>10 DEF LoadFails
  <2>2. /\ loaded' = loaded /\ rows' = rows /\ toCreate' = {} /\ mutex = g /\ mutex' = Nobody
        /\ halfLoaded' = (rows # {})
    BY <1>10 DEF LoadFails, Unlock
  <2>3. {loaded', halfLoaded'} \subseteq BOOLEAN /\ (loaded => rows = Tokens)
    BY <2>2, <1>1 DEF TypeOK, Startup
  <2>4. AfterFailure(g) \notin {"fetch", "create", "handle"}
    BY DEF AfterFailure
  <2> QED
    BY <2>1, <2>2, <2>3, <2>4, <1>5
<1> QED
  BY <1>4, <1>6, <1>7, <1>8, <1>9, <1>10, LoadSteps

\* The payment checker is started.
LEMMA CheckerPreserves ==
    ASSUME IndInv, StartChecker
    PROVE  IndInv'
<1>1. /\ TypeOK /\ Startup /\ Loading /\ Keys /\ AdminLogComplete /\ Watching /\ Numbered
      /\ Listening /\ InHand
  BY DEF IndInv
<1>2. UNCHANGED eventVars /\ UNCHANGED serverVars
  BY DEF StartChecker
<1>3. /\ pc[Main] = "checker" /\ pc' = [pc EXCEPT ![Main] = "cookie", ![Poller] = "snapshot"]
      /\ watched' = (Approved \ paid) \cap rows /\ early' = loaded
      /\ mutex' = mutex /\ rows' = rows /\ loaded' = loaded /\ toCreate' = toCreate
      /\ found' = found /\ paid' = paid /\ halfLoaded' = halfLoaded
  BY DEF StartChecker, InitPaymentChecker
<1>4. /\ pc'[Main] = "cookie" /\ pc'[Poller] = "snapshot" /\ DOMAIN pc' = Goroutines
      /\ \A h \in Goroutines : h # Main /\ h # Poller => pc'[h] = pc[h]
  BY <1>1, <1>3, Distinct DEF TypeOK
<1>5. /\ \A l \in Listeners : pc'[l] = pc[l]
      /\ \A r \in Requests : pc'[r] = pc[r]
  BY <1>4, Distinct
<1>6. /\ listeners' = listeners /\ fired' = fired /\ deliveries' = deliveries /\ inbox' = inbox
      /\ adminLog' = adminLog /\ handled' = handled /\ unlogged' = unlogged
      /\ starts' = starts /\ keyFile' = keyFile /\ torn' = torn
      /\ UNCHANGED decisionVars
  BY <1>2 DEF eventVars, serverVars
<1>7. TypeOK'
  BY <1>1, <1>3, <1>4, <1>5, <1>6, InventoryAssumption DEF TypeOK, MainSteps, PollerSteps
<1>8. Startup'
  BY <1>1, <1>3, <1>4, <1>5, <1>6 DEF Startup
<1>9. Loading'
  BY <1>1, <1>3, <1>4, <1>5 DEF Loading, Loaders
<1>10. Keys'
  BY <1>1, <1>3, <1>4, <1>6 DEF Keys
<1>11. Numbered' /\ Listening'
  BY <1>1, <1>2, <1>5, EventsKept
<1>12. AdminLogComplete'
  BY <1>1, <1>2, <1>3, <1>6, LogKept
<1>13. Watching'
  BY <1>1, <1>3, InventoryAssumption DEF Watching, WatchedFromStart, Startup
<1>14. InHand'
  BY <1>1, <1>5, <1>6, InHandKept
<1> QED
  BY <1>7, <1>8, <1>9, <1>10, <1>11, <1>12, <1>13, <1>14 DEF IndInv

\* The process stops.
LEMMA StopPreserves ==
    ASSUME IndInv, Stop
    PROVE  IndInv'
<1>1. /\ TypeOK /\ Startup /\ Keys /\ AdminLogComplete /\ Watching /\ Numbered
  BY DEF IndInv
<1>2. /\ pc[Main] # "down" /\ pc' = Off /\ mutex' = Nobody
      /\ torn' = (torn \/ pc[Main] \in {"csrfWrite", "cookieWrite"})
      /\ keyFile' = keyFile /\ starts' = starts
      /\ listeners' = {} /\ deliveries' = {} /\ inbox' = [l \in Listeners |-> NoEvent]
      /\ adminLog' = adminLog /\ fired' = fired /\ handled' = handled /\ unlogged' = unlogged
      /\ loaded' = FALSE /\ toCreate' = {} /\ watched' = {} /\ found' = {} /\ early' = FALSE
      /\ rows' = rows /\ paid' = paid /\ halfLoaded' = halfLoaded
      /\ inHand' = [r \in Requests |-> 0] /\ decided' = decided /\ unsaved' = unsaved
      /\ cutOff' = cutOff \cup {d \in 1..decided : OnItsWay(d)}
  BY DEF Stop, EventsLost, InventoryLost
<1>3. /\ pc'[Main] = "down" /\ pc'[Poller] = "off" /\ DOMAIN pc' = Goroutines
      /\ \A r \in Requests : pc'[r] = "idle"
      /\ \A l \in Listeners : pc'[l] = "off"
  BY <1>2, Distinct DEF Off
<1>4. TypeOK'
  <2>1. torn' \in BOOLEAN
    BY <1>1, <1>2 DEF TypeOK
  <2>2. /\ decided' \in 0..MaxDecisions /\ inHand' \in [Requests -> 0..decided']
        /\ {unsaved', cutOff'} \subseteq SUBSET (1..decided')
    BY <1>1, <1>2, ServerAssumption DEF TypeOK
  <2> QED
    BY <2>1, <2>2, <1>1, <1>2, <1>3
       DEF TypeOK, MainSteps, PollerSteps, RequestSteps, ListenerSteps
<1>5. Startup'
  BY <1>1, <1>2, <1>3 DEF Startup
<1>6. Loading'
  BY <1>3 DEF Loading, Loaders
<1>7. Keys'
  BY <1>1, <1>2, <1>3 DEF Keys
<1>8. Numbered'
  BY <1>1, <1>2 DEF Numbered
<1>9. Listening'
  BY <1>2, <1>3 DEF Listening
<1>10. AdminLogComplete'
  <2>1. ASSUME NEW d \in 1..decided
        PROVE  (\E e \in adminLog \cup unlogged : e.decision = d) \/ d \in unsaved \cup cutOff'
    BY <1>1, <1>2, <2>1 DEF AdminLogComplete
  <2> QED
    BY <1>1, <1>2, <2>1 DEF AdminLogComplete
<1>11. Watching'
  BY <1>2, <1>3 DEF Watching, WatchedFromStart
<1>12. InHand'
  BY <1>2, <1>3 DEF InHand
<1> QED
  BY <1>4, <1>5, <1>6, <1>7, <1>8, <1>9, <1>10, <1>11, <1>12 DEF IndInv

\* A request or the poller that runs shows that the server is past its start.
LEMMA Running ==
    ASSUME TypeOK, Startup, NEW g \in Requests \cup {Poller}, pc[g] \notin {"idle", "off"}
    PROVE  /\ pc[Main] \in {"cookie", "cookieWrite", "listening"}
           /\ listeners = Registered /\ starts # 0
  BY DEF Startup

\* A step of a request or of the poller preserves what is said of the start
\* and of a load, when it leaves the rows alone and does not begin a load.
LEMMA RunningPreserves ==
    ASSUME TypeOK, Startup, Loading, NEW g \in Requests \cup {Poller}, NEW from, NEW to,
           Step(g, from, to), from \notin {"idle", "off", "fetch", "create"},
           to \notin {"off", "fetch", "create"},
           g \in Requests /\ to \in InvoiceSteps =>
               from \in InvoiceSteps,
           UNCHANGED <<listeners, starts, rows, loaded, toCreate>>,
           mutex' = mutex \/ mutex \in {Nobody, g}
    PROVE  Startup' /\ Loading'
<1>1. g \in Goroutines /\ g # Main /\ g \notin Listeners
  BY Distinct
<1>2. /\ pc[g] = from /\ pc'[g] = to /\ DOMAIN pc' = Goroutines
      /\ \A h \in Goroutines : h # g => pc'[h] = pc[h]
  BY <1>1, StepOf
<1>3. /\ pc[Main] \in {"cookie", "cookieWrite", "listening"}
      /\ listeners = Registered /\ starts # 0
  BY <1>2, Running
<1>4. pc'[Main] = pc[Main]
  BY <1>1, <1>2, Distinct
<1>5. pc[Main] # "listening" => \A r \in Requests : pc'[r] = "idle"
  <2>1. SUFFICES ASSUME pc[Main] # "listening", NEW r \in Requests PROVE pc'[r] = "idle"
    OBVIOUS
  <2>2. pc[r] = "idle"
    BY <2>1 DEF Startup
  <2> QED
    BY <2>2, <1>2, Distinct
<1>6. Startup'
  BY <1>3, <1>4, <1>5 DEF Startup
<1>7. ASSUME NEW h \in Loaders, pc'[h] \in {"fetch", "create"}
      PROVE  mutex' = h /\ (pc'[h] = "create" => Tokens \subseteq rows \cup toCreate)
  <2>1. h # g /\ h \in Goroutines /\ h # Nobody
    BY <1>2, <1>7, Distinct DEF Loaders
  <2>2. pc'[h] = pc[h]
    BY <2>1, <1>2
  <2>3. mutex = h
    BY <2>2, <1>7 DEF Loading
  <2> QED
    BY <2>1, <2>2, <2>3, <1>7 DEF Loading
<1>8. \A r \in Requests : pc'[r] \in InvoiceSteps => loaded
  BY <1>2, Distinct DEF Loading
<1> QED
  BY <1>6, <1>7, <1>8 DEF Loading

\* A request or the poller fires an event.
LEMMA FirePreserves ==
    ASSUME IndInv, NEW g \in Requests \cup {Poller}, NEW type \in Types,
           NEW decision \in 0..MaxEvents, FireEvent(g, type, decision), UNCHANGED inventoryVars,
           UNCHANGED <<keyVars, starts, decided, unsaved, cutOff>>,
           inHand' \in [Requests -> 0..decided],
           \A r \in Requests : inHand'[r] = IF r = g THEN 0 ELSE inHand[r],
           g \in Requests => decision = inHand[g],
           decision # 0 => type = "statusChange"
    PROVE  IndInv'
<1> DEFINE e == [n |-> Cardinality(fired) + 1, type |-> type, decision |-> decision]
<1>1. /\ TypeOK /\ Startup /\ Loading /\ Keys /\ AdminLogComplete /\ Watching /\ Numbered
      /\ Listening /\ InHand
  BY DEF IndInv
<1>2. /\ Cardinality(fired) < MaxEvents /\ mutex = Nobody /\ mutex' = g
      /\ Step(g, "fire", "fired")
      /\ fired' = fired \cup {e} /\ deliveries' = deliveries \cup DeliveriesOf(e)
      /\ listeners' = listeners /\ inbox' = inbox
      /\ adminLog' = adminLog /\ handled' = handled /\ unlogged' = unlogged
  BY DEF FireEvent, Lock, LockIsFree
<1>3. /\ rows' = rows /\ loaded' = loaded /\ toCreate' = toCreate /\ watched' = watched
      /\ found' = found /\ paid' = paid /\ halfLoaded' = halfLoaded /\ early' = early
      /\ starts' = starts /\ keyFile' = keyFile /\ torn' = torn
      /\ decided' = decided /\ unsaved' = unsaved /\ cutOff' = cutOff
  BY DEF inventoryVars
<1>4. g \in Goroutines /\ g # Main /\ g \notin Listeners
  BY Distinct
<1>5. /\ pc[g] = "fire" /\ pc'[g] = "fired" /\ DOMAIN pc' = Goroutines
      /\ \A h \in Goroutines : h # g => pc'[h] = pc[h]
  BY <1>1, <1>2, <1>4, StepOf
<1>6. pc'[Main] = pc[Main] /\ \A l \in Listeners : pc'[l] = pc[l]
  BY <1>4, <1>5, Distinct
<1>7. Cardinality(fired) \in Nat /\ Cardinality(fired) <= MaxEvents
  BY <1>1, FS_CardinalityType DEF Numbered
<1>8. e \in Event /\ e.n = Cardinality(fired) + 1 /\ e.type = type /\ e.decision = decision
  BY <1>2, <1>7, EventsAssumption DEF Event
<1>9. e \notin fired
  BY <1>1, <1>7, <1>8 DEF Numbered, Event
<1>10. e # NoEvent
  BY <1>7, <1>8 DEF NoEvent
<1> HIDE DEF e
<1>11. DeliveriesOf(e) \subseteq {e} \X Listeners
  BY <1>1 DEF DeliveriesOf, TypeOK
<1>12. listeners = Registered
  BY <1>1, <1>5, Running
<1>13. type = "statusChange" => <<e, "statusLog">> \in DeliveriesOf(e)
  BY <1>8, <1>12 DEF DeliveriesOf, Registered, ListensTo, Listeners
<1>14. TypeOK'
  <2>1. pc'[Main] \in MainSteps /\ pc'[Poller] \in PollerSteps
    BY <1>1, <1>4, <1>5, Distinct DEF TypeOK, PollerSteps
  <2>2. \A r \in Requests : pc'[r] \in RequestSteps
    BY <1>1, <1>4, <1>5, Distinct DEF TypeOK, RequestSteps
  <2>3. \A l \in Listeners : pc'[l] \in ListenerSteps
    BY <1>1, <1>6 DEF TypeOK
  <2>4. mutex' \in Goroutines \cup {Nobody}
    BY <1>2, <1>4
  <2>5. fired' \subseteq Event
    BY <1>1, <1>2, <1>8 DEF TypeOK
  <2>6. deliveries' \subseteq fired' \X Listeners
    BY <1>1, <1>2, <1>11 DEF TypeOK
  <2>7. /\ inbox' \in [Listeners -> fired' \cup {NoEvent}]
        /\ handled' \in [Listeners -> SUBSET fired']
    BY <1>1, <1>2 DEF TypeOK
  <2>8. {adminLog', unlogged'} \subseteq SUBSET fired'
    BY <1>1, <1>2 DEF TypeOK
  <2> QED
    BY <2>1, <2>2, <2>3, <2>4, <2>5, <2>6, <2>7, <2>8, <1>1, <1>2, <1>3, <1>5 DEF TypeOK
<1>15. Startup' /\ Loading'
  BY <1>1, <1>2, <1>3, <1>5, RunningPreserves
<1>17. Keys'
  BY <1>1, <1>3, <1>6 DEF Keys
<1>18. Numbered'
  <2>1. IsFiniteSet(fired \cup {e}) /\ Cardinality(fired \cup {e}) = Cardinality(fired) + 1
    BY <1>1, <1>9, FS_AddElement DEF Numbered
  <2>2. \A f \in fired : f.n <= Cardinality(fired) /\ f.n \in Nat
    BY <1>1 DEF Numbered, Event
  <2>3. \A f \in fired \cup {e} : f.n <= Cardinality(fired) + 1
    BY <2>2, <1>7, <1>8
  <2> QED
    <3>1. Cardinality(fired') = Cardinality(fired) + 1 /\ IsFiniteSet(fired')
      BY <2>1, <1>2
    <3>2. Cardinality(fired') <= MaxEvents
      BY <3>1, <1>2, <1>7, EventsAssumption
    <3>3. \A f \in fired' : f.n <= Cardinality(fired')
      BY <2>3, <3>1, <1>2
    <3>4. fired' \subseteq Event
      BY <1>14 DEF TypeOK
    <3> QED
      BY <3>1, <3>2, <3>3, <3>4 DEF Numbered
<1>19. Listening'
  <2>1. \A l \in Listeners : inbox[l] # e
    BY <1>1, <1>9, <1>10 DEF TypeOK
  <2>2. \A l \in Listeners : <<inbox[l], l>> \notin deliveries'
    BY <2>1, <1>1, <1>2, <1>11 DEF Listening
  <2> QED
    BY <2>2, <1>1, <1>2, <1>6 DEF Listening
<1>20. AdminLogComplete'
  <2>1. ASSUME NEW f \in fired, f \in Pending["statusLog"]
        PROVE  f \in Pending'["statusLog"]
    BY <2>1, <1>2, Distinct DEF Pending
  <2>2. decision # 0 => e \in Pending'["statusLog"]
    BY <1>2, <1>13, Distinct DEF Pending
  <2>3. Pending["statusLog"] \subseteq fired \cup {NoEvent} /\ NoEvent \notin Pending["statusLog"]
    BY <1>1, NoEventFired, Distinct DEF Pending, TypeOK
  <2>4. ASSUME NEW d \in 1..decided, OnItsWay(d)
        PROVE  OnItsWay(d)'
    <3>1. ASSUME NEW r \in Requests, inHand[r] = d
          PROVE  inHand'[r] = d \/ \E f \in Pending'["statusLog"] : f.decision = d
      <4>1. d # 0 /\ d \in Nat
        OBVIOUS
      <4>2. CASE r # g
        BY <3>1, <4>2
      <4>3. CASE r = g
        BY <3>1, <4>1, <4>3, <2>2, <1>8
      <4> QED
        BY <3>1, <4>1, <4>2, <4>3
    <3>2. ASSUME NEW f \in Pending["statusLog"], f.decision = d
          PROVE  f \in Pending'["statusLog"]
      BY <3>2, <2>1, <2>3
    <3> QED
      BY <2>4, <3>1, <3>2 DEF OnItsWay
  <2> QED
    BY <2>4, <1>1, <1>2, <1>3 DEF AdminLogComplete
<1>21. Watching'
  BY <1>1, <1>3, <1>6 DEF Watching, WatchedFromStart
<1>22. InHand'
  BY <1>1, <1>5, Distinct DEF InHand
<1> QED
  BY <1>14, <1>15, <1>17, <1>18, <1>19, <1>20, <1>21, <1>22 DEF IndInv

\* A request announces its decision, or an edit.
LEMMA FireStatusPreserves ==
    ASSUME IndInv, NEW r \in Requests, FireStatusChange(r)
    PROVE  IndInv'
<1>1. /\ FireEvent(r, "statusChange", inHand[r]) /\ inHand' = [inHand EXCEPT ![r] = 0]
      /\ UNCHANGED inventoryVars /\ UNCHANGED <<keyVars, starts, decided, unsaved, cutOff>>
  BY DEF FireStatusChange
<1>2. /\ inHand \in [Requests -> 0..decided] /\ decided \in 0..MaxDecisions
      /\ MaxDecisions \in 0..MaxEvents /\ MaxEvents \in Nat
  BY ServerAssumption, EventsAssumption DEF IndInv, TypeOK
<1>3. inHand[r] \in 0..MaxEvents /\ inHand' \in [Requests -> 0..decided]
  BY <1>1, <1>2
<1>4. \A q \in Requests : inHand'[q] = IF q = r THEN 0 ELSE inHand[q]
  BY <1>1, <1>2
<1>5. PICK d \in 0..MaxEvents : d = inHand[r]
  BY <1>3
<1>6. FireEvent(r, "statusChange", d)
  BY <1>1, <1>5
<1> QED
  BY <1>1, <1>3, <1>4, <1>5, <1>6, FirePreserves DEF Types

\* politeiad accepts a decision, or its handler fails after that.
LEMMA DecisionPreserves ==
    ASSUME IndInv, NEW r \in Requests, AcceptDecision(r) \/ LoseDecision(r)
    PROVE  IndInv'
<1>1. /\ TypeOK /\ Startup /\ Loading /\ Keys /\ Numbered /\ Listening /\ AdminLogComplete
      /\ Watching /\ InHand
  BY DEF IndInv
<1>2. PICK from, to : /\ Step(r, from, to)
                      /\ from \in {"handle", "accepted"} /\ to \in {"accepted", "idle"}
  BY DEF AcceptDecision, LoseDecision
<1>3. UNCHANGED eventVars /\ UNCHANGED inventoryVars /\ mutex' = mutex
      /\ starts' = starts /\ keyFile' = keyFile /\ torn' = torn /\ cutOff' = cutOff
  BY DEF AcceptDecision, LoseDecision
<1>4. /\ rows' = rows /\ loaded' = loaded /\ toCreate' = toCreate /\ watched' = watched
      /\ found' = found /\ paid' = paid /\ halfLoaded' = halfLoaded /\ early' = early
      /\ listeners' = listeners /\ fired' = fired /\ deliveries' = deliveries /\ inbox' = inbox
      /\ adminLog' = adminLog /\ handled' = handled /\ unlogged' = unlogged
  BY <1>3 DEF eventVars, inventoryVars
<1>5. r \in Goroutines /\ r # Main /\ r # Poller /\ r \notin Listeners
  BY Distinct
<1>6. /\ pc'[r] = to /\ DOMAIN pc' = Goroutines
      /\ \A h \in Goroutines : h # r => pc'[h] = pc[h]
  BY <1>1, <1>2, <1>5, StepOf
<1>7. pc'[Main] = pc[Main] /\ pc'[Poller] = pc[Poller] /\ \A l \in Listeners : pc'[l] = pc[l]
  BY <1>5, <1>6, Distinct
<1>8. decided \in 0..MaxDecisions /\ inHand \in [Requests -> 0..decided] /\ MaxDecisions \in Nat
      /\ unsaved \subseteq 1..decided /\ cutOff \subseteq 1..decided
  BY <1>1, ServerAssumption, EventsAssumption DEF TypeOK
<1>9. Pending' = Pending
  BY <1>4 DEF Pending
<1>10. pc[r] = from
  BY <1>1, <1>2, <1>5, StepOf
<1>12. \A q \in Requests : q # r => pc'[q] = pc[q]
  BY <1>6, Distinct
<1>11. ASSUME AcceptDecision(r)
      PROVE  /\ decided' \in 0..MaxDecisions /\ inHand' \in [Requests -> 0..decided']
             /\ {unsaved', cutOff'} \subseteq SUBSET (1..decided')
             /\ AdminLogComplete' /\ InHand'
  <2>1. /\ decided < MaxDecisions /\ decided' = decided + 1 /\ unsaved' = unsaved
        /\ inHand' = [inHand EXCEPT ![r] = decided + 1]
        /\ pc[r] = "handle" /\ pc'[r] = "accepted"
    BY <1>11, <1>1, <1>5, StepOf DEF AcceptDecision
  <2>2. inHand[r] = 0
    BY <2>1, <1>1 DEF InHand
  <2>3. decided \in Nat /\ decided' \in 0..MaxDecisions /\ 0..decided \subseteq 0..decided'
        /\ 1..decided \subseteq 1..decided'
    BY <2>1, <1>8
  <2>4. inHand' \in [Requests -> 0..decided'] /\ {unsaved', cutOff'} \subseteq SUBSET (1..decided')
    BY <2>1, <2>3, <1>3, <1>8
  <2>5. inHand'[r] = decided' /\ \A q \in Requests : q # r => inHand'[q] = inHand[q]
    BY <2>1, <1>8
  <2>6. ASSUME NEW d \in 1..decided, OnItsWay(d)
        PROVE  OnItsWay(d)'
    <3>1. d # 0
      OBVIOUS
    <3>2. CASE \E q \in Requests : inHand[q] = d
      BY <3>1, <3>2, <2>2, <2>5 DEF OnItsWay
    <3>3. CASE \E e \in Pending["statusLog"] : e.decision = d
      BY <3>3, <1>9 DEF OnItsWay
    <3> QED
      BY <2>6, <3>2, <3>3 DEF OnItsWay
  <2>7. ASSUME NEW d \in 1..decided', d = decided + 1
        PROVE  OnItsWay(d)'
    BY <2>7, <2>1, <2>5 DEF OnItsWay
  <2>8. AdminLogComplete'
    <3>1. SUFFICES ASSUME NEW d \in 1..decided'
                   PROVE  \/ \E e \in adminLog \cup unlogged : e.decision = d
                          \/ OnItsWay(d)'
                          \/ d \in unsaved \cup cutOff
      BY <1>1, <1>3, <1>4, <2>1 DEF AdminLogComplete
    <3>2. CASE d = decided + 1
      BY <3>2, <2>7
    <3>3. CASE d # decided + 1
      <4>1. d \in 1..decided
        BY <3>3, <2>1, <2>3
      <4> QED
        BY <4>1, <2>6, <1>1 DEF AdminLogComplete
    <3> QED
      BY <3>2, <3>3
  <2>9. InHand'
    BY <2>1, <2>3, <2>5, <1>1, <1>6, <1>12, Distinct DEF InHand
  <2> QED
    BY <2>3, <2>4, <2>8, <2>9
<1>13. ASSUME LoseDecision(r)
      PROVE  /\ decided' \in 0..MaxDecisions /\ inHand' \in [Requests -> 0..decided']
             /\ {unsaved', cutOff'} \subseteq SUBSET (1..decided')
             /\ AdminLogComplete' /\ InHand'
  <2>1. /\ decided' = decided /\ inHand' = [inHand EXCEPT ![r] = 0]
        /\ unsaved' = unsaved \cup {inHand[r]}
        /\ pc[r] = "accepted" /\ pc'[r] = "idle"
    BY <1>13, <1>1, <1>5, StepOf DEF LoseDecision
  <2>2. inHand[r] \in 1..decided
    BY <2>1, <1>1, <1>8 DEF InHand
  <2>3. decided' \in 0..MaxDecisions
    BY <2>1, <1>8
  <2>4. inHand' \in [Requests -> 0..decided'] /\ {unsaved', cutOff'} \subseteq SUBSET (1..decided')
    <3>1. unsaved' \subseteq 1..decided /\ cutOff' \subseteq 1..decided
      BY <2>1, <2>2, <1>3, <1>8
    <3>2. inHand' \in [Requests -> 0..decided]
      BY <2>1, <1>8
    <3> QED
      BY <3>1, <3>2, <2>1
  <2>5. inHand'[r] = 0 /\ \A q \in Requests : q # r => inHand'[q] = inHand[q]
    BY <2>1, <1>8
  <2>6. ASSUME NEW d \in 1..decided, OnItsWay(d)
        PROVE  OnItsWay(d)' \/ d \in unsaved'
    BY <2>1, <2>5, <2>6, <1>9 DEF OnItsWay
  <2>7. AdminLogComplete'
    BY <2>1, <2>6, <1>1, <1>3, <1>4 DEF AdminLogComplete
  <2>8. InHand'
    BY <2>1, <2>5, <1>1, <1>6, <1>12, Distinct DEF InHand
  <2> QED
    BY <2>3, <2>4, <2>7, <2>8
<1>14. /\ decided' \in 0..MaxDecisions /\ inHand' \in [Requests -> 0..decided']
       /\ {unsaved', cutOff'} \subseteq SUBSET (1..decided')
       /\ AdminLogComplete' /\ InHand'
  BY <1>11, <1>13
<1>15. TypeOK'
  <2>1. to \in RequestSteps
    BY <1>2 DEF RequestSteps
  <2>2. \A q \in Requests : pc'[q] \in RequestSteps
    BY <2>1, <1>1, <1>6, <1>12 DEF TypeOK
  <2> QED
    BY <2>2, <1>14, <1>1, <1>3, <1>4, <1>6, <1>7 DEF TypeOK
<1>16. Startup' /\ Loading'
  <2>1. UNCHANGED <<listeners, starts, rows, loaded, toCreate>>
    BY <1>3, <1>4
  <2>2. /\ from \notin {"idle", "off", "fetch", "create"} /\ to \notin {"off", "fetch", "create"}
        /\ from \in InvoiceSteps
    BY <1>2
  <2> QED
    BY <2>1, <2>2, <1>1, <1>2, <1>3, RunningPreserves
<1>17. Keys' /\ Watching'
  BY <1>1, <1>3, <1>4, <1>7 DEF Keys, Watching, WatchedFromStart
<1>18. Numbered' /\ Listening'
  BY <1>1, <1>3, <1>7, EventsKept
<1> QED
  BY <1>14, <1>15, <1>16, <1>17, <1>18 DEF IndInv

\* A request or the poller goes on with the map of polled payments.
LEMMA PollingPreserves ==
    ASSUME IndInv, NEW g \in Requests \cup {Poller}, NEW from, NEW to,
           Step(g, from, to), from \notin {"idle", "off", "fetch", "create"},
           IF g = Poller THEN to \in PollerSteps \ {"off"} ELSE from = "poll" /\ to = "idle",
           UNCHANGED eventVars, UNCHANGED serverVars,
           UNCHANGED <<rows, loaded, toCreate, halfLoaded, early>>,
           mutex' = mutex \/ (mutex = g /\ mutex' = Nobody),
           {watched', found', paid'} \subseteq SUBSET Approved,
           paid \subseteq paid', found' \subseteq paid', watched \ watched' \subseteq paid'
    PROVE  IndInv'
<1>1. /\ TypeOK /\ Startup /\ Loading /\ Keys /\ AdminLogComplete /\ Watching
  BY DEF IndInv
<1>2. /\ pc[g] = from /\ pc'[g] = to /\ DOMAIN pc' = Goroutines
      /\ \A h \in Goroutines : h # g => pc'[h] = pc[h]
      /\ pc'[Main] = pc[Main] /\ g \in Goroutines
      /\ Keys' /\ Numbered' /\ Listening' /\ AdminLogComplete' /\ InHand'
  BY BesideMain, Distinct
<1>3. /\ listeners' = listeners /\ fired' = fired /\ deliveries' = deliveries /\ inbox' = inbox
      /\ adminLog' = adminLog /\ handled' = handled /\ unlogged' = unlogged
      /\ starts' = starts /\ keyFile' = keyFile /\ torn' = torn
      /\ UNCHANGED decisionVars
  BY DEF eventVars, serverVars
<1>4. TypeOK'
  <2>1. pc'[Poller] \in PollerSteps
    BY <1>1, <1>2, Distinct DEF TypeOK
  <2>2. \A r \in Requests : pc'[r] \in RequestSteps
    BY <1>1, <1>2, Distinct DEF TypeOK, RequestSteps
  <2>3. \A l \in Listeners : pc'[l] \in ListenerSteps
    BY <1>1, <1>2, Distinct DEF TypeOK
  <2> QED
    BY <2>1, <2>2, <2>3, <1>1, <1>2, <1>3 DEF TypeOK
<1>5. to \notin {"off", "fetch", "create"}
  BY DEF PollerSteps
<1>6. g \in Requests => to = "idle"
  BY Distinct
<1>7. Startup' /\ Loading'
  <2>1. UNCHANGED <<listeners, starts, rows, loaded, toCreate>>
    BY <1>3
  <2> QED
    BY <2>1, <1>1, <1>5, <1>6, RunningPreserves
<1>8. Watching'
  BY <1>1, <1>2 DEF Watching, WatchedFromStart
<1> QED
  BY <1>2, <1>4, <1>7, <1>8 DEF IndInv

\* A request adds a payment to the map.
LEMMA PollPaymentPreserves ==
    ASSUME IndInv, NEW r \in Requests, PollPayment(r)
    PROVE  IndInv'
<1>1. PICK t \in Approved \cap rows : AddForPolling(r, t, "idle")
  BY DEF PollPayment
<1>2. /\ Step(r, "poll", "idle") /\ watched' = watched \cup {t} /\ found' = found
      /\ paid' = paid /\ mutex' = mutex /\ UNCHANGED <<rows, loaded, toCreate, halfLoaded, early>>
      /\ UNCHANGED eventVars /\ UNCHANGED serverVars
  BY <1>1 DEF AddForPolling, PollPayment
<1>3. {watched, found, paid} \subseteq SUBSET Approved /\ found \subseteq paid
  BY DEF IndInv, TypeOK, Watching
<1>4. r # Poller
  BY Distinct
<1> QED
  BY <1>1, <1>2, <1>3, <1>4, PollingPreserves

\* A step of the poller.
LEMMA PollerPreserves ==
    ASSUME IndInv, PollerStep
    PROVE  IndInv'
<1>1. {watched, found, paid} \subseteq SUBSET Approved /\ found \subseteq paid
  BY DEF IndInv, TypeOK, Watching
<1>2. CASE PollSnapshot /\ UNCHANGED <<eventVars, serverVars>>
  <2>1. /\ Step(Poller, "snapshot", "check") /\ watched' = watched /\ found' = found
        /\ paid' = paid /\ mutex' = mutex /\ UNCHANGED <<rows, loaded, toCreate, halfLoaded, early>>
    BY <1>2 DEF PollSnapshot, inventoryVars
  <2> QED
    BY <2>1, <1>1, <1>2, PollingPreserves DEF PollerSteps
<1>3. CASE PollEnds /\ UNCHANGED <<eventVars, serverVars>>
  <2>1. /\ Step(Poller, "check", "remove") /\ watched' = watched
        /\ found' = found \cup (watched \cap paid)
        /\ paid' = paid /\ mutex' = mutex /\ UNCHANGED <<rows, loaded, toCreate, halfLoaded, early>>
    BY <1>3 DEF PollEnds
  <2> QED
    BY <2>1, <1>1, <1>3, PollingPreserves DEF PollerSteps
<1>4. CASE PollRemoves /\ UNCHANGED <<eventVars, serverVars>>
  <2>1. /\ Step(Poller, "remove", "snapshot") /\ watched' = watched \ found /\ found' = {}
        /\ paid' = paid /\ mutex' = mutex /\ UNCHANGED <<rows, loaded, toCreate, halfLoaded, early>>
    BY <1>4 DEF PollRemoves
  <2> QED
    BY <2>1, <1>1, <1>4, PollingPreserves DEF PollerSteps
<1>5. ASSUME NEW t \in Approved, PollFinds(t), UNCHANGED <<eventVars, serverVars>>
      PROVE  IndInv'
  <2>1. /\ Step(Poller, "check", "fire") /\ watched' = watched /\ found' = found \cup {t}
        /\ paid' = paid \cup {t} /\ mutex' = mutex
        /\ UNCHANGED <<rows, loaded, toCreate, halfLoaded>>
    BY <1>5 DEF PollFinds
  <2>2. early' = early
    BY <1>5 DEF PollFinds
  <2> QED
    BY <2>1, <2>2, <1>1, <1>5, PollingPreserves DEF PollerSteps
<1>6. CASE FireEvent(Poller, "paid", 0) /\ UNCHANGED <<inventoryVars, serverVars>>
  <2>1. 0 \in 0..MaxEvents /\ "paid" \in Types /\ UNCHANGED inventoryVars
    BY <1>6, EventsAssumption DEF Types
  <2>2. inHand' = inHand /\ UNCHANGED <<keyVars, starts, decided, unsaved, cutOff>>
    BY <1>6 DEF serverVars
  <2>3. inHand' \in [Requests -> 0..decided] /\ \A r \in Requests : r # Poller
    BY <2>2, Distinct DEF IndInv, TypeOK
  <2> QED
    BY <2>1, <2>2, <2>3, <1>6, FirePreserves
<1>7. CASE FireEventReturns(Poller, "check") /\ UNCHANGED <<inventoryVars, serverVars>>
  <2>1. /\ Step(Poller, "fired", "check") /\ watched' = watched /\ found' = found
        /\ paid' = paid /\ mutex = Poller /\ mutex' = Nobody
        /\ UNCHANGED <<rows, loaded, toCreate, halfLoaded, early>> /\ UNCHANGED eventVars
    BY <1>7 DEF FireEventReturns, Unlock, inventoryVars
  <2> QED
    BY <2>1, <1>1, <1>7, PollingPreserves DEF PollerSteps
<1> QED
  BY <1>2, <1>3, <1>4, <1>5, <1>6, <1>7 DEF PollerStep

-----------------------------------------------------------------------------
(* Listeners *)

\* A step of a listener concerns the events only.
LEMMA ListenerAlone ==
    ASSUME IndInv, NEW l \in Listeners, UNCHANGED inventoryVars, UNCHANGED serverVars,
           DOMAIN pc' = Goroutines, pc[l] # "off",
           pc'[l] \in {"receive", "received", "write"},
           \A h \in Goroutines : h # l => pc'[h] = pc[h],
           mutex' = mutex \/ (mutex = Nobody /\ mutex' = l) \/ (mutex = l /\ mutex' = Nobody),
           listeners' = listeners, fired' = fired, deliveries' \subseteq deliveries,
           inbox' \in [Listeners -> fired \cup {NoEvent}],
           {adminLog', unlogged'} \subseteq SUBSET fired,
           handled' \in [Listeners -> SUBSET fired]
    PROVE  TypeOK' /\ Startup' /\ Loading' /\ Keys' /\ Numbered' /\ Watching' /\ InHand'
<1>1. /\ TypeOK /\ Startup /\ Loading /\ Keys /\ Watching /\ Numbered /\ InHand
  BY DEF IndInv
<1>2. /\ pc'[Main] = pc[Main] /\ pc'[Poller] = pc[Poller]
      /\ \A r \in Requests : pc'[r] = pc[r]
  BY Distinct
<1>3. /\ rows' = rows /\ loaded' = loaded /\ toCreate' = toCreate /\ watched' = watched
      /\ found' = found /\ paid' = paid /\ halfLoaded' = halfLoaded /\ early' = early
      /\ starts' = starts /\ keyFile' = keyFile /\ torn' = torn
      /\ UNCHANGED decisionVars
  BY DEF inventoryVars, serverVars
<1>4. \A k \in Listeners : pc'[k] \in ListenerSteps
  BY <1>1, Distinct DEF TypeOK, ListenerSteps
<1>5. mutex' \in Goroutines \cup {Nobody}
  BY <1>1, Distinct DEF TypeOK
<1>6. TypeOK'
  BY <1>1, <1>2, <1>3, <1>4, <1>5 DEF TypeOK
<1>7. pc[Main] \notin {"down", "tables", "events"}
  BY <1>1 DEF Startup
<1>8. Startup'
  BY <1>1, <1>2, <1>3, <1>7 DEF Startup
<1>9. Loading'
  <2>1. l \notin Loaders /\ Nobody \notin Loaders
    BY Distinct DEF Loaders
  <2> QED
    BY <2>1, <1>1, <1>2, <1>3 DEF Loading, Loaders
<1>10. Keys'
  BY <1>1, <1>2, <1>3 DEF Keys
<1>11. Numbered'
  BY <1>1 DEF Numbered
<1>12. Watching'
  BY <1>1, <1>2, <1>3 DEF Watching, WatchedFromStart
<1>13. InHand'
  BY <1>1, <1>2, <1>3, InHandKept
<1> QED
  BY <1>6, <1>8, <1>9, <1>10, <1>11, <1>12, <1>13

\* What a listener does to the log leaves no decision behind.
LEMMA LogGoesOn ==
    ASSUME AdminLogComplete, UNCHANGED serverVars,
           adminLog \cup unlogged \subseteq adminLog' \cup unlogged',
           \A e \in adminLog' \ adminLog : e.decision # 0,
           \A e \in Pending["statusLog"] : e.decision # 0 =>
               e \in Pending'["statusLog"] \cup adminLog' \cup unlogged'
    PROVE  AdminLogComplete'
<1>1. UNCHANGED decisionVars
  BY DEF serverVars
<1>2. ASSUME NEW d \in 1..decided, OnItsWay(d)
      PROVE  OnItsWay(d)' \/ \E e \in adminLog' \cup unlogged' : e.decision = d
  BY <1>1, <1>2 DEF OnItsWay
<1> QED
  BY <1>1, <1>2 DEF AdminLogComplete

\* The log's listener takes an event.
LEMMA ReceivePreserves ==
    ASSUME IndInv, NEW l \in Listeners, NEW e \in fired, Receive(l, e),
           UNCHANGED inventoryVars, UNCHANGED serverVars
    PROVE  IndInv'
<1>1. TypeOK /\ Numbered /\ Listening /\ AdminLogComplete
  BY DEF IndInv
<1>2. /\ l = "statusLog" /\ <<e, l>> \in deliveries /\ Step(l, "receive", "received")
      /\ deliveries' = deliveries \ {<<e, l>>} /\ inbox' = [inbox EXCEPT ![l] = e]
      /\ mutex' = mutex /\ listeners' = listeners /\ adminLog' = adminLog /\ fired' = fired
      /\ handled' = handled /\ unlogged' = unlogged
  BY DEF Receive
<1>3. /\ pc[l] = "receive" /\ pc'[l] = "received" /\ DOMAIN pc' = Goroutines
      /\ \A h \in Goroutines : h # l => pc'[h] = pc[h]
  BY <1>1, <1>2, StepOf, Distinct
<1>4. inbox' \in [Listeners -> fired \cup {NoEvent}] /\ inbox'[l] = e
      /\ \A k \in Listeners : k # l => inbox'[k] = inbox[k]
  BY <1>1, <1>2 DEF TypeOK
<1>5. TypeOK' /\ Startup' /\ Loading' /\ Keys' /\ Numbered' /\ Watching' /\ InHand'
  <2>1. {adminLog', unlogged'} \subseteq SUBSET fired /\ handled' \in [Listeners -> SUBSET fired]
    BY <1>1, <1>2 DEF TypeOK
  <2> QED
    BY <2>1, <1>2, <1>3, <1>4, ListenerAlone
<1>6. Listening'
  <2>1. e # NoEvent
    BY <1>1, NoEventFired
  <2>2. ASSUME NEW k \in Listeners, k # l
        PROVE  pc'[k] = pc[k] /\ inbox'[k] = inbox[k] /\ <<inbox[k], k>> \notin deliveries
    BY <2>2, <1>1, <1>3, <1>4, Distinct DEF Listening
  <2> QED
    BY <2>1, <2>2, <1>1, <1>2, <1>3, <1>4 DEF Listening
<1>7. AdminLogComplete'
  <2>1. inbox["statusLog"] = NoEvent
    BY <1>1, <1>2, <1>3 DEF Listening
  <2>2. \A f \in Pending["statusLog"] : f \in Pending'["statusLog"]
    <3>1. SUFFICES ASSUME NEW f \in Pending["statusLog"]
                   PROVE  f \in Pending'["statusLog"]
      OBVIOUS
    <3>2. f \in fired /\ <<f, "statusLog">> \in deliveries
      BY <3>1, <2>1, Distinct DEF Pending
    <3>3. f = e \/ <<f, "statusLog">> \in deliveries'
      BY <3>2, <1>2
    <3>4. e # NoEvent
      BY <1>1, NoEventFired
    <3> QED
      BY <3>2, <3>3, <3>4, <1>2, <1>4, Distinct DEF Pending
  <2> QED
    BY <2>2, <1>1, <1>2, LogGoesOn
<1> QED
  BY <1>5, <1>6, <1>7 DEF IndInv

\* A listener for mails has an event.
LEMMA MailPreserves ==
    ASSUME IndInv, NEW l \in Listeners, NEW e \in fired, l # "statusLog", EmailNotification(l, e),
           UNCHANGED inventoryVars, UNCHANGED serverVars
    PROVE  IndInv'
<1>1. TypeOK /\ Numbered /\ Listening /\ AdminLogComplete
  BY DEF IndInv
<1>2. /\ pc[l] = "receive" /\ deliveries' = deliveries \ {<<e, l>>} /\ pc' = pc
      /\ handled' = [handled EXCEPT ![l] = @ \cup {e}] /\ inbox' = inbox
      /\ mutex' = mutex /\ listeners' = listeners /\ adminLog' = adminLog /\ fired' = fired
      /\ unlogged' = unlogged
  BY DEF EmailNotification
<1>3. TypeOK' /\ Startup' /\ Loading' /\ Keys' /\ Numbered' /\ Watching' /\ InHand'
  <2>1. /\ {adminLog', unlogged'} \subseteq SUBSET fired
        /\ handled' \in [Listeners -> SUBSET fired]
        /\ inbox' \in [Listeners -> fired \cup {NoEvent}]
        /\ DOMAIN pc' = Goroutines
    BY <1>1, <1>2 DEF TypeOK
  <2> QED
    BY <2>1, <1>2, ListenerAlone
<1>4. Listening'
  BY <1>1, <1>2 DEF Listening
<1>5. AdminLogComplete'
  <2>1. Pending'["statusLog"] = Pending["statusLog"]
    BY <1>2, Distinct DEF Pending
  <2> QED
    BY <2>1, <1>1, <1>2, LogGoesOn
<1> QED
  BY <1>3, <1>4, <1>5 DEF IndInv

\* The log's listener is done with its event.
LEMMA HandledPreserves ==
    ASSUME IndInv, NEW l \in Listeners, Handled(l), NEW from \in {"received", "write"},
           Step(l, from, "receive"), UNCHANGED <<listeners, deliveries, fired>>,
           mutex' = mutex \/ (mutex = l /\ mutex' = Nobody),
           {adminLog', unlogged'} \subseteq SUBSET fired,
           adminLog \cup unlogged \subseteq adminLog' \cup unlogged',
           \A e \in adminLog' \ adminLog : e.decision # 0,
           inbox[l].decision # 0 => inbox[l] \in adminLog' \cup unlogged',
           UNCHANGED inventoryVars, UNCHANGED serverVars
    PROVE  IndInv'
<1>1. TypeOK /\ Numbered /\ Listening /\ AdminLogComplete
  BY DEF IndInv
<1>2. /\ pc[l] = from /\ pc'[l] = "receive" /\ DOMAIN pc' = Goroutines
      /\ \A h \in Goroutines : h # l => pc'[h] = pc[h]
  BY <1>1, StepOf, Distinct
<1>3. l = "statusLog" /\ inbox[l] # NoEvent /\ inbox[l] \in fired
  BY <1>1, <1>2 DEF Listening, TypeOK
<1>4. /\ inbox'[l] = NoEvent /\ inbox' \in [Listeners -> fired \cup {NoEvent}]
      /\ \A k \in Listeners : k # l => inbox'[k] = inbox[k]
      /\ handled' \in [Listeners -> SUBSET fired]
  BY <1>1, <1>3 DEF Handled, TypeOK
<1>5. TypeOK' /\ Startup' /\ Loading' /\ Keys' /\ Numbered' /\ Watching' /\ InHand'
  BY <1>2, <1>4, ListenerAlone
<1>6. Listening'
  <2>1. \A k \in Listeners : <<NoEvent, k>> \notin deliveries
    BY <1>1, NoEventFired DEF TypeOK
  <2>2. ASSUME NEW k \in Listeners, k # l
        PROVE  pc'[k] = pc[k] /\ inbox'[k] = inbox[k] /\ <<inbox[k], k>> \notin deliveries
    BY <2>2, <1>1, <1>2, <1>4, Distinct DEF Listening
  <2> QED
    BY <2>1, <2>2, <1>1, <1>2, <1>4 DEF Listening
<1>7. AdminLogComplete'
  <2>1. \A f \in Pending["statusLog"] : f.decision # 0 =>
            f \in Pending'["statusLog"] \cup adminLog' \cup unlogged'
    <3>1. SUFFICES ASSUME NEW f \in Pending["statusLog"], f.decision # 0, f # inbox[l]
                   PROVE  f \in Pending'["statusLog"]
      OBVIOUS
    <3>2. f \in fired /\ <<f, "statusLog">> \in deliveries
      BY <3>1, <1>3, Distinct DEF Pending
    <3> QED
      BY <3>2, <3>1, Distinct DEF Pending
  <2> QED
    BY <2>1, <1>1, LogGoesOn
<1> QED
  BY <1>5, <1>6, <1>7 DEF IndInv

\* A step of a listener.
LEMMA ListenerPreserves ==
    ASSUME IndInv, NEW l \in Listeners, ListenerStep(l)
    PROVE  IndInv'
<1>1. TypeOK /\ Numbered /\ Listening /\ AdminLogComplete
  BY DEF IndInv
<1>2. UNCHANGED inventoryVars /\ UNCHANGED serverVars
  BY DEF ListenerStep
<1>3. ASSUME NEW e \in fired, Receive(l, e)
      PROVE  IndInv'
  BY <1>2, <1>3, ReceivePreserves
<1>4. ASSUME NEW e \in fired, MailStatusChange(l, e) \/ MailPaid(l, e)
      PROVE  IndInv'
  BY <1>2, <1>4, MailPreserves DEF MailStatusChange, MailPaid
<1>5. CASE SkipWithoutAdmin(l)
  <2>1. /\ inbox[l].decision = 0 /\ Step(l, "received", "receive") /\ Handled(l)
        /\ UNCHANGED <<listeners, deliveries, fired>> /\ mutex' = mutex
        /\ adminLog' = adminLog /\ unlogged' = unlogged
    BY <1>5 DEF SkipWithoutAdmin
  <2>2. {adminLog', unlogged'} \subseteq SUBSET fired
    BY <2>1, <1>1 DEF TypeOK
  <2> QED
    BY <2>1, <2>2, <1>2, HandledPreserves
<1>6. CASE LogAdminAction(l)
  <2>1. /\ l = "statusLog" /\ inbox[l].decision # 0 /\ mutex = Nobody /\ mutex' = l
        /\ Step(l, "received", "write") /\ UNCHANGED eventVars
    BY <1>6 DEF LogAdminAction, Lock, LockIsFree
  <2>2. /\ pc[l] = "received" /\ pc'[l] = "write" /\ DOMAIN pc' = Goroutines
        /\ \A h \in Goroutines : h # l => pc'[h] = pc[h]
    BY <2>1, <1>1, StepOf, Distinct
  <2>3. /\ listeners' = listeners /\ deliveries' = deliveries /\ inbox' = inbox
        /\ adminLog' = adminLog /\ fired' = fired /\ handled' = handled /\ unlogged' = unlogged
    BY <2>1 DEF eventVars
  <2>4. TypeOK' /\ Startup' /\ Loading' /\ Keys' /\ Numbered' /\ Watching' /\ InHand'
    <3>1. /\ {adminLog', unlogged'} \subseteq SUBSET fired
          /\ handled' \in [Listeners -> SUBSET fired]
          /\ inbox' \in [Listeners -> fired \cup {NoEvent}]
      BY <2>3, <1>1 DEF TypeOK
    <3> QED
      BY <3>1, <2>1, <2>2, <2>3, <1>2, ListenerAlone
  <2>5. Listening'
    <3>1. ASSUME NEW k \in Listeners, k # l
          PROVE  pc'[k] = pc[k]
      BY <3>1, <2>2, Distinct
    <3> QED
      BY <3>1, <2>1, <2>2, <2>3, <1>1 DEF Listening
  <2>6. AdminLogComplete'
    <3>1. Pending' = Pending
      BY <2>3 DEF Pending
    <3> QED
      BY <3>1, <2>3, <1>1, <1>2, LogGoesOn
  <2> QED
    BY <2>4, <2>5, <2>6 DEF IndInv
<1>7. CASE WriteAdminLog(l)
  <2>1. /\ mutex = l /\ mutex' = Nobody /\ Step(l, "write", "receive") /\ Handled(l)
        /\ UNCHANGED <<listeners, deliveries, fired>>
        /\ \/ adminLog' = adminLog \cup {inbox[l]} /\ unlogged' = unlogged
           \/ unlogged' = unlogged \cup {inbox[l]} /\ adminLog' = adminLog
    BY <1>7 DEF WriteAdminLog, Unlock
  <2>2. pc[l] = "write"
    BY <2>1 DEF Step
  <2>3. inbox[l].decision # 0 /\ inbox[l] \in fired
    BY <2>2, <1>1 DEF Listening, TypeOK
  <2>4. {adminLog', unlogged'} \subseteq SUBSET fired
    BY <2>1, <2>3, <1>1 DEF TypeOK
  <2>5. \A e \in adminLog' \ adminLog : e.decision # 0
    BY <2>1, <2>3
  <2>6. /\ adminLog \cup unlogged \subseteq adminLog' \cup unlogged'
        /\ inbox[l] \in adminLog' \cup unlogged'
    BY <2>1
  <2> QED
    BY <2>1, <2>4, <2>5, <2>6, <1>2, HandledPreserves
<1> QED
  BY <1>3, <1>4, <1>5, <1>6, <1>7 DEF ListenerStep, Listen

-----------------------------------------------------------------------------
(* The theorems *)

\* The server starts in the invariant.
LEMMA InitIndInv == Init => IndInv
<1> SUFFICES ASSUME Init PROVE IndInv
  OBVIOUS
<1>1. /\ pc = Off /\ mutex = Nobody /\ starts = 0 /\ torn = FALSE
      /\ keyFile = [f \in KeyFiles |-> "none"]
      /\ listeners = {} /\ deliveries = {} /\ inbox = [l \in Listeners |-> NoEvent]
      /\ adminLog = {} /\ fired = {} /\ handled = [l \in Listeners |-> {}] /\ unlogged = {}
      /\ rows = {} /\ loaded = FALSE /\ toCreate = {} /\ watched = {} /\ found = {}
      /\ paid = {} /\ halfLoaded = FALSE /\ early = FALSE
      /\ decided = 0 /\ inHand = [r \in Requests |-> 0] /\ unsaved = {} /\ cutOff = {}
  BY DEF Init, EventInit, InventoryInit
<1>2. /\ pc[Main] = "down" /\ pc[Poller] = "off" /\ DOMAIN pc = Goroutines
      /\ \A r \in Requests : pc[r] = "idle"
      /\ \A l \in Listeners : pc[l] = "off"
  BY <1>1, Distinct DEF Off
<1>3. TypeOK
  <2>1. /\ starts \in 0..MaxStarts /\ decided \in 0..MaxDecisions
        /\ inHand \in [Requests -> 0..decided] /\ {unsaved, cutOff} \subseteq SUBSET (1..decided)
    BY <1>1, ServerAssumption
  <2>2. /\ inbox \in [Listeners -> fired \cup {NoEvent}]
        /\ handled \in [Listeners -> SUBSET fired]
        /\ keyFile \in [KeyFiles -> {"none", "empty", "whole"}]
    BY <1>1
  <2>3. /\ pc[Main] \in MainSteps /\ pc[Poller] \in PollerSteps
        /\ \A r \in Requests : pc[r] \in RequestSteps
        /\ \A l \in Listeners : pc[l] \in ListenerSteps
    BY <1>2 DEF MainSteps, PollerSteps, RequestSteps, ListenerSteps
  <2>4. /\ mutex \in Goroutines \cup {Nobody} /\ listeners \subseteq Listeners
        /\ fired \subseteq Event /\ deliveries \subseteq fired \X Listeners
        /\ {adminLog, unlogged} \subseteq SUBSET fired
        /\ rows \subseteq Tokens /\ toCreate \subseteq Tokens
        /\ {watched, found, paid} \subseteq SUBSET Approved
        /\ {loaded, halfLoaded, early, torn} \subseteq BOOLEAN
    BY <1>1
  <2> QED
    BY <2>1, <2>2, <2>3, <2>4, <1>2 DEF TypeOK
<1>4. Startup /\ Loading /\ Listening
  BY <1>1, <1>2 DEF Startup, Loading, Loaders, Listening
<1>5. Keys
  BY <1>1, <1>2 DEF Keys, KeyFiles
<1>6. Numbered
  BY <1>1, FS_EmptySet, EventsAssumption DEF Numbered
<1>7. AdminLogComplete /\ Watching /\ InHand
  BY <1>1, <1>2 DEF AdminLogComplete, Watching, WatchedFromStart, InHand
<1> QED
  BY <1>3, <1>4, <1>5, <1>6, <1>7 DEF IndInv

\* Every step preserves the invariant.
LEMMA StepIndInv == IndInv /\ [Next]_vars => IndInv'
<1> SUFFICES ASSUME IndInv, [Next]_vars PROVE IndInv'
  OBVIOUS
<1>1. CASE Start
  BY <1>1, StartPreserves
<1>2. CASE MainStep
  BY <1>2, TablesPreserve, SetupPreserves, LoadPreserves, KeyPreserves, CheckerPreserves
     DEF MainStep, Loaders
<1>3. CASE Stop
  BY <1>3, StopPreserves
<1>4. ASSUME NEW r \in Requests, Dispatch(r) \/ RequestStep(r)
      PROVE  IndInv'
  <2>1. CASE LoadInventory(r)
    BY <2>1, LoadPreserves DEF Loaders
  <2>2. CASE FireStatusChange(r)
    BY <2>2, FireStatusPreserves
  <2>3. CASE PollPayment(r)
    BY <2>3, PollPaymentPreserves
  <2>4. CASE AcceptDecision(r) \/ LoseDecision(r)
    BY <2>4, DecisionPreserves
  <2> QED
    BY <2>1, <2>2, <2>3, <2>4, <1>4, RequestPreserves DEF RequestStep
<1>5. CASE PollerStep
  BY <1>5, PollerPreserves
<1>6. ASSUME NEW l \in Listeners, ListenerStep(l)
      PROVE  IndInv'
  BY <1>6, ListenerPreserves
<1>7. CASE UNCHANGED vars
  <2>1. /\ pc' = pc /\ mutex' = mutex /\ starts' = starts /\ torn' = torn /\ keyFile' = keyFile
        /\ listeners' = listeners /\ deliveries' = deliveries /\ inbox' = inbox
        /\ adminLog' = adminLog /\ fired' = fired /\ handled' = handled /\ unlogged' = unlogged
        /\ rows' = rows /\ loaded' = loaded /\ toCreate' = toCreate /\ watched' = watched
        /\ found' = found /\ paid' = paid /\ halfLoaded' = halfLoaded /\ early' = early
        /\ UNCHANGED eventVars /\ UNCHANGED decisionVars
    BY <1>7 DEF vars, eventVars, inventoryVars
  <2>2. TypeOK'
    BY <2>1 DEF IndInv, TypeOK
  <2>3. Startup' /\ Loading'
    BY <2>1 DEF IndInv, Startup, Loading
  <2>4. Keys' /\ Watching' /\ InHand'
    BY <2>1 DEF IndInv, Keys, Watching, WatchedFromStart, InHand
  <2>5. Numbered' /\ Listening' /\ AdminLogComplete'
    BY <2>1, EventsKept, LogKept DEF IndInv
  <2> QED
    BY <2>2, <2>3, <2>4, <2>5 DEF IndInv
<1> QED
  BY <1>1, <1>2, <1>3, <1>4, <1>5, <1>6, <1>7 DEF Next

\* Every reachable state is in the invariant.
THEOREM Invariance == Spec => []IndInv
  BY InitIndInv, StepIndInv, PTL DEF Spec

\* Every reachable state has its types: what waits to be delivered was fired,
\* and only approved invoices are polled.
THEOREM TypeCorrect == Spec => []TypeOK
<1>1. IndInv => TypeOK
  BY DEF IndInv
<1> QED
  BY <1>1, Invariance, PTL

\* LoadInventory and the middleware: a handler of invoices runs on a complete
\* table, for any number of requests and records.
THEOREM HandlersSeeAll == Spec => []ServedIsLoaded
<1>1. IndInv => ServedIsLoaded
  BY DEF IndInv, Loading, Startup, ServedIsLoaded
<1> QED
  BY <1>1, Invariance, PTL

\* HandleSetInvoiceStatus, fireEvent, the deliveries and the log's listener, in
\* every run of the server: a decision that politeiad accepted gets its entry in
\* the admin log, unless its handler failed before it fired the event, the
\* process stopped while the event was on its way, or the entry could not be
\* written.
THEOREM LogComplete == Spec => []AdminLogComplete
<1>1. IndInv => AdminLogComplete
  BY DEF IndInv
<1> QED
  BY <1>1, Invariance, PTL

\* initPaymentChecker and the poller: what was unpaid at an early load is
\* polled until it is paid.
THEOREM PolledUntilPaid == Spec => []WatchedFromStart
<1>1. IndInv => WatchedFromStart
  BY DEF IndInv, Watching
<1> QED
  BY <1>1, Invariance, PTL

\* _main and the key files: the server listens with a whole CSRF key.
THEOREM WholeKeys == Spec => []ListensWithKeys
<1>1. IndInv => ListensWithKeys
  BY DEF IndInv, TypeOK, Keys, KeyFiles, ListensWithKeys
<1> QED
  BY <1>1, Invariance, PTL

-----------------------------------------------------------------------------
(* The event manager implements the mailbox *)

\* Steps without events stutter.
LEMMA Stutters ==
    ASSUME UNCHANGED eventVars
    PROVE  UNCHANGED Abstract!vars
<1>1. /\ fired' = fired /\ listeners' = listeners /\ deliveries' = deliveries /\ inbox' = inbox
      /\ handled' = handled
  BY DEF eventVars
<1>2. Pending' = Pending
  BY <1>1 DEF Pending
<1> QED
  BY <1>1, <1>2 DEF Abstract!vars

\* Firing puts the event into the mail of the registered listeners of its type.
LEMMA FiresMail ==
    ASSUME IndInv, NEW g \in Goroutines, NEW type \in Types, NEW decision \in 0..MaxEvents,
           FireEvent(g, type, decision)
    PROVE  Abstract!Next
<1> DEFINE e == [n |-> Cardinality(fired) + 1, type |-> type, decision |-> decision]
           Interested == [l \in Listeners |-> {f \in Event : f.type = ListensTo[l]}]
<1>1. TypeOK /\ Numbered
  BY DEF IndInv
<1>2. /\ Cardinality(fired) < MaxEvents
      /\ fired' = fired \cup {e} /\ deliveries' = deliveries \cup DeliveriesOf(e)
      /\ listeners' = listeners /\ inbox' = inbox /\ handled' = handled
  BY DEF FireEvent
<1>3. Cardinality(fired) \in Nat
  BY <1>1, FS_CardinalityType DEF Numbered
<1>4. e \in Event /\ e.n = Cardinality(fired) + 1
  BY <1>2, <1>3, EventsAssumption DEF Event
<1>5. e \notin fired
  BY <1>1, <1>3, <1>4 DEF Numbered, Event
<1>6. e # NoEvent
  BY <1>3 DEF NoEvent
<1> HIDE DEF e
<1>7. ASSUME NEW l \in Listeners
      PROVE  Pending'[l] = IF l \in listeners /\ e \in Interested[l]
                           THEN Pending[l] \cup {e} ELSE Pending[l]
  <2>1. <<e, l>> \in DeliveriesOf(e) <=> l \in listeners /\ e \in Interested[l]
    BY <1>4 DEF DeliveriesOf
  <2>2. <<e, l>> \notin deliveries
    BY <1>1, <1>5 DEF TypeOK
  <2>3. ASSUME NEW f, f # e
        PROVE  <<f, l>> \in deliveries' <=> <<f, l>> \in deliveries
    BY <2>3, <1>2 DEF DeliveriesOf
  <2>4. <<e, l>> \in deliveries' <=> l \in listeners /\ e \in Interested[l]
    BY <2>1, <2>2, <1>2
  <2> HIDE DEF Interested
  <2>5. /\ Pending'[l] = {f \in fired' : <<f, l>> \in deliveries'} \cup ({inbox[l]} \ {NoEvent})
        /\ Pending[l] = {f \in fired : <<f, l>> \in deliveries} \cup ({inbox[l]} \ {NoEvent})
    BY <1>2 DEF Pending
  <2>6. {f \in fired' : <<f, l>> \in deliveries'} =
            {f \in fired : <<f, l>> \in deliveries}
                \cup (IF l \in listeners /\ e \in Interested[l] THEN {e} ELSE {})
    BY <2>3, <2>4, <1>2, <1>5
  <2> QED
    BY <2>5, <2>6
<1> HIDE DEF Interested
<1>8. Pending' = [l \in Listeners |-> IF l \in listeners /\ e \in Interested[l]
                                     THEN Pending[l] \cup {e} ELSE Pending[l]]
  <2>1. DOMAIN Pending' = Listeners /\ Pending' = [l \in Listeners |-> Pending'[l]]
    BY DEF Pending
  <2> QED
    BY <2>1, <1>7
<1>9. Abstract!Fire(e)
  BY <1>2, <1>5, <1>8 DEF Abstract!Fire, Interested
<1> QED
  BY <1>4, <1>9 DEF Abstract!Next

\* An event that is handled is taken off the mail.
LEMMA HandlesMail ==
    ASSUME IndInv, NEW l \in Listeners, NEW e \in fired, e \in Pending[l], e # NoEvent,
           UNCHANGED <<fired, listeners>>,
           handled' = [handled EXCEPT ![l] = @ \cup {e}],
           Pending'[l] = Pending[l] \ {e},
           \A k \in Listeners : k # l => Pending'[k] = Pending[k]
    PROVE  Abstract!Next
<1>1. e \in Event
  BY DEF IndInv, TypeOK
<1>2. Pending' = [Pending EXCEPT ![l] = @ \ {e}]
  <2>1. /\ DOMAIN Pending = Listeners /\ Pending = [k \in Listeners |-> Pending[k]]
        /\ DOMAIN Pending' = Listeners /\ Pending' = [k \in Listeners |-> Pending'[k]]
    BY DEF Pending
  <2> QED
    BY <2>1
<1>3. Abstract!Handle(l, e)
  BY <1>2 DEF Abstract!Handle
<1> QED
  BY <1>1, <1>3 DEF Abstract!Next

\* A listener handles an event or stutters.
LEMMA ListenerMail ==
    ASSUME IndInv, NEW l \in Listeners, Listen(l)
    PROVE  Abstract!Next \/ UNCHANGED Abstract!vars
<1>1. TypeOK /\ Numbered /\ Listening
  BY DEF IndInv
<1>2. NoEvent \notin fired
  BY <1>1, NoEventFired
<1>3. ASSUME NEW e \in fired, Receive(l, e)
      PROVE  UNCHANGED Abstract!vars
  <2>1. /\ <<e, l>> \in deliveries /\ deliveries' = deliveries \ {<<e, l>>} /\ pc[l] = "receive"
        /\ inbox' = [inbox EXCEPT ![l] = e]
        /\ fired' = fired /\ listeners' = listeners /\ handled' = handled
    BY <1>3 DEF Receive, Step
  <2>2. inbox[l] = NoEvent
    BY <2>1, <1>1 DEF Listening
  <2>3. inbox'[l] = e /\ \A k \in Listeners : k # l => inbox'[k] = inbox[k]
    BY <2>1, <1>1 DEF TypeOK
  <2>4. \A f \in fired, k \in Listeners :
            <<f, k>> \in deliveries' <=> <<f, k>> \in deliveries /\ ~(f = e /\ k = l)
    BY <2>1
  <2>5. ASSUME NEW k \in Listeners
        PROVE  {f \in fired : <<f, k>> \in deliveries'} \cup ({inbox'[k]} \ {NoEvent}) =
               {f \in fired : <<f, k>> \in deliveries} \cup ({inbox[k]} \ {NoEvent})
    <3>1. CASE k # l
      BY <3>1, <2>3, <2>4
    <3>2. CASE k = l
      <4>1. ({inbox[k]} \ {NoEvent}) = {} /\ ({inbox'[k]} \ {NoEvent}) = {e}
        BY <3>2, <2>2, <2>3, <1>2
      <4>2. {f \in fired : <<f, k>> \in deliveries} =
                {f \in fired : <<f, k>> \in deliveries'} \cup {e}
        BY <3>2, <2>1, <2>4
      <4> QED
        BY <4>1, <4>2
    <3> QED
      BY <3>1, <3>2
  <2>6. Pending' = Pending
    BY <2>1, <2>5 DEF Pending
  <2> QED
    BY <2>1, <2>6 DEF Abstract!vars
<1>4. ASSUME NEW e \in fired, EmailNotification(l, e)
      PROVE  Abstract!Next
  <2>1. /\ pc[l] = "receive" /\ <<e, l>> \in deliveries /\ deliveries' = deliveries \ {<<e, l>>}
        /\ handled' = [handled EXCEPT ![l] = @ \cup {e}] /\ inbox' = inbox
        /\ listeners' = listeners /\ fired' = fired
    BY <1>4 DEF EmailNotification
  <2>2. inbox[l] = NoEvent
    BY <2>1, <1>1 DEF Listening
  <2>3. \A f \in fired, k \in Listeners :
            <<f, k>> \in deliveries' <=> <<f, k>> \in deliveries /\ ~(f = e /\ k = l)
    BY <2>1
  <2>4. e \in Pending[l] /\ Pending'[l] = Pending[l] \ {e}
    <3>1. Pending[l] = {f \in fired : <<f, l>> \in deliveries}
      BY <2>2 DEF Pending
    <3>2. Pending'[l] = {f \in fired : <<f, l>> \in deliveries'}
      BY <2>1, <2>2 DEF Pending
    <3> QED
      BY <3>1, <3>2, <2>1, <2>3
  <2>5. ASSUME NEW k \in Listeners, k # l
        PROVE  Pending'[k] = Pending[k]
    <3>1. {f \in fired : <<f, k>> \in deliveries'} = {f \in fired : <<f, k>> \in deliveries}
      BY <2>3, <2>5
    <3> QED
      BY <3>1, <2>1 DEF Pending
  <2> QED
    BY <2>1, <2>4, <2>5, <1>2, HandlesMail
<1>5. ASSUME Handled(l), pc[l] \in {"received", "write"},
             UNCHANGED <<fired, listeners, deliveries>>
      PROVE  Abstract!Next
  <2> DEFINE e == inbox[l]
  <2>1. e \in fired /\ e # NoEvent /\ <<e, l>> \notin deliveries
    BY <1>1, <1>5 DEF Listening, TypeOK
  <2>2. /\ handled' = [handled EXCEPT ![l] = @ \cup {e}]
        /\ inbox' = [inbox EXCEPT ![l] = NoEvent]
    BY <1>5 DEF Handled
  <2>3. inbox'[l] = NoEvent /\ \A k \in Listeners : k # l => inbox'[k] = inbox[k]
    BY <2>2, <1>1 DEF TypeOK
  <2>4. e \in Pending[l] /\ Pending'[l] = Pending[l] \ {e}
    <3>1. Pending[l] = {f \in fired : <<f, l>> \in deliveries} \cup {e}
      BY <2>1 DEF Pending
    <3>2. Pending'[l] = {f \in fired : <<f, l>> \in deliveries}
      BY <2>3, <1>5 DEF Pending
    <3> QED
      BY <3>1, <3>2, <2>1
  <2>5. \A k \in Listeners : k # l => Pending'[k] = Pending[k]
    BY <2>3, <1>5 DEF Pending
  <2> HIDE DEF e
  <2> QED
    BY <2>1, <2>2, <2>4, <2>5, <1>5, HandlesMail
<1>6. CASE SkipWithoutAdmin(l)
  BY <1>5, <1>6 DEF SkipWithoutAdmin, Step
<1>7. CASE LogAdminAction(l)
  BY <1>7, Stutters DEF LogAdminAction
<1>8. CASE WriteAdminLog(l)
  BY <1>5, <1>8 DEF WriteAdminLog, Step
<1> QED
  BY <1>3, <1>4, <1>6, <1>7, <1>8 DEF Listen, MailStatusChange, MailPaid

\* The server's events go the way of the mailbox's: fireEvent is one step of
\* Fire, the receipt stutters, and the end of a listener's round is Handle.
THEOREM EventsAreMail == Spec => DeliversEvents
<1>1. Init => Abstract!Init
  <2> SUFFICES ASSUME Init PROVE Abstract!Init
    OBVIOUS
  <2>1. /\ fired = {} /\ listeners = {} /\ handled = [l \in Listeners |-> {}]
        /\ deliveries = {} /\ inbox = [l \in Listeners |-> NoEvent]
    BY DEF Init, EventInit
  <2>2. Pending = [l \in Listeners |-> {}]
    BY <2>1 DEF Pending
  <2> QED
    BY <2>1, <2>2 DEF Abstract!Init
<1>2. IndInv /\ [Next]_vars => [Abstract!Next]_(Abstract!vars)
  <2> SUFFICES ASSUME IndInv, [Next]_vars
               PROVE  Abstract!Next \/ UNCHANGED Abstract!vars
    OBVIOUS
  <2>1. CASE UNCHANGED eventVars
    BY <2>1, Stutters
  <2>2. CASE SetupEvents
    <3>1. /\ listeners' = Registered /\ fired' = fired /\ deliveries' = deliveries
          /\ inbox' = inbox /\ handled' = handled
      BY <2>2 DEF SetupEvents, InitEventManager
    <3>2. Pending' = Pending
      BY <3>1 DEF Pending
    <3>3. Registered \in SUBSET Listeners
      BY DEF Registered, Listeners
    <3>4. Abstract!Register
      BY <3>1, <3>2, <3>3 DEF Abstract!Register
    <3> QED
      BY <3>4 DEF Abstract!Next
  <2>3. CASE Stop
    <3>1. /\ listeners' = {} /\ deliveries' = {} /\ inbox' = [l \in Listeners |-> NoEvent]
          /\ fired' = fired /\ handled' = handled
      BY <2>3 DEF Stop, EventsLost
    <3>2. Pending' = [l \in Listeners |-> {}]
      BY <3>1 DEF Pending
    <3>3. Abstract!Stop
      BY <3>1, <3>2 DEF Abstract!Stop
    <3> QED
      BY <3>3 DEF Abstract!Next
  <2>4. ASSUME NEW g \in Requests \cup {Poller}, NEW type \in Types,
               NEW decision \in 0..MaxEvents, FireEvent(g, type, decision)
        PROVE  Abstract!Next
    BY <2>4, FiresMail, Distinct
  <2>5. ASSUME NEW l \in Listeners, ListenerStep(l)
        PROVE  Abstract!Next \/ UNCHANGED Abstract!vars
    BY <2>5, ListenerMail DEF ListenerStep
  <2>6. CASE Start
    BY <2>1, <2>6 DEF Start
  <2>7. CASE MainStep
    BY <2>1, <2>2, <2>7
       DEF MainStep, OpenTables, LoadInventory, CreateKey, WriteKey, ReadCSRFKey, ReadCookieKey,
           StartChecker
  <2>8. ASSUME NEW r \in Requests, Dispatch(r) \/ RequestStep(r)
        PROVE  Abstract!Next \/ UNCHANGED Abstract!vars
    <3>1. CASE FireStatusChange(r)
      <4>1. PICK d : d = inHand[r] /\ d \in 0..MaxEvents
        BY ServerAssumption, EventsAssumption DEF IndInv, TypeOK
      <4>2. FireEvent(r, "statusChange", d) /\ "statusChange" \in Types
        BY <3>1, <4>1 DEF FireStatusChange, Types
      <4> QED
        BY <4>1, <4>2, <2>4
    <3>2. CASE ~FireStatusChange(r)
      <4>1. UNCHANGED eventVars
        BY <3>2, <2>8
           DEF RequestStep, Dispatch, LoadInventory, HandleInvoice, AcceptDecision,
               SaveDecision, LoseDecision, StatusChangeFired,
               FireEventReturns, PollPayment, HandleUser, LogUserAction, WriteUserLog, requestVars
      <4> QED
        BY <4>1, <2>1
    <3> QED
      BY <3>1, <3>2
  <2>9. CASE PollerStep
    <3>1. CASE FireEvent(Poller, "paid", 0)
      BY <3>1, <2>4, EventsAssumption DEF Types
    <3>2. CASE ~FireEvent(Poller, "paid", 0)
      BY <3>2, <2>1, <2>9 DEF PollerStep, FireEventReturns
    <3> QED
      BY <3>1, <3>2
  <2>10. CASE UNCHANGED vars
    BY <2>1, <2>10 DEF vars
  <2> QED
    BY <2>3, <2>5, <2>6, <2>7, <2>8, <2>9, <2>10 DEF Next
<1> QED
  BY <1>1, <1>2, Invariance, PTL DEF Spec, DeliversEvents, Abstract!Spec
=============================================================================
