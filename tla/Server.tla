------------------------------- MODULE Server -------------------------------
(***************************************************************************)
(* The server as a whole: _main starts it step by step, requests pass the  *)
(* middleware to their handlers, the poller and the event listeners run    *)
(* beside them, and all of them meet at one lock.  What the handlers do to *)
(* invoices, payments and users is the subject of other modules; here they *)
(* load the inventory, fire events, write the admin log and add payments   *)
(* to the poller's map.  The process may stop at any step.                 *)
(***************************************************************************)
EXTENDS EventManager, Inventory

CONSTANTS
    MaxStarts,     \* bound on the starts of the server
    MaxDecisions   \* bound on the decisions that politeiad accepts

ASSUME ServerAssumption == MaxStarts \in Nat /\ MaxDecisions \in 0..MaxEvents

VARIABLES
    keyFile,   \* keyFile[f]: the state of the key file f
    starts,
    decided,   \* how many decisions of admins politeiad has accepted
    inHand,    \* inHand[r]: the decision that request r is to announce, or 0
    \* History variables: no guard reads them.
    torn,      \* the process stopped while it wrote a key file
    unsaved,   \* decisions whose handler failed before it announced them
    cutOff     \* decisions that were on their way when the process stopped

keyVars == <<keyFile, torn>>

decisionVars == <<decided, inHand, unsaved, cutOff>>

vars == <<pc, mutex, eventVars, inventoryVars, keyVars, starts, decisionVars>>

KeyFiles == {"csrf", "cookie"}

MainSteps ==
    {"down", "tables", "events", "load", "fetch", "create", "csrf", "csrfWrite", "checker",
     "cookie", "cookieWrite", "listening"}

\* What handlers of invoices do.
InvoiceSteps == {"handle", "accepted", "fire", "fired", "poll"}

RequestSteps ==
    {"idle", "load", "fetch", "create", "user", "log", "write"} \cup InvoiceSteps

PollerSteps == {"off", "snapshot", "check", "fire", "fired", "remove"}

ListenerSteps == {"off", "receive", "received", "write"}

TypeOK ==
    /\ DOMAIN pc = Goroutines
    /\ pc[Main] \in MainSteps
    /\ pc[Poller] \in PollerSteps
    /\ \A r \in Requests : pc[r] \in RequestSteps
    /\ \A l \in Listeners : pc[l] \in ListenerSteps
    /\ mutex \in Goroutines \cup {Nobody}
    /\ listeners \subseteq Listeners
    /\ fired \subseteq Event
    /\ deliveries \subseteq fired \X Listeners
    /\ inbox \in [Listeners -> fired \cup {NoEvent}]
    /\ {adminLog, unlogged} \subseteq SUBSET fired
    /\ handled \in [Listeners -> SUBSET fired]
    /\ rows \subseteq Tokens /\ toCreate \subseteq Tokens
    /\ {watched, found, paid} \subseteq SUBSET Approved
    /\ {loaded, halfLoaded, early, torn} \subseteq BOOLEAN
    /\ keyFile \in [KeyFiles -> {"none", "empty", "whole"}]
    /\ starts \in 0..MaxStarts
    /\ decided \in 0..MaxDecisions
    /\ inHand \in [Requests -> 0..decided]
    /\ {unsaved, cutOff} \subseteq SUBSET (1..decided)

\* Nothing runs.
Off == [g \in Goroutines |-> IF g = Main THEN "down" ELSE IF g \in Requests THEN "idle" ELSE "off"]

Init ==
    /\ pc = Off
    /\ mutex = Nobody
    /\ EventInit
    /\ InventoryInit
    /\ keyFile = [f \in KeyFiles |-> "none"]
    /\ starts = 0
    /\ torn = FALSE
    /\ decided = 0
    /\ inHand = [r \in Requests |-> 0]
    /\ unsaved = {} /\ cutOff = {}

-----------------------------------------------------------------------------
(* _main *)

serverVars == <<keyVars, starts, decisionVars>>

Start ==
    /\ starts < MaxStarts
    /\ starts' = starts + 1
    /\ Step(Main, "down", "tables")
    /\ UNCHANGED <<mutex, eventVars, inventoryVars, keyVars, decisionVars>>

OpenTables == New(Main, "tables", "events") /\ UNCHANGED <<eventVars, serverVars>>

SetupEvents == InitEventManager(Main, "events", "load") /\ UNCHANGED <<inventoryVars, serverVars>>

\* A key file is created ...
CreateKey(f, from, to) ==
    /\ keyFile[f] = "none"
    /\ Step(Main, from, to)
    /\ keyFile' = [keyFile EXCEPT ![f] = "empty"]
    /\ UNCHANGED <<mutex, eventVars, inventoryVars, torn, starts, decisionVars>>

\* ... and the key written into it.
WriteKey(f, from, to) ==
    /\ Step(Main, from, to)
    /\ keyFile' = [keyFile EXCEPT ![f] = "whole"]
    /\ UNCHANGED <<mutex, eventVars, inventoryVars, torn, starts, decisionVars>>

\* Mutant: the number of bytes that were read is not looked at.
ReadCSRFKeyAnyLength ==
    /\ keyFile["csrf"] # "none"
    /\ Step(Main, "csrf", "checker")
    /\ UNCHANGED <<mutex, eventVars, inventoryVars, serverVars>>

\* The CSRF key must have its length; otherwise _main returns (Stop).
ReadCSRFKey ==
    /\ keyFile["csrf"] = "whole"
    /\ Step(Main, "csrf", "checker")
    /\ UNCHANGED <<mutex, eventVars, inventoryVars, serverVars>>

\* SetupSessions takes what is in the file.
ReadCookieKey ==
    /\ keyFile["cookie"] # "none"
    /\ Step(Main, "cookie", "listening")
    /\ UNCHANGED <<mutex, eventVars, inventoryVars, serverVars>>

StartChecker == InitPaymentChecker(Main, "checker", "cookie") /\ UNCHANGED <<eventVars, serverVars>>

\* Decision d has yet to be announced, or its event to be logged.
OnItsWay(d) ==
    \/ \E r \in Requests : inHand[r] = d
    \/ \E e \in Pending["statusLog"] : e.decision = d

\* The process ends: it is killed, gets a signal, or _main returns an error.
Stop ==
    /\ pc[Main] # "down"
    /\ pc' = Off
    /\ mutex' = Nobody
    /\ EventsLost
    /\ InventoryLost
    /\ torn' = (torn \/ pc[Main] \in {"csrfWrite", "cookieWrite"})
    /\ inHand' = [r \in Requests |-> 0]
    /\ cutOff' = cutOff \cup {d \in 1..decided : OnItsWay(d)}
    /\ UNCHANGED <<keyFile, starts, decided, unsaved>>

-----------------------------------------------------------------------------
(* Loading the inventory, at startup or for a request *)

AfterLoad(g) == IF g = Main THEN "csrf" ELSE "handle"

\* Mutant: the middleware goes on after a load that failed, as _main does.
AfterFailureOnward(g) == AfterLoad(g)

\* _main goes on after a load that failed, a request ends.
AfterFailure(g) == IF g = Main THEN "csrf" ELSE "idle"

LoadInventory(g) ==
    /\ \/ AlreadyLoaded(g, AfterLoad(g))
       \/ CallInventory(g)
       \/ RemoteInventory(g)
       \/ \E t \in Tokens : NewInventoryRecord(g, t)
       \/ LoadReturns(g, AfterLoad(g))
       \/ LoadFails(g, AfterFailure(g))
    /\ UNCHANGED <<eventVars, serverVars>>

MainStep ==
    \/ OpenTables
    \/ SetupEvents
    \/ LoadInventory(Main)
    \/ CreateKey("csrf", "csrf", "csrfWrite") \/ WriteKey("csrf", "csrfWrite", "checker")
    \/ ReadCSRFKey
    \/ StartChecker
    \/ CreateKey("cookie", "cookie", "cookieWrite") \/ WriteKey("cookie", "cookieWrite", "listening")
    \/ ReadCookieKey

-----------------------------------------------------------------------------
(* Requests *)

requestVars == <<mutex, eventVars, inventoryVars, serverVars>>

\* A request comes in and passes isLoggedIn or isLoggedInAsAdmin.  The
\* routes of users need no inventory, those of invoices do.
Dispatch(r) ==
    /\ pc[Main] = "listening"
    /\ \/ Step(r, "idle", "load")
       \/ Step(r, "idle", "user")
    /\ UNCHANGED requestVars

\* Bound: no more events than MaxEvents.
MayFire == Cardinality(fired)
               + Cardinality({g \in Requests \cup {Poller} : pc[g] \in {"accepted", "fire"}})
               < MaxEvents

\* A handler other than a review's has done its work on the invoice: an edit
\* is to be announced, a payment to be polled, anything else is replied.
HandleInvoice(r) ==
    /\ \/ Step(r, "handle", "fire") /\ MayFire
       \/ Step(r, "handle", "poll")
       \/ Step(r, "handle", "idle")
    /\ UNCHANGED requestVars

\* HandleSetInvoiceStatus: politeiad accepts the admin's decision ...
AcceptDecision(r) ==
    /\ decided < MaxDecisions /\ MayFire
    /\ Step(r, "handle", "accepted")
    /\ decided' = decided + 1
    /\ inHand' = [inHand EXCEPT ![r] = decided + 1]
    /\ UNCHANGED <<mutex, eventVars, inventoryVars, keyVars, starts, unsaved, cutOff>>

\* ... and it is saved in the row, to be announced ...
SaveDecision(r) ==
    /\ Step(r, "accepted", "fire")
    /\ UNCHANGED requestVars

\* ... or politeiad's answer is lost or the row cannot be saved: the handler
\* returns an error and announces nothing.
LoseDecision(r) ==
    /\ Step(r, "accepted", "idle")
    /\ inHand' = [inHand EXCEPT ![r] = 0]
    /\ unsaved' = unsaved \cup {inHand[r]}
    /\ UNCHANGED <<mutex, eventVars, inventoryVars, keyVars, starts, decided, cutOff>>

\* HandleSetInvoiceStatus passes its admin, HandleEditInvoice none.
FireStatusChange(r) ==
    /\ FireEvent(r, "statusChange", inHand[r])
    /\ inHand' = [inHand EXCEPT ![r] = 0]
    /\ UNCHANGED <<inventoryVars, keyVars, starts, decided, unsaved, cutOff>>

StatusChangeFired(r) ==
    /\ FireEventReturns(r, "idle")
    /\ UNCHANGED <<inventoryVars, serverVars>>

\* An invoice gets a payment, or its payments are renewed.
PollPayment(r) ==
    /\ \E t \in Approved \cap rows : AddForPolling(r, t, "idle")
    /\ UNCHANGED <<eventVars, serverVars>>

\* A handler for users has saved the user: HandleManageUser and
\* HandleInviteNewUser write the admin log, the others reply.
HandleUser(r) ==
    /\ \/ Step(r, "user", "log")
       \/ Step(r, "user", "idle")
    /\ UNCHANGED requestVars

\* logAdminUserAction
LogUserAction(r) ==
    /\ Lock(r)
    /\ Step(r, "log", "write")
    /\ UNCHANGED <<eventVars, inventoryVars, serverVars>>

WriteUserLog(r) ==
    /\ Unlock(r)
    /\ Step(r, "write", "idle")
    /\ UNCHANGED <<eventVars, inventoryVars, serverVars>>

RequestStep(r) ==
    \/ LoadInventory(r)
    \/ HandleInvoice(r)
    \/ AcceptDecision(r)
    \/ SaveDecision(r)
    \/ LoseDecision(r)
    \/ FireStatusChange(r)
    \/ StatusChangeFired(r)
    \/ PollPayment(r)
    \/ HandleUser(r)
    \/ LogUserAction(r)
    \/ WriteUserLog(r)

-----------------------------------------------------------------------------
(* The poller and the listeners *)

PollerStep ==
    \/ (PollSnapshot \/ PollEnds \/ PollRemoves) /\ UNCHANGED <<eventVars, serverVars>>
    \/ MayFire /\ (\E t \in Approved : PollFinds(t)) /\ UNCHANGED <<eventVars, serverVars>>
    \/ FireEvent(Poller, "paid", 0) /\ UNCHANGED <<inventoryVars, serverVars>>
    \/ FireEventReturns(Poller, "check") /\ UNCHANGED <<inventoryVars, serverVars>>

ListenerStep(l) == Listen(l) /\ UNCHANGED <<inventoryVars, serverVars>>

Next ==
    \/ Start
    \/ MainStep
    \/ Stop
    \/ \E r \in Requests : Dispatch(r) \/ RequestStep(r)
    \/ PollerStep
    \/ \E l \in Listeners : ListenerStep(l)

Spec == Init /\ [][Next]_vars

\* Goroutines run, and one that waits for the lock gets it some time, as
\* Go's mutex hands it over to those that wait long.  politeiad answers a
\* call or the connection breaks; it does not fail every time, nor does the
\* database.  Nobody owes a request, a transaction or a start.
Fairness ==
    /\ WF_vars(MainStep)
    /\ WF_vars(PollerStep)
    /\ \A l \in Listeners \ {"statusLog"} : WF_vars(ListenerStep(l))
    /\ SF_vars(ListenerStep("statusLog"))
    /\ \A r \in Requests : SF_vars(RequestStep(r))
    /\ SF_vars(\E g \in Goroutines : RemoteInventory(g) /\ UNCHANGED <<eventVars, serverVars>>)
    /\ SF_vars(\E g \in Goroutines, t \in Tokens :
                   NewInventoryRecord(g, t) /\ UNCHANGED <<eventVars, serverVars>>)

FairSpec == Spec /\ Fairness

-----------------------------------------------------------------------------
(* Properties *)

\* A handler of invoices only runs when every record of politeiad has its
\* row, however requests and _main compete to load the inventory, fail half
\* way and try again.
ServedIsLoaded ==
    \A r \in Requests : pc[r] \in InvoiceSteps => rows = Tokens

\* What becomes of a decision that politeiad accepted: it gets its entry in
\* the admin log, through the event, its delivery and the listener, in every
\* run of the server.  The code loses the entry of a decision whose handler
\* failed after politeiad had accepted it (nothing is fired before the row is
\* saved), that was on its way when the process stopped, or whose entry could
\* not be written.  A contractor's edit gets none.
AdminLogComplete ==
    /\ \A d \in 1..decided :
           \/ \E e \in adminLog \cup unlogged : e.decision = d
           \/ OnItsWay(d)
           \/ d \in unsaved \cup cutOff
    /\ \A e \in adminLog : e.decision # 0

\* The payments of approved invoices are polled from the start when the
\* inventory was loaded before the payment checker ran, and stay so until
\* they are paid.  (When politeiad could not be reached at the start and a
\* request loads the inventory later, they are not.)
WatchedFromStart ==
    (early /\ pc[Main] \in {"cookie", "cookieWrite", "listening"}) => Approved \ paid \subseteq watched

\* No server listens with an empty CSRF key, whenever it was stopped.  (With
\* an empty cookie key it does, after it was stopped while writing the key.)
ListensWithKeys ==
    pc[Main] = "listening" =>
        /\ keyFile["csrf"] = "whole"
        /\ keyFile["cookie"] = "whole" \/ torn

\* An event reaches each of its listeners once: the event manager is a mailbox.
DeliversEvents == Abstract!Spec

\* Every request ends, although requests, the poller and the listeners that
\* their events wake take the same lock.
RequestsEnd == \A r \in Requests : []<>(pc[r] = "idle")

\* Every event is handled in the end, unless the process stops.
EventsHandled == \A l \in Listeners : []<>(Pending[l] = {})

\* As long as requests ask for it, the inventory gets loaded, whatever
\* failed before, unless a load left some of its rows.
InventoryRecovers ==
    ([]<>(\E r \in Requests : pc[r] = "load")) => []<>(loaded \/ halfLoaded)
=============================================================================
