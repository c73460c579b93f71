---------------------------- MODULE EventManager ----------------------------
(***************************************************************************)
(* The event manager.  fireEvent holds the server's lock while it starts a *)
(* goroutine per listener of the event's type; that goroutine blocks until *)
(* the listener receives from its unbuffered channel.  Listeners write the *)
(* admin log, for which they take the same lock, or send mail.             *)
(*                                                                         *)
(* Of an event its number, its type and the admin's decision it announces  *)
(* are kept; of the admin log, which events it has.  Whether a mail is     *)
(* sent is not kept.                                                       *)
(***************************************************************************)
EXTENDS Goroutines, Naturals, FiniteSets

CONSTANTS
    HasSMTP,     \* whether a mail server is configured
    MaxEvents    \* bound on the events that are fired

ASSUME EventsAssumption == HasSMTP \in BOOLEAN /\ MaxEvents \in Nat

VARIABLES
    listeners,   \* the registered listeners
    deliveries,  \* the goroutines that wait to send: <<event, listener>>
    inbox,       \* inbox[l]: the event listener l is handling, or NoEvent
    adminLog,    \* the status changes that have an entry in the admin log
    \* History variables: no guard reads them, but for the number of events.
    fired,       \* the events fired
    handled,     \* handled[l]: the events listener l is done with
    unlogged     \* the status changes whose entry could not be written

eventVars == <<listeners, deliveries, inbox, adminLog, fired, handled, unlogged>>

Types == {"statusChange", "paid", "userManage"}

\* EventDataInvoiceStatusChange has an admin, who took a numbered decision;
\* when the contractor edited it has none, and the decision is 0.
Event == [n : 1..MaxEvents, type : Types, decision : 0..MaxEvents]

NoEvent == [n |-> 0, type |-> "userManage", decision |-> 0]

\* The events a listener is registered for.
ListensTo ==
    [l \in Listeners |->
        CASE l = "statusLog"  -> "statusChange"
          [] l = "statusMail" -> "statusChange"
          [] l = "paidMail"   -> "paid"
          [] OTHER            -> "userManage"]


\* _register, for each listener that is set up.
Registered ==
    IF HasSMTP THEN Listeners ELSE {"statusLog", "userLog"}

EventInit ==
    /\ listeners = {}
    /\ deliveries = {}
    /\ inbox = [l \in Listeners |-> NoEvent]
    /\ adminLog = {}
    /\ fired = {}
    /\ handled = [l \in Listeners |-> {}]
    /\ unlogged = {}

\* initEventManager; then the goroutines of the listeners receive.
InitEventManager(g, from, to) ==
    /\ LockIsFree
    /\ pc[g] = from
    /\ pc' = [p \in Goroutines |->
                 IF p = g THEN to ELSE IF p \in Registered THEN "receive" ELSE pc[p]]
    /\ listeners' = Registered
    /\ UNCHANGED <<mutex, deliveries, inbox, adminLog, fired, handled, unlogged>>

\* Mutant: the type is not looked at.
DeliveriesToAll(e) == {<<e, l>> : l \in listeners}

\* _fireEvent: who gets an event of the type.
DeliveriesOf(e) == {<<e, l>> : l \in {k \in listeners : ListensTo[k] = e.type}}

\* fireEvent, up to the last goroutine it starts ...
FireEvent(g, type, decision) ==
    /\ Cardinality(fired) < MaxEvents
    /\ Lock(g)
    /\ Step(g, "fire", "fired")
    /\ LET e == [n |-> Cardinality(fired) + 1, type |-> type, decision |-> decision] IN
       /\ fired' = fired \cup {e}
       /\ deliveries' = deliveries \cup DeliveriesOf(e)
    /\ UNCHANGED <<listeners, inbox, adminLog, handled, unlogged>>

\* Mutant: fireEvent sends by itself, with the lock held.
FireEventReturnsLate(g, to) ==
    /\ deliveries = {}
    /\ Unlock(g)
    /\ Step(g, "fired", to)
    /\ UNCHANGED eventVars

\* ... and to its end.
FireEventReturns(g, to) ==
    /\ Unlock(g)
    /\ Step(g, "fired", to)
    /\ UNCHANGED eventVars

\* The listener for the admin log takes an event off one of the goroutines
\* that wait to send.
Receive(l, e) ==
    /\ l = "statusLog"
    /\ <<e, l>> \in deliveries
    /\ Step(l, "receive", "received")
    /\ deliveries' = deliveries \ {<<e, l>>}
    /\ inbox' = [inbox EXCEPT ![l] = e]
    /\ UNCHANGED <<mutex, listeners, adminLog, fired, handled, unlogged>>

\* Listener l is done with its event and goes on to the next.
Handled(l) ==
    /\ handled' = [handled EXCEPT ![l] = @ \cup {inbox[l]}]
    /\ inbox' = [inbox EXCEPT ![l] = NoEvent]

\* Mutant: the listener returns at an event without an admin.
ReturnWithoutAdmin(l) ==
    /\ l = "statusLog" /\ inbox[l].decision = 0
    /\ Step(l, "received", "off")
    /\ Handled(l)
    /\ UNCHANGED <<mutex, listeners, deliveries, adminLog, fired, unlogged>>

\* Mutant: an event is skipped whether it has an admin or not.
SkipAny(l) ==
    /\ Step(l, "received", "receive")
    /\ Handled(l)
    /\ UNCHANGED <<mutex, listeners, deliveries, adminLog, fired, unlogged>>

\* An edit has no admin: it is not logged.
SkipWithoutAdmin(l) ==
    /\ l = "statusLog" /\ inbox[l].decision = 0
    /\ Step(l, "received", "receive")
    /\ Handled(l)
    /\ UNCHANGED <<mutex, listeners, deliveries, adminLog, fired, unlogged>>

\* logAdminAction: the lock is taken ...
LogAdminAction(l) ==
    /\ l = "statusLog" /\ inbox[l].decision # 0
    /\ Lock(l)
    /\ Step(l, "received", "write")
    /\ UNCHANGED eventVars

\* ... and the entry appended to the file, or the error logged.
WriteAdminLog(l) ==
    /\ Unlock(l)
    /\ Step(l, "write", "receive")
    /\ \/ adminLog' = adminLog \cup {inbox[l]} /\ UNCHANGED unlogged
       \/ unlogged' = unlogged \cup {inbox[l]} /\ UNCHANGED adminLog
    /\ Handled(l)
    /\ UNCHANGED <<listeners, deliveries, fired>>

\* A listener for mails receives an event and mails the contractor, or not:
\* the contractor is not found or did not ask for it, the mail server fails.
\* It meets nobody meanwhile: one step.
EmailNotification(l, e) ==
    /\ <<e, l>> \in deliveries
    /\ pc[l] = "receive"
    /\ deliveries' = deliveries \ {<<e, l>>}
    /\ handled' = [handled EXCEPT ![l] = @ \cup {e}]
    /\ UNCHANGED <<pc, mutex, listeners, inbox, adminLog, fired, unlogged>>

MailStatusChange(l, e) == l = "statusMail" /\ EmailNotification(l, e)

MailPaid(l, e) == l = "paidMail" /\ EmailNotification(l, e)

Listen(l) ==
    \/ \E e \in fired : Receive(l, e) \/ MailStatusChange(l, e) \/ MailPaid(l, e)
    \/ SkipWithoutAdmin(l)
    \/ LogAdminAction(l)
    \/ WriteAdminLog(l)

\* What is lost when the process ends.
EventsLost ==
    /\ listeners' = {}
    /\ deliveries' = {}
    /\ inbox' = [l \in Listeners |-> NoEvent]
    /\ UNCHANGED <<adminLog, fired, handled, unlogged>>

-----------------------------------------------------------------------------
(* The event manager as a mailbox *)

Pending ==
    [l \in Listeners |->
        {e \in fired : <<e, l>> \in deliveries} \cup ({inbox[l]} \ {NoEvent})]

Abstract == INSTANCE Mailbox WITH
    Events     <- Event,
    Interested <- [l \in Listeners |-> {e \in Event : e.type = ListensTo[l]}],
    open       <- listeners,
    pending    <- Pending
=============================================================================
