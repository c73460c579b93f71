----------------------------- MODULE Goroutines -----------------------------
(***************************************************************************)
(* The goroutines of the server and the lock they share: the RWMutex that  *)
(* is embedded in the cmswww structure.  A section that is held for no     *)
(* call that could block is one step, which needs the lock to be free.     *)
(***************************************************************************)
CONSTANTS
    Main,      \* the goroutine of _main
    Poller,    \* the goroutine of checkForPayments
    Requests,  \* goroutines serving requests (slots, reused)
    Nobody

\* The goroutines started by initEventManager, one per listener.
Listeners == {"statusLog", "userLog", "statusMail", "paidMail"}

Goroutines == {Main, Poller} \cup Requests \cup Listeners

ASSUME GoroutinesAssumption ==
    /\ Main # Poller
    /\ {Main, Poller} \cap Requests = {}
    /\ ({Main, Poller} \cup Requests) \cap Listeners = {}
    /\ Nobody \notin Goroutines

VARIABLES
    pc,     \* pc[g]: what goroutine g does next
    mutex   \* who holds the lock

LockIsFree == mutex = Nobody

Lock(g) == LockIsFree /\ mutex' = g

Unlock(g) == mutex = g /\ mutex' = Nobody

\* Goroutine g goes from one step to another.
Step(g, from, to) ==
    /\ pc[g] = from
    /\ pc' = [pc EXCEPT ![g] = to]
=============================================================================
