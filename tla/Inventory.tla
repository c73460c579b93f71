----------------------------- MODULE Inventory -----------------------------
(***************************************************************************)
(* Loading the invoices of politeiad into the database, at startup or by   *)
(* the first request that needs them, and the payment checker that starts  *)
(* from what was loaded.  LoadInventory holds the server's lock while it   *)
(* calls politeiad and while it creates one row after the other; nothing   *)
(* is undone when it fails half way.                                       *)
(*                                                                         *)
(* A record is its token.  The records are those politeiad has when the    *)
(* server starts: new ones are submitted through the loaded server only    *)
(* (InvoiceLifecycle).                                                     *)
(***************************************************************************)
EXTENDS Goroutines

CONSTANTS
    Tokens,      \* the records of politeiad
    Approved     \* those that are approved and have an unpaid payment

ASSUME InventoryAssumption == Approved \subseteq Tokens

VARIABLES
    rows,        \* tokens of the invoice table
    loaded,      \* inventoryLoaded
    toCreate,    \* records that the loading goroutine has still to create
    watched,     \* polledPayments: invoices whose payments are polled
    found,       \* invoices whose payments the poller found in its round
    paid,        \* invoices whose payments are recorded, in politeiad too
    \* History variables: no guard reads them.
    halfLoaded,  \* a load failed and left rows
    early        \* the inventory was loaded when the checker was started

inventoryVars == <<rows, loaded, toCreate, watched, found, paid, halfLoaded, early>>

InventoryInit ==
    /\ rows = {}
    /\ loaded = FALSE
    /\ toCreate = {}
    /\ watched = {}
    /\ found = {}
    /\ paid = {}
    /\ halfLoaded = FALSE
    /\ early = FALSE

\* cockroachdb.New: the invoice tables of the last run are dropped.
New(g, from, to) ==
    /\ Step(g, from, to)
    /\ rows' = {}
    /\ halfLoaded' = FALSE
    /\ UNCHANGED <<mutex, loaded, toCreate, watched, found, paid, early>>

-----------------------------------------------------------------------------
(* LoadInventory by goroutine g, which goes on to "to" or "failed" *)

\* Loaded already: the lock is taken and released.
AlreadyLoaded(g, to) ==
    /\ loaded
    /\ LockIsFree
    /\ Step(g, "load", to)
    /\ UNCHANGED <<mutex, inventoryVars>>

\* The lock is taken and politeiad called.
CallInventory(g) ==
    /\ ~loaded
    /\ Lock(g)
    /\ Step(g, "load", "fetch")
    /\ UNCHANGED inventoryVars

\* remoteInventory returns.
RemoteInventory(g) ==
    /\ Step(g, "fetch", "create")
    /\ toCreate' = Tokens
    /\ UNCHANGED <<mutex, rows, loaded, watched, found, paid, halfLoaded, early>>

\* newInventoryRecord: the token is the primary key.
NewInventoryRecord(g, t) ==
    /\ pc[g] = "create"
    /\ t \in toCreate \ rows
    /\ rows' = rows \cup {t}
    /\ toCreate' = toCreate \ {t}
    /\ UNCHANGED <<pc, mutex, loaded, watched, found, paid, halfLoaded, early>>

\* All records are created.
LoadReturns(g, to) ==
    /\ toCreate = {}
    /\ Step(g, "create", to)
    /\ Unlock(g)
    /\ loaded' = TRUE
    /\ UNCHANGED <<rows, toCreate, watched, found, paid, halfLoaded, early>>

\* Mutant: when a row cannot be created the lock is kept.
LoadFailsLocked(g, failed) ==
    /\ \/ Step(g, "fetch", failed) /\ Unlock(g)
       \/ Step(g, "create", failed) /\ toCreate # {} /\ UNCHANGED mutex
    /\ toCreate' = {}
    /\ halfLoaded' = (rows # {})
    /\ UNCHANGED <<rows, loaded, watched, found, paid, early>>

\* politeiad cannot be reached or answers with an error, or a row cannot be
\* created, because the database fails or the row is there already.
LoadFails(g, failed) ==
    /\ \/ Step(g, "fetch", failed)
       \/ Step(g, "create", failed) /\ toCreate # {}
    /\ Unlock(g)
    /\ toCreate' = {}
    /\ halfLoaded' = (rows # {})
    /\ UNCHANGED <<rows, loaded, watched, found, paid, early>>

-----------------------------------------------------------------------------
(* The payment checker *)

\* Mutant: the invoices are not filtered by their status.
InitPaymentCheckerAll(g, from, to) ==
    /\ LockIsFree
    /\ pc[g] = from
    /\ pc' = [pc EXCEPT ![g] = to, ![Poller] = "snapshot"]
    /\ watched' = rows
    /\ early' = loaded
    /\ UNCHANGED <<mutex, rows, loaded, toCreate, found, paid, halfLoaded>>

\* initPaymentChecker: the unpaid payments of the approved invoices of the
\* table are polled; then the poller runs.
InitPaymentChecker(g, from, to) ==
    /\ LockIsFree
    /\ pc[g] = from
    /\ pc' = [pc EXCEPT ![g] = to, ![Poller] = "snapshot"]
    /\ watched' = (Approved \ paid) \cap rows
    /\ early' = loaded
    /\ UNCHANGED <<mutex, rows, loaded, toCreate, found, paid, halfLoaded>>

\* createPolledPaymentsCopy
PollSnapshot ==
    /\ LockIsFree
    /\ watched # {}
    /\ Step(Poller, "snapshot", "check")
    /\ UNCHANGED <<mutex, inventoryVars>>

\* checkForInvoicePayments finds a transaction and records it ...
PollFinds(t) ==
    /\ t \in watched \ paid
    /\ Step(Poller, "check", "fire")
    /\ found' = found \cup {t}
    /\ paid' = paid \cup {t}
    /\ UNCHANGED <<mutex, rows, loaded, toCreate, watched, halfLoaded, early>>

\* ... or nothing more; invoices that are paid are dropped as well.
PollEnds ==
    /\ Step(Poller, "check", "remove")
    /\ found' = found \cup (watched \cap paid)
    /\ UNCHANGED <<mutex, rows, loaded, toCreate, watched, paid, halfLoaded, early>>

\* Mutant: what was polled is removed, found or not.
PollRemovesAll ==
    /\ LockIsFree
    /\ Step(Poller, "remove", "snapshot")
    /\ watched' = {}
    /\ found' = {}
    /\ UNCHANGED <<mutex, rows, loaded, toCreate, paid, halfLoaded, early>>

\* removeInvoicePaymentsFromPolling
PollRemoves ==
    /\ LockIsFree
    /\ Step(Poller, "remove", "snapshot")
    /\ watched' = watched \ found
    /\ found' = {}
    /\ UNCHANGED <<mutex, rows, loaded, toCreate, paid, halfLoaded, early>>

\* addInvoicePaymentForPolling, by a request that creates or renews a payment.
AddForPolling(g, t, to) ==
    /\ LockIsFree
    /\ Step(g, "poll", to)
    /\ watched' = watched \cup {t}
    /\ UNCHANGED <<mutex, rows, loaded, toCreate, found, paid, halfLoaded, early>>

\* What is lost when the process ends.  The table stays until the next start.
InventoryLost ==
    /\ loaded' = FALSE
    /\ toCreate' = {}
    /\ watched' = {}
    /\ found' = {}
    /\ early' = FALSE
    /\ UNCHANGED <<rows, paid, halfLoaded>>
=============================================================================
