------------------------------ MODULE Payments ------------------------------
(***************************************************************************)
(* How invoices get paid.  An admin's request creates a payment: it        *)
(* derives a fresh address from the contractor's key, has politeiad store  *)
(* the invoice's payments, saves them, and puts the address into the map   *)
(* of polled payments.  A poller goroutine walks over snapshots of that    *)
(* map, asks block explorers for a transaction and records it, as an admin *)
(* can do by hand.  Requests and poller work on copies of the invoice that *)
(* they read before they call out.                                         *)
(*                                                                         *)
(* All invoices here are of one contractor: address indices of different   *)
(* contractors never meet.  "pending" stands for every status but          *)
(* "approved" and "paid"; amounts and transaction ids are abstracted       *)
(* (paid: TxID is not empty).  Left out: an admin's update with an empty   *)
(* transaction id, which the code accepts and which takes the recorded one *)
(* back.                                                                   *)
(***************************************************************************)
EXTENDS Naturals, Sequences

CONSTANTS
    Admins,      \* goroutines serving admin requests (slots, reused)
    Poller,      \* the goroutine of checkForPayments
    Tokens,      \* the contractor's invoices
    NoToken,
    MaxIndex,    \* bound on address indices
    MaxPayments, \* bound on the payments of an invoice
    MaxRestarts, \* bound on restarts of the server
    Lapsing,     \* bound: addresses whose entries may expire
    Arriving,    \* bound: addresses to which a transaction may be sent
    Polling,     \* bound: whether the poller runs
    Deciding,    \* bound: whether invoices are edited and reviewed
    Losing,      \* bound: whether a save can be done and reported as failed
    Rewinding    \* bound: whether stale copies of the user are saved

ASSUME ConstantsAssumption ==
    /\ Poller \notin Admins
    /\ NoToken \notin Tokens
    /\ Tokens \cap (0..MaxIndex) = {} \* neither is a key of the other's maps
    /\ {MaxIndex, MaxPayments, MaxRestarts} \subseteq Nat
    /\ Lapsing \cup Arriving \subseteq 0..MaxIndex
    /\ {Polling, Deciding, Losing, Rewinding} \subseteq BOOLEAN

VARIABLES
    rows,     \* rows[t]: invoice_payments of t; the position is the row's id
    status,   \* status[t]: the status in the invoice row of t
    stream,   \* stream[t]: the payments stream of t's record in politeiad
    pdStatus, \* pdStatus[t]: the status t's change stream ends in
    index,    \* PaymentAddressIndex in the contractor's user row
    polled,   \* polledPayments: address -> token, NoToken when not in the map
    lapsed,   \* addresses of the map whose pollExpiry is in the past
    todo,     \* the poller's snapshot: what it has not checked yet
    old,      \* addresses of the snapshot whose copied expiry is in the past
    remove,   \* keys the poller will delete from the map after its round
    req,      \* req[w]: what worker w is doing, with its copy of the invoice
    arrived,  \* addresses for which the explorers know a transaction
    restarts,
    \* History variables: no guard reads them.
    contended, \* invoices that overlapping workers wrote
    reused,    \* saves of the contractor's user row have overlapped
    missed,    \* invoices whose payments were dropped, or never entered the map
    recorded   \* <<token, address>> of the transactions recorded

dbVars   == <<rows, status, index>>
pdVars   == <<stream, pdStatus>>
pollVars == <<polled, lapsed, todo, old, remove>>
history  == <<contended, reused, missed, recorded>>
vars == <<dbVars, pdVars, pollVars, req, arrived, restarts, history>>

Workers   == Admins \cup {Poller}
Addresses == 0..MaxIndex
Statuses  == {"pending", "approved", "paid"}
Payment   == [addr : Addresses, total : BOOLEAN, paid : BOOLEAN]

Idle == [op |-> "none", step |-> "idle", token |-> NoToken, addr |-> 0, dropped |-> 0,
         payments |-> <<>>, saved |-> 0, status |-> "approved"]

Request == [op       : {"none", "total", "extra", "update", "poll", "edit", "approve", "close"},
            step     : {"idle", "read", "refreshed", "derived", "ready", "accepted", "stored"},
            token    : Tokens \cup {NoToken},
            addr     : Addresses,     \* address derived, or to mark as paid
            dropped  : Addresses,     \* address it replaces, or addr again
            payments : Seq(Payment),  \* the copy; new payments at its end
            saved    : Nat,           \* how many of them have a row
            status   : Statuses]

InFlight(w) == req[w].step # "idle"

Unpaid(payments) == {payments[i].addr : i \in {j \in DOMAIN payments : ~payments[j].paid}}

\* Worker w reads the invoice t.
GetInvoiceByToken(w, op, t, a) ==
    /\ req' = [req EXCEPT ![w] = [op |-> op, step |-> "read", token |-> t, addr |-> a,
                                  dropped |-> a, payments |-> rows[t], saved |-> Len(rows[t]),
                                  status |-> status[t]]]
    /\ contended' = IF \E v \in Workers \ {w} : req[v].token = t
                    THEN contended \cup {t} ELSE contended

\* The rows of t after gorm saved the copy of q: rows it has an id for are
\* overwritten, new payments are inserted, other rows stay.
SavedRows(q) ==
    SubSeq(q.payments, 1, q.saved)
        \o SubSeq(rows[q.token], q.saved + 1, Len(rows[q.token]))
        \o SubSeq(q.payments, q.saved + 1, Len(q.payments))

\* Mutant: the loop's copy of the payment is marked, not the payment.
MarkCopyPaid(payments, a) == payments

\* updateInvoicePayment marks the first payment with the address.
MarkPaid(payments, a) ==
    LET i == CHOOSE j \in DOMAIN payments :
                 /\ payments[j].addr = a
                 /\ \A k \in 1..(j - 1) : payments[k].addr # a
    IN [payments EXCEPT ![i].paid = TRUE]

\* createInvoicePayment: the total-cost payment of the copy gets the new
\* address (and keeps its transaction), any other payment is new.
TotalAt(payments) == {i \in DOMAIN payments : payments[i].total}

Recreates(q) == q.op = "total" /\ TotalAt(q.payments) # {}

FirstTotal(payments) == CHOOSE i \in TotalAt(payments) : \A j \in TotalAt(payments) : i <= j

Replaced(q) == IF Recreates(q) THEN q.payments[FirstTotal(q.payments)].addr ELSE q.addr

WithNewAddress(q) ==
    IF Recreates(q)
    THEN [q.payments EXCEPT ![FirstTotal(q.payments)].addr = q.addr]
    ELSE Append(q.payments, [addr |-> q.addr, total |-> q.op = "total", paid |-> FALSE])

TypeOK ==
    /\ rows \in [Tokens -> Seq(Payment)]
    /\ status \in [Tokens -> Statuses]
    /\ stream \in [Tokens -> Seq(Payment)]
    /\ pdStatus \in [Tokens -> Statuses]
    /\ index \in Addresses
    /\ polled \in [Addresses -> Tokens \cup {NoToken}]
    /\ todo \in [Addresses -> Tokens \cup {NoToken}]
    /\ lapsed \subseteq Addresses /\ old \subseteq Addresses
    /\ remove \subseteq Addresses \cup Tokens
    /\ req \in [Workers -> Request]
    /\ arrived \subseteq Addresses
    /\ restarts \in 0..MaxRestarts
    /\ contended \subseteq Tokens
    /\ reused \in BOOLEAN
    /\ missed \subseteq Tokens
    /\ recorded \subseteq Tokens \X Addresses

Unwatched == [a \in Addresses |-> NoToken]

Init ==
    /\ rows = [t \in Tokens |-> <<>>]
    /\ status = [t \in Tokens |-> "approved"]
    /\ stream = [t \in Tokens |-> <<>>]
    /\ pdStatus = [t \in Tokens |-> "approved"]
    /\ index = 0
    /\ polled = Unwatched /\ todo = Unwatched
    /\ lapsed = {} /\ old = {} /\ remove = {}
    /\ req = [w \in Workers |-> Idle]
    /\ arrived = {}
    /\ restarts = 0
    /\ contended = {} /\ reused = FALSE /\ missed = {} /\ recorded = {}

-----------------------------------------------------------------------------
(* An admin creates a payment: HandlePayInvoices and HandlePayInvoice *)

PayRead(h, t, op) ==
    /\ ~InFlight(h)
    /\ Len(rows[t]) < MaxPayments \/ (op = "total" /\ TotalAt(rows[t]) # {})
    /\ GetInvoiceByToken(h, op, t, 0)
    /\ UNCHANGED <<dbVars, pdVars, pollVars, arrived, restarts, reused, missed, recorded>>

\* refreshExistingInvoicePayments: every unpaid payment of the copy is saved
\* with a new expiry and polled (again).
Refresh(h) ==
    LET q == req[h]
        again == Unpaid(q.payments)
    IN
    /\ q.op \in {"total", "extra"} /\ q.step = "read"
    /\ rows' = [rows EXCEPT ![q.token] =
                   [i \in DOMAIN @ |-> IF i <= q.saved /\ ~q.payments[i].paid
                                       THEN q.payments[i] ELSE @[i]]]
    /\ polled' = [a \in Addresses |-> IF a \in again THEN q.token ELSE polled[a]]
    /\ lapsed' = lapsed \ again
    /\ req' = [req EXCEPT ![h].step = "refreshed"]
    /\ UNCHANGED <<status, index, pdVars, todo, old, remove, arrived, restarts, history>>

\* derivePaymentInfo, on the user that createInvoicePayment reads here ...
DeriveRead(h) ==
    /\ req[h].step = "refreshed"
    /\ index < MaxIndex
    /\ req' = [req EXCEPT ![h].step = "derived", ![h].addr = index]
    /\ reused' = (reused \/ \E g \in Admins \ {h} : req[g].step = "derived")
    /\ UNCHANGED <<dbVars, pdVars, pollVars, arrived, restarts, contended, missed, recorded>>

\* Mutant: the next index is added to the old one.
DeriveSaveSkips(h) ==
    /\ req[h].step = "derived"
    /\ index' = index + req[h].addr + 1
    /\ req' = [req EXCEPT ![h].step = "ready", ![h].dropped = Replaced(req[h]),
                          ![h].payments = WithNewAddress(req[h])]
    /\ UNCHANGED <<rows, status, pdVars, pollVars, arrived, restarts, history>>

\* Mutant: the index is not advanced.
DeriveSaveForgets(h) ==
    /\ req[h].step = "derived"
    /\ req' = [req EXCEPT ![h].step = "ready", ![h].dropped = Replaced(req[h]),
                          ![h].payments = WithNewAddress(req[h])]
    /\ UNCHANGED <<dbVars, pdVars, pollVars, arrived, restarts, history>>

\* ... and whose next index it saves.
DeriveSave(h) ==
    /\ req[h].step = "derived"
    /\ index' = req[h].addr + 1
    /\ req' = [req EXCEPT ![h].step = "ready", ![h].dropped = Replaced(req[h]),
                          ![h].payments = WithNewAddress(req[h])]
    /\ UNCHANGED <<rows, status, pdVars, pollVars, arrived, restarts, history>>

\* updateMDPayments: politeiad overwrites the payments with the copy's.
PayAccept(h) ==
    /\ req[h].op \in {"total", "extra"} /\ req[h].step = "ready"
    /\ stream' = [stream EXCEPT ![req[h].token] = req[h].payments]
    /\ req' = [req EXCEPT ![h].step = "accepted"]
    /\ UNCHANGED <<dbVars, pdStatus, pollVars, arrived, restarts, history>>

\* A recreated payment is saved alone, a new one with the whole invoice, its
\* status as it was read included.  The save is done; whether the request
\* learns of it is left to PayPoll and Fail.
PayStore(h) ==
    LET q == req[h]
        t == q.token
        i == FirstTotal(q.payments)
    IN
    /\ q.op \in {"total", "extra"} /\ q.step = "accepted"
    /\ IF Len(q.payments) = q.saved
       THEN /\ rows' = [rows EXCEPT ![t][i] = q.payments[i]]
            /\ UNCHANGED status
       ELSE /\ rows' = [rows EXCEPT ![t] = SavedRows(q)]
            /\ status' = [status EXCEPT ![t] = q.status]
    /\ req' = [req EXCEPT ![h] = [Idle EXCEPT !.op = q.op, !.step = "stored", !.token = t,
                                              !.addr = q.addr, !.dropped = q.dropped]]
    /\ UNCHANGED <<index, pdVars, pollVars, arrived, restarts, history>>

\* Mutant: the map's two updates in the other order.
PayPollThenRemove(h) ==
    LET q == req[h] IN
    /\ q.step = "stored"
    /\ polled' = [polled EXCEPT ![q.addr] = q.token, ![q.dropped] = NoToken]
    /\ lapsed' = lapsed \ {q.dropped, q.addr}
    /\ req' = [req EXCEPT ![h] = Idle]
    /\ UNCHANGED <<dbVars, pdVars, todo, old, remove, arrived, restarts, history>>

\* The replaced address leaves the map, the new one enters it; the address
\* is handed out to the admin.
PayPoll(h) ==
    LET q == req[h] IN
    /\ q.step = "stored"
    /\ polled' = [polled EXCEPT ![q.dropped] = NoToken, ![q.addr] = q.token]
    /\ lapsed' = lapsed \ {q.dropped, q.addr}
    /\ req' = [req EXCEPT ![h] = Idle]
    /\ UNCHANGED <<dbVars, pdVars, todo, old, remove, arrived, restarts, history>>

-----------------------------------------------------------------------------
(* updateInvoicePayment: a transaction is recorded, by an admin or the poller *)

HasAddress(payments, a) == \E i \in DOMAIN payments : payments[i].addr = a

\* HandleUpdateInvoicePayment
UpdateRead(h, t, a) ==
    /\ ~InFlight(h)
    /\ HasAddress(rows[t], a)
    /\ GetInvoiceByToken(h, "update", t, a)
    /\ UNCHANGED <<dbVars, pdVars, pollVars, arrived, restarts, reused, missed, recorded>>

\* Mutant: politeiad gets the change only, not the payments.
UpdateAcceptChangeOnly(w) ==
    LET q == req[w] IN
    /\ q.op = "update" /\ q.step = "read"
    /\ HasAddress(q.payments, q.addr)
    /\ pdStatus' = IF q.status = "paid" THEN pdStatus ELSE [pdStatus EXCEPT ![q.token] = "paid"]
    /\ req' = [req EXCEPT ![w].step = "accepted", ![w].payments = MarkPaid(@, q.addr)]
    /\ UNCHANGED <<dbVars, stream, pollVars, arrived, restarts, history>>

\* politeiad stores the payments and, unless the copy is paid, the change.
\* The poller comes here when the explorers know a transaction.
UpdateAccept(w) ==
    LET q == req[w] IN
    /\ q.op \in {"update", "poll"} /\ q.step = "read"
    /\ q.op = "poll" => q.addr \in arrived
    /\ HasAddress(q.payments, q.addr)
    /\ stream' = [stream EXCEPT ![q.token] = MarkPaid(q.payments, q.addr)]
    /\ pdStatus' = IF q.status = "paid" THEN pdStatus ELSE [pdStatus EXCEPT ![q.token] = "paid"]
    /\ req' = [req EXCEPT ![w].step = "accepted", ![w].payments = MarkPaid(@, q.addr)]
    /\ UNCHANGED <<dbVars, pollVars, arrived, restarts, history>>

\* The whole copy is saved.  When no error is returned, the transaction is
\* recorded and the poller notes the address for removal.
UpdateStore(w, replied) ==
    LET q == req[w] IN
    /\ replied \/ Losing
    /\ q.op \in {"update", "poll"} /\ q.step = "accepted"
    /\ rows' = [rows EXCEPT ![q.token] = SavedRows(q)]
    /\ status' = [status EXCEPT ![q.token] = "paid"]
    /\ recorded' = IF replied THEN recorded \cup {<<q.token, q.addr>>} ELSE recorded
    /\ remove' = IF replied /\ q.op = "poll" THEN remove \cup {q.addr} ELSE remove
    /\ req' = [req EXCEPT ![w] = Idle]
    /\ UNCHANGED <<index, pdVars, polled, lapsed, todo, old, arrived, restarts,
                   contended, reused, missed>>

-----------------------------------------------------------------------------
(* The contractor edits the invoice, an admin approves it or marks it paid *)

Decision == [edit |-> "pending", approve |-> "approved", close |-> "paid"]

\* HandleEditInvoice asks for no status, HandleSetInvoiceStatus for the one
\* that leads to its decision.
DecideRead(h, t, op) ==
    /\ Deciding
    /\ ~InFlight(h)
    /\ op = "approve" => status[t] = "pending"
    /\ op = "close" => status[t] = "approved"
    /\ GetInvoiceByToken(h, op, t, 0)
    /\ UNCHANGED <<dbVars, pdVars, pollVars, arrived, restarts, reused, missed, recorded>>

\* politeiad appends the change.
DecideAccept(h) ==
    /\ req[h].op \in DOMAIN Decision /\ req[h].step = "read"
    /\ pdStatus' = [pdStatus EXCEPT ![req[h].token] = Decision[req[h].op]]
    /\ req' = [req EXCEPT ![h].step = "accepted"]
    /\ UNCHANGED <<dbVars, stream, pollVars, arrived, restarts, history>>

\* The whole copy is saved, payments included.
DecideStore(h) ==
    LET q == req[h] IN
    /\ q.op \in DOMAIN Decision /\ q.step = "accepted"
    /\ rows' = [rows EXCEPT ![q.token] = SavedRows(q)]
    /\ status' = [status EXCEPT ![q.token] = Decision[q.op]]
    /\ req' = [req EXCEPT ![h] = Idle]
    /\ UNCHANGED <<index, pdVars, pollVars, arrived, restarts, history>>

-----------------------------------------------------------------------------
(* The poller: checkForPayments *)

\* createPolledPaymentsCopy starts a round.
Snapshot ==
    /\ Polling
    /\ ~InFlight(Poller)
    /\ todo = Unwatched /\ remove = {}
    /\ polled # Unwatched
    /\ todo' = polled
    /\ old' = lapsed
    /\ UNCHANGED <<dbVars, pdVars, polled, lapsed, remove, req, arrived, restarts, history>>

\* Mutant: the expiry test is inverted.
PollReadInverted(a) ==
    LET t == todo[a] IN
    /\ ~InFlight(Poller)
    /\ t # NoToken
    /\ todo' = [todo EXCEPT ![a] = NoToken]
    /\ missed' = IF status[t] = "paid" THEN missed \cup {t} ELSE missed
    /\ IF status[t] = "paid" \/ a \notin old
       THEN /\ remove' = remove \cup {IF status[t] = "paid" THEN a ELSE t}
            /\ UNCHANGED <<req, contended>>
       ELSE GetInvoiceByToken(Poller, "poll", t, a) /\ UNCHANGED remove
    /\ UNCHANGED <<dbVars, pdVars, polled, lapsed, old, arrived, restarts, reused, recorded>>

\* Mutant: every address that was looked at is noted for removal.
PollReadRemoves(a) ==
    LET t == todo[a] IN
    /\ ~InFlight(Poller)
    /\ t # NoToken
    /\ todo' = [todo EXCEPT ![a] = NoToken]
    /\ missed' = IF status[t] = "paid" THEN missed \cup {t} ELSE missed
    /\ remove' = remove \cup {a}
    /\ IF status[t] = "paid" \/ a \in old
       THEN UNCHANGED <<req, contended>>
       ELSE GetInvoiceByToken(Poller, "poll", t, a)
    /\ UNCHANGED <<dbVars, pdVars, polled, lapsed, old, arrived, restarts, reused, recorded>>

\* The invoice of the next entry is read.  A paid one's address is noted for
\* removal; for an expired one it is the token, which is no key of the map.
PollRead(a) ==
    LET t == todo[a] IN
    /\ ~InFlight(Poller)
    /\ t # NoToken
    /\ todo' = [todo EXCEPT ![a] = NoToken]
    /\ missed' = IF status[t] = "paid" THEN missed \cup {t} ELSE missed
    /\ \/ /\ status[t] = "paid"
          /\ remove' = remove \cup {a}
          /\ UNCHANGED <<req, contended>>
       \/ /\ status[t] # "paid" /\ a \in old
          /\ remove' = remove \cup {t}
          /\ UNCHANGED <<req, contended>>
       \/ /\ status[t] # "paid" /\ a \notin old
          /\ GetInvoiceByToken(Poller, "poll", t, a)
          /\ UNCHANGED remove
    /\ UNCHANGED <<dbVars, pdVars, polled, lapsed, old, arrived, restarts, reused, recorded>>

\* The explorers know no transaction to the address, or the copy has no
\* payment with it: the poller goes on to the next entry.
NothingFound ==
    /\ req[Poller].step = "read"
    /\ \/ req[Poller].addr \notin arrived
       \/ ~HasAddress(req[Poller].payments, req[Poller].addr)
    /\ req' = [req EXCEPT ![Poller] = Idle]
    /\ UNCHANGED <<dbVars, pdVars, pollVars, arrived, restarts, history>>

\* removeInvoicePaymentsFromPolling ends a round that found something.
RemoveFromPolling ==
    /\ ~InFlight(Poller)
    /\ todo = Unwatched /\ remove # {}
    /\ polled' = [a \in Addresses |-> IF a \in remove THEN NoToken ELSE polled[a]]
    /\ lapsed' = lapsed \ remove
    /\ remove' = {}
    /\ UNCHANGED <<dbVars, pdVars, todo, old, req, arrived, restarts, history>>

-----------------------------------------------------------------------------
(* The environment *)

\* A call to politeiad, the database or the explorers fails, or its reply is
\* lost: the request ends with an error, the poller goes on to the next entry.
\* A payment whose save was done, and reported as failed, never enters the map.
Fail(w) ==
    /\ InFlight(w)
    /\ req[w].step = "stored" => Losing
    /\ req' = [req EXCEPT ![w] = Idle]
    /\ missed' = IF req[w].step = "stored" THEN missed \cup {req[w].token} ELSE missed
    /\ UNCHANGED <<dbVars, pdVars, pollVars, arrived, restarts, contended, reused, recorded>>

\* A transaction to an address that was handed out gets confirmed.
Arrive(a) ==
    /\ a \in Arriving \ arrived /\ polled[a] # NoToken
    /\ arrived' = arrived \cup {a}
    /\ UNCHANGED <<dbVars, pdVars, pollVars, req, restarts, history>>

\* pollExpiryDuration passes since an entry was put into the map.
Lapse(a) ==
    /\ a \in Lapsing \ lapsed /\ polled[a] # NoToken
    /\ lapsed' = lapsed \cup {a}
    /\ old' = IF todo[a] # NoToken THEN old \cup {a} ELSE old
    /\ UNCHANGED <<dbVars, pdVars, polled, todo, remove, req, arrived, restarts, history>>

\* A request of the contractor (a login, a changed profile) saves the user
\* it read when the index was n.  A zero index is blank and is not saved.
SaveStaleUser(n) ==
    /\ Rewinding /\ n < index
    /\ index' = n
    /\ reused' = TRUE
    /\ UNCHANGED <<rows, status, pdVars, pollVars, req, arrived, restarts, contended, missed, recorded>>

\* The invoices that a start leaves with nothing in the map: those that are
\* not approved, and all when the load at startup failed.
NotLoaded(loaded) ==
    {t \in Tokens : pdStatus[t] # "approved" \/ (~loaded /\ Unpaid(stream[t]) # {})}

\* Mutant: the restarted server polls nothing.
RestartUnwatched(loaded) ==
    /\ restarts < MaxRestarts
    /\ restarts' = restarts + 1
    /\ rows' = stream
    /\ status' = pdStatus
    /\ polled' = Unwatched
    /\ lapsed' = {} /\ old' = {} /\ remove' = {}
    /\ todo' = Unwatched
    /\ req' = [w \in Workers |-> Idle]
    /\ missed' = NotLoaded(loaded)
    /\ UNCHANGED <<index, pdVars, arrived, contended, reused, recorded>>

\* The server restarts: the tables are loaded from politeiad, at startup or,
\* when that failed, in front of the first request that needs them.  After
\* the load at startup addInvoicePaymentsForPolling polls the approved
\* invoices' unpaid payments; a load that failed is logged, and then it finds
\* no invoice.
Restart(loaded) ==
    /\ restarts < MaxRestarts
    /\ restarts' = restarts + 1
    /\ rows' = stream
    /\ status' = pdStatus
    /\ polled' = [a \in Addresses |->
                    LET at == {t \in Tokens \ NotLoaded(loaded) : a \in Unpaid(stream[t])}
                    IN IF at = {} THEN NoToken ELSE CHOOSE t \in at : TRUE]
    /\ lapsed' = {} /\ old' = {} /\ remove' = {}
    /\ todo' = Unwatched
    /\ req' = [w \in Workers |-> Idle]
    /\ missed' = NotLoaded(loaded)
    /\ UNCHANGED <<index, pdVars, arrived, contended, reused, recorded>>

PayStep(h) ==
    \/ \E t \in Tokens, op \in {"total", "extra"} : PayRead(h, t, op)
    \/ Refresh(h)
    \/ DeriveRead(h)
    \/ DeriveSave(h)
    \/ PayAccept(h)
    \/ PayStore(h)
    \/ PayPoll(h)

Next ==
    \/ \E h \in Admins : PayStep(h)
    \/ \E h \in Admins, t \in Tokens, a \in Addresses : UpdateRead(h, t, a)
    \/ \E h \in Admins, t \in Tokens, op \in DOMAIN Decision : DecideRead(h, t, op)
    \/ \E h \in Admins : DecideAccept(h)
    \/ \E h \in Admins : DecideStore(h)
    \/ \E w \in Workers : UpdateAccept(w)
    \/ \E w \in Workers, replied \in BOOLEAN : UpdateStore(w, replied)
    \/ Snapshot
    \/ \E a \in Addresses : PollRead(a)
    \/ NothingFound
    \/ RemoveFromPolling
    \/ \E w \in Workers : Fail(w)
    \/ \E a \in Addresses : Arrive(a)
    \/ \E a \in Addresses : Lapse(a)
    \/ \E n \in 1..MaxIndex : SaveStaleUser(n)
    \/ \E loaded \in BOOLEAN : Restart(loaded)

Spec == Init /\ [][Next]_vars

\* The poller is a loop that never ends; what it calls fails at times, not
\* every time.  A request whose payment was saved has only the map left to
\* update, unless it ends with an error.  Nobody owes an admin's request or a
\* transaction.
Fairness ==
    /\ \A h \in Admins : WF_vars(PayPoll(h))
    /\ WF_vars(Snapshot)
    /\ WF_vars(\E a \in Addresses : PollRead(a))
    /\ WF_vars(RemoveFromPolling)
    /\ WF_vars(NothingFound)
    /\ \A a \in Addresses :
           /\ SF_vars(req[Poller].addr = a /\ UpdateAccept(Poller))
           /\ SF_vars(req[Poller].addr = a /\ \E replied \in BOOLEAN : UpdateStore(Poller, replied))

FairSpec == Spec /\ Fairness

-----------------------------------------------------------------------------
(* Properties *)

\* No two payments of a contractor share an address, in the rows of all
\* invoices and in politeiad, unless a derivation overlapped another one or
\* another save of the user: a failed request, a recreated payment or a
\* restart never hands an address out again.
AddressesDistinct ==
    ~reused =>
        \A t, u \in Tokens :
            /\ \A i \in DOMAIN rows[t], j \in DOMAIN rows[u] :
                   rows[t][i].addr = rows[u][j].addr => t = u /\ i = j
            /\ \A i \in DOMAIN stream[t], j \in DOMAIN stream[u] :
                   stream[t][i].addr = stream[u][j].addr => t = u /\ i = j

\* The payment of t at address a has its transaction, or no longer exists.
PaidOrGone(payments, a) ==
    \A i \in DOMAIN payments : payments[i].addr = a => payments[i].paid

\* A recorded transaction is not forgotten: neither the table nor politeiad
\* shows the payment as unpaid later, whatever fails and restarts, unless
\* overlapping workers wrote the invoice from stale copies.  What is left is
\* what one request after another could undo: a payment refreshed, recreated
\* or added, a review, and a load from politeiad after a half-failed update.
RecordedStaysPaid ==
    ~reused => \A r \in recorded :
        r[1] \notin contended => PaidOrGone(rows[r[1]], r[2]) /\ PaidOrGone(stream[r[1]], r[2])

\* A request past the save whose address is about to enter the map.
Entering(a) == \E h \in Admins : req[h].step = "stored" /\ req[h].addr = a

\* Every unpaid payment of an approved invoice is watched, as the comment on
\* pollExpiryDuration says: it is in the map of polled payments, through
\* failed calls, repeated requests and restarts, and the
\* poller's late removal, after a round on an old snapshot, drops no other.
\* The code loses those of an invoice that overlapping workers wrote, that the
\* poller found paid, or the last start not approved, before it was edited and
\* approved again, those that the last start did not load before its poller
\* did (www.go logs the failed load and goes on), and those of an invoice with
\* a payment whose save was done but reported as failed.
UnpaidIsWatched ==
    ~reused => \A t \in Tokens \ (contended \cup missed) :
        status[t] = "approved" =>
            \A a \in Unpaid(rows[t]) : polled[a] = t \/ Entering(a)

\* A transaction to a watched address ends up in the payment's row, unless
\* the entry expires first, the address is replaced by a recreated payment,
\* the poller finds the invoice paid otherwise, or overlapping workers write
\* the invoice (a request's stale copy can undo what the poller stored
\* before the poller drops the address).
TransactionNoticed ==
    \A a \in Addresses, t \in Tokens :
        (polled[a] = t /\ a \in arrived)
            ~> (\/ PaidOrGone(rows[t], a)
                \/ a \in lapsed
                \/ t \in contended \cup missed)

\* What the poller logs for an expired entry, "removing from polling, poll
\* has expired": it leaves the map, or somebody renews it.
ExpiredIsRemoved == \A a \in Addresses : (a \in lapsed) ~> (a \notin lapsed)

\* What route_protocol.go says of PayInvoice: a paid invoice can get further
\* payments.  The payments whose transactions were recorded stay.
PaidPaymentsKept ==
    \A r \in recorded : r[1] \notin contended => HasAddress(rows[r[1]], r[2])
=============================================================================
