-------------------------- MODULE InvoiceLifecycle --------------------------
(***************************************************************************)
(* The life of an invoice in cmswww.  Every invoice is a record in         *)
(* politeiad (the source of truth, reached by HTTP) and a row in the       *)
(* CockroachDB tables (a cache of it).  A request handler is a goroutine   *)
(* that reads the row, has politeiad accept a change, and only then writes *)
(* its own, possibly stale, copy of the row back.  Handlers run            *)
(* concurrently and no lock or transaction spans a handler: each of those  *)
(* steps is an action here, any of them may fail, and the process may die  *)
(* between any two of them.  A restart drops the invoice tables and loads  *)
(* them again from politeiad.                                              *)
(***************************************************************************)
EXTENDS Naturals, Sequences, Functions

CONSTANTS
    Handlers,  \* goroutines serving requests (slots, reused)
    Tokens,    \* the tokens politeiad can hand out
    Users,     \* contractors, each with the keys it signs with
    Months,    \* the months of the years
    NoToken, NoPeriod,
    MaxStamp   \* bound: how many changes politeiad accepts in a behaviour

ASSUME ConstantsAssumption ==
    /\ MaxStamp \in Nat
    /\ NoToken \notin Tokens
    /\ NoPeriod \notin Users \X Months

VARIABLES
    up,        \* the server process is running with its inventory loaded
    pd,        \* pd[t]: politeiad's record
    db,        \* db[t]: the invoice row and its invoice_changes rows
    req,       \* req[h]: the request handler h is serving, with its local state
    clock,     \* the next change timestamp
    \* History variables: no guard reads them.
    contended, \* handlers whose request overlapped another on the same token
    dirty,     \* tokens whose row may disagree with politeiad
    raced,     \* periods whose submissions overlapped or failed half way
    taken,     \* periods that an edit moved somebody else's invoice to
    acked      \* <<token, stamp>> of the changes a handler completed

serverVars == <<up, pd, db, req, clock>>
vars == <<up, pd, db, req, clock, contended, dirty, raced, taken, acked>>

-----------------------------------------------------------------------------
(* Statuses and records *)

\* Statuses a row or a change can hold; "notFound" of the enumeration is
\* never stored, and "invalid" is a row without any change.
StoredStatus == {"notReviewed", "unreviewedChanges", "rejected", "approved", "paid"}
RowStatus == StoredStatus \cup {"invalid"}

Change == [status : StoredStatus, stamp : Nat]

NewChange(status, stamp) == [status |-> status, stamp |-> stamp]

\* A contractor's month, which has at most one invoice.
Periods == Users \X Months

MonthOf(p) == p[2]

NoRecord == [phase |-> "none", period |-> NoPeriod, changes |-> <<>>]

Record == [phase   : {"none", "unvetted", "vetted"},
           period  : Periods \cup {NoPeriod},
           changes : Seq(Change)]

Row == [live : BOOLEAN, period : Periods \cup {NoPeriod},
        status : RowStatus, changes : SUBSET Change]

\* The transitions the admin's review handler accepts.
validStatusTransitions ==
    [s \in RowStatus |->
        CASE s = "notReviewed"       -> {"approved", "rejected"}
          [] s = "rejected"          -> {"approved", "unreviewedChanges"}
          [] s = "unreviewedChanges" -> {"approved", "rejected"}
          [] s = "approved"          -> {"paid"}
          [] OTHER                   -> {}]

validateStatusTransition(from, to) == to \in validStatusTransitions[from]

\* Mutant: the zero status is taken for "not found".
LastStatusUnset(changes) ==
    IF changes = <<>> THEN "notFound" ELSE changes[Len(changes)].status

\* The status a change stream ends in.
LastStatus(changes) ==
    IF changes = <<>> THEN "invalid" ELSE changes[Len(changes)].status

\* Mutant: only vetted records are loaded.
ConvertVettedOnly(r) ==
    [live    |-> r.phase = "vetted",
     period  |-> r.period,
     status  |-> LastStatus(r.changes),
     changes |-> Range(r.changes)]

\* The row that a politeiad record becomes: the status is the last change's.
convertRecordToDatabaseInvoice(r) ==
    [live    |-> r.phase # "none",
     period  |-> r.period,
     status  |-> LastStatus(r.changes),
     changes |-> Range(r.changes)]

\* Mutant: the change is recorded, the status field is forgotten.
EncodeWithoutStatus(row, q) ==
    [live |-> row.live, period |-> row.period, status |-> row.status,
     changes |-> row.changes \cup (IF q.appends THEN {NewChange(q.to, q.stamp)} ELSE {})]

\* Mutant: the changes of the copy replace the rows instead of being inserted.
EncodeReplacingChanges(row, q) ==
    [live |-> row.live, period |-> row.period, status |-> q.to,
     changes |-> IF q.appends THEN {NewChange(q.to, q.stamp)} ELSE row.changes]

\* The status of the row that is written: the last appended change decides,
\* otherwise the status field of the handler's copy.
EncodeInvoice(row, q) ==
    [live |-> row.live, period |-> row.period, status |-> q.to,
     changes |-> row.changes \cup (IF q.appends THEN {NewChange(q.to, q.stamp)} ELSE {})]

-----------------------------------------------------------------------------
(* Requests *)

Idle == [op |-> "none", step |-> "idle", token |-> NoToken, period |-> NoPeriod,
         seen |-> "invalid", to |-> "invalid", appends |-> FALSE, stamp |-> 0]

Request == [op      : {"none", "submit", "review", "edit", "pay"},
            step    : {"idle", "read", "filed", "accepted"},
            token   : Tokens \cup {NoToken},
            period  : Periods \cup {NoPeriod},
            seen    : RowStatus,   \* status in the handler's copy of the row
            to      : RowStatus,   \* status the handler will store
            appends : BOOLEAN,     \* it appends a change record
            stamp   : Nat]         \* the timestamp of that change

\* A request that has read the row of t and is to move it to status s; an
\* edit also gives the record the period p.
OnRow(op, t, s, appends, p) ==
    [op |-> op, step |-> "read", token |-> t, period |-> p,
     seen |-> db[t].status, to |-> s, appends |-> appends, stamp |-> 0]

\* Request q after politeiad's reply, about token t with a change stamped n.
Replied(q, step, t, n) ==
    [op |-> q.op, step |-> step, token |-> t, period |-> q.period,
     seen |-> q.seen, to |-> q.to, appends |-> q.appends, stamp |-> n]

InFlight(h) == req[h].step # "idle"

OnToken(t) == {h \in Handlers : InFlight(h) /\ req[h].token = t}

Submitting(p) == {h \in Handlers : req[h].op = "submit" /\ req[h].period = p}

Filed(p) == {t \in Tokens : pd[t].phase # "none" /\ pd[t].period = p}

\* politeiad with a change to status s at the end of t's stream and p in its
\* general metadata.
Appended(t, s, p) ==
    [pd EXCEPT ![t] = [phase   |-> "vetted",
                       period  |-> p,
                       changes |-> Append(pd[t].changes, NewChange(s, clock))]]

\* A handler reads the row of t and decides to move it to status s.
BeginOnToken(h, op, t, s, appends, p) ==
    /\ up
    /\ ~InFlight(h)
    /\ db[t].live
    /\ req' = [req EXCEPT ![h] = OnRow(op, t, s, appends, p)]
    /\ contended' = IF OnToken(t) = {} THEN contended \ {h}
                                       ELSE contended \cup OnToken(t) \cup {h}
    /\ dirty' = IF OnToken(t) = {} THEN dirty ELSE dirty \cup {t}
    /\ UNCHANGED <<up, pd, db, clock, raced, taken, acked>>

TypeOK ==
    /\ up \in BOOLEAN
    /\ pd \in [Tokens -> Record]
    /\ db \in [Tokens -> Row]
    /\ req \in [Handlers -> Request]
    /\ clock \in 0..MaxStamp
    /\ contended \subseteq Handlers
    /\ dirty \subseteq Tokens
    /\ raced \subseteq Periods
    /\ taken \subseteq Periods
    /\ acked \subseteq Tokens \X Nat

Init ==
    /\ up = TRUE
    /\ pd = [t \in Tokens |-> NoRecord]
    /\ db = [t \in Tokens |-> convertRecordToDatabaseInvoice(NoRecord)]
    /\ req = [h \in Handlers |-> Idle]
    /\ clock = 0
    /\ contended = {}
    /\ dirty = {}
    /\ raced = {}
    /\ taken = {}
    /\ acked = {}

-----------------------------------------------------------------------------
(* Submitting an invoice: HandleSubmitInvoice *)

\* The duplicate check reads the rows, politeiad is called only later.
SubmitRead(h, p) ==
    /\ up
    /\ ~InFlight(h)
    /\ \A t \in Tokens : ~(db[t].live /\ db[t].period = p)
    /\ req' = [req EXCEPT ![h] =
                  [op |-> "submit", step |-> "read", token |-> NoToken, period |-> p,
                   seen |-> "invalid", to |-> "notReviewed", appends |-> TRUE, stamp |-> 0]]
    /\ raced' = IF Submitting(p) = {} THEN raced ELSE raced \cup {p}
    /\ UNCHANGED <<up, pd, db, clock, contended, dirty, taken, acked>>

\* The first call: politeiad files an unvetted record and returns its token.
\* When the reply is lost the handler returns an error and the record stays.
NewRecord(h, t, replied) ==
    /\ req[h].op = "submit" /\ req[h].step = "read"
    /\ pd[t].phase = "none"
    /\ pd' = [pd EXCEPT ![t] = [phase |-> "unvetted", period |-> req[h].period,
                                changes |-> <<>>]]
    /\ req' = [req EXCEPT ![h] = IF replied THEN Replied(req[h], "filed", t, 0) ELSE Idle]
    /\ raced' = IF replied THEN raced ELSE raced \cup {req[h].period}
    /\ UNCHANGED <<up, db, clock, contended, dirty, taken, acked>>

\* The second call makes the record public with its first change.
SetUnvettedStatus(h, replied) ==
    /\ req[h].op = "submit" /\ req[h].step = "filed"
    /\ clock < MaxStamp
    /\ pd' = Appended(req[h].token, "notReviewed", pd[req[h].token].period)
    /\ clock' = clock + 1
    /\ req' = [req EXCEPT ![h] =
                  IF replied THEN Replied(req[h], "accepted", req[h].token, clock) ELSE Idle]
    /\ raced' = IF replied THEN raced ELSE raced \cup {req[h].period}
    /\ UNCHANGED <<up, db, contended, dirty, taken, acked>>

\* The row is created from the record that politeiad returned.
CreateInvoice(h) ==
    /\ req[h].op = "submit" /\ req[h].step = "accepted"
    /\ db' = [db EXCEPT ![req[h].token] =
                  convertRecordToDatabaseInvoice(
                      [phase |-> "vetted", period |-> req[h].period,
                       changes |-> <<NewChange("notReviewed", req[h].stamp)>>])]
    /\ acked' = acked \cup {<<req[h].token, req[h].stamp>>}
    /\ req' = [req EXCEPT ![h] = Idle]
    /\ UNCHANGED <<up, pd, clock, contended, dirty, raced, taken>>

-----------------------------------------------------------------------------
(* Changing the status of an invoice *)

\* Mutant: the transition is not checked.
ReviewReadUnchecked(h, t, s) == BeginOnToken(h, "review", t, s, TRUE, NoPeriod)

\* HandleSetInvoiceStatus: the transition is checked against the row.
ReviewRead(h, t, s) ==
    /\ validateStatusTransition(db[t].status, s)
    /\ BeginOnToken(h, "review", t, s, TRUE, NoPeriod)

\* HandleEditInvoice: any user u may edit any invoice, whatever its status;
\* the month stays, the key in the record becomes the editor's.
EditRead(h, u, t) ==
    /\ db[t].live
    /\ BeginOnToken(h, "edit", t, "unreviewedChanges", TRUE, <<u, MonthOf(db[t].period)>>)

\* updateInvoicePayment, called by an admin's request or by the payment
\* poller, for an invoice that has a payment (none has one before it is
\* vetted): the change is recorded unless the copy already says "paid".
PayRead(h, t) ==
    /\ db[t].status # "invalid"
    /\ BeginOnToken(h, "pay", t, "paid", db[t].status # "paid", NoPeriod)

\* createInvoicePayment, for a payment that is new to the invoice: no change
\* is recorded, but the invoice is saved with the status its handler read.
CreatePaymentRead(h, t) ==
    /\ db[t].status # "invalid"
    /\ BeginOnToken(h, "pay", t, db[t].status, FALSE, NoPeriod)

\* The period of the record of h's token once politeiad has accepted h's
\* change: an edit overwrites the general metadata, the owner's key included.
PeriodAfter(h) == IF req[h].op = "edit" THEN req[h].period ELSE pd[req[h].token].period

\* politeiad accepts the change (it knows vetted records only).  The row keeps
\* its user until the next load derives it from the record's key.
UpdateVetted(h, replied) ==
    LET t == req[h].token IN
    /\ req[h].op \in {"review", "edit", "pay"} /\ req[h].step = "read"
    /\ pd[t].phase = "vetted"
    /\ IF req[h].appends
       THEN /\ clock < MaxStamp
            /\ pd' = Appended(t, req[h].to, PeriodAfter(h))
            /\ clock' = clock + 1
       ELSE UNCHANGED <<pd, clock>>
    /\ req' = [req EXCEPT ![h] =
                  IF replied
                  THEN Replied(req[h], "accepted", t, IF req[h].appends THEN clock ELSE 0)
                  ELSE Idle]
    /\ dirty' = IF replied \/ ~req[h].appends THEN dirty ELSE dirty \cup {t}
    /\ taken' = IF PeriodAfter(h) = pd[t].period THEN taken ELSE taken \cup {PeriodAfter(h)}
    /\ UNCHANGED <<up, db, contended, raced, acked>>

\* Mutant: the database is written without waiting for politeiad.
UpdateInvoiceFirst(h) ==
    LET t == req[h].token IN
    /\ req[h].op \in {"review", "edit", "pay"}
    /\ db' = [db EXCEPT ![t] = EncodeInvoice(@, req[h])]
    /\ req' = [req EXCEPT ![h] = Idle]
    /\ UNCHANGED <<up, pd, clock, contended, dirty, raced, taken, acked>>

\* The handler writes its whole copy back, with its new change.
UpdateInvoice(h) ==
    LET t == req[h].token IN
    /\ req[h].op \in {"review", "edit", "pay"} /\ req[h].step = "accepted"
    /\ db' = [db EXCEPT ![t] = EncodeInvoice(@, req[h])]
    /\ req' = [req EXCEPT ![h] = Idle]
    /\ acked' = IF req[h].appends THEN acked \cup {<<t, req[h].stamp>>} ELSE acked
    /\ dirty' = IF req[h].appends /\ h \notin contended THEN dirty \ {t} ELSE dirty
    /\ UNCHANGED <<up, pd, clock, contended, raced, taken>>

-----------------------------------------------------------------------------
(* Failures *)

\* A handler returns an error: politeiad was not reached, refused the call,
\* or (after acceptance) the database write failed.
ReturnError(h) ==
    /\ InFlight(h)
    /\ req' = [req EXCEPT ![h] = Idle]
    /\ raced' = IF req[h].op = "submit" /\ req[h].step \in {"filed", "accepted"}
                THEN raced \cup {req[h].period} ELSE raced
    /\ dirty' = IF req[h].op # "submit" /\ req[h].step = "accepted" /\ req[h].appends
                THEN dirty \cup {req[h].token} ELSE dirty
    /\ UNCHANGED <<up, pd, db, clock, contended, taken, acked>>

\* The process dies: the requests it was serving are gone.
Crash ==
    /\ up
    /\ up' = FALSE
    /\ req' = [h \in Handlers |-> Idle]
    /\ contended' = {}
    /\ UNCHANGED <<pd, db, clock, dirty, raced, taken, acked>>

\* New drops the invoice tables, LoadInventory creates a row for every
\* record of politeiad, the unvetted ones included.
LoadInventory ==
    /\ ~up
    /\ up' = TRUE
    /\ db' = [t \in Tokens |-> convertRecordToDatabaseInvoice(pd[t])]
    /\ dirty' = {}
    /\ raced' = {p \in raced : \E t, u \in Filed(p) : t # u}
    /\ taken' = {p \in taken : \E t, u \in Filed(p) : t # u}
    /\ UNCHANGED <<pd, req, clock, contended, acked>>

HandlerStep(h) ==
    \/ \E p \in Periods : SubmitRead(h, p)
    \/ \E t \in Tokens, replied \in BOOLEAN : NewRecord(h, t, replied)
    \/ \E replied \in BOOLEAN : SetUnvettedStatus(h, replied)
    \/ CreateInvoice(h)
    \/ \E t \in Tokens, s \in StoredStatus : ReviewRead(h, t, s)
    \/ \E u \in Users, t \in Tokens : EditRead(h, u, t)
    \/ \E t \in Tokens : PayRead(h, t)
    \/ \E t \in Tokens : CreatePaymentRead(h, t)
    \/ \E replied \in BOOLEAN : UpdateVetted(h, replied)
    \/ UpdateInvoice(h)
    \/ ReturnError(h)

Next ==
    \/ \E h \in Handlers : HandlerStep(h)
    \/ Crash
    \/ LoadInventory

Spec == Init /\ [][Next]_vars

-----------------------------------------------------------------------------
(* Properties *)

\* No handler of t has had a change accepted that it still has to store.
Settled(t) == \A h \in OnToken(t) : req[h].step # "accepted" \/ ~req[h].appends

\* The cache is coherent: the status the server shows for an invoice is the
\* one politeiad's record ends in, unless the invoice was written by
\* overlapping requests or a request failed after politeiad had accepted its
\* change; and one later request of its own, or a restart, repairs it.
CacheCoherent ==
    up => \A t \in Tokens :
              db[t].live /\ t \notin dirty /\ Settled(t)
                  => db[t].status = LastStatus(pd[t].changes)

\* A decision that a handler completed is never lost: while the server is
\* up it is among the rows of invoice_changes, and politeiad has it, through
\* overlapping writes of stale copies, failed requests and restarts.
DecisionsDurable ==
    \A a \in acked :
        /\ \E c \in Range(pd[a[1]].changes) : c.stamp = a[2]
        /\ up => \E c \in db[a[1]].changes : c.stamp = a[2]

\* A contractor has one invoice per month (the duplicate check of
\* HandleSubmitInvoice), unless two submissions for the month overlapped, one
\* failed after politeiad had filed its record, or the contractor edited
\* somebody else's invoice of the month: politeiad's record is then the
\* editor's, and the server takes the editor for its owner from the next load.
\* Neither a crash nor losing an invoice to an editor breaks it: the restart
\* loads half-submitted records too, and who lost one may submit one again.
OneInvoicePerPeriod ==
    \A p \in Periods \ (raced \cup taken) : \A t, u \in Filed(p) : t = u

\* A review decision is legal with respect to politeiad's own history, not
\* only to the row the handler read: validStatusTransitions holds between
\* the change and the one before it, when nothing overlapped or failed.
ReviewsLegal ==
    [][\A h \in Handlers :
           (/\ req[h].op = "review"
            /\ h \notin contended
            /\ req[h].token \notin dirty
            /\ pd'[req[h].token].changes # pd[req[h].token].changes)
           => validateStatusTransition(LastStatus(pd[req[h].token].changes),
                                       LastStatus(pd'[req[h].token].changes))]_vars

\* What api.md says of ErrorStatusDuplicateInvoice, without exception: no two
\* invoices of a contractor for one month.  Overlapping submissions break it,
\* and so does an edit of another contractor's invoice, after a restart.
NoDuplicateInvoice ==
    \A t, u \in Tokens :
        db[t].live /\ db[u].live /\ db[t].period = db[u].period => t = u

Ledger == INSTANCE InvoiceLedger WITH
              log    <- [t \in Tokens |-> pd[t].changes],
              view   <- [t \in Tokens |-> db[t].changes],
              shown  <- [t \in Tokens |-> db[t].status]

\* The lifecycle implements the ledger: the server shows only what politeiad
\* has accepted, changes and status alike, and a restart makes it exact.
ImplementsLedger == Ledger!LedgerSpec
=============================================================================
