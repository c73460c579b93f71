---------------------------- MODULE InvoiceFiles ----------------------------
(***************************************************************************)
(* Which file of an invoice is reviewed and which one is paid.             *)
(*                                                                         *)
(* politeiad keeps the file as it was edited last.  The invoice row may    *)
(* hold a file of its own: the one that was submitted, until a restart     *)
(* loads the row without a file, and then the one that a payment fetched.  *)
(* An edit does not replace it.  The review list and the payments use the  *)
(* row's file when it has one and ask politeiad when it has none.          *)
(*                                                                         *)
(* A file is a model value; line items and totals are functions of it.     *)
(* All invoices are of one month.  Of an invoice's payments is kept        *)
(* whether there is one for its total, or only for extra costs; what       *)
(* addresses they have, whether they were paid and the change stream's     *)
(* history are the subject of Payments and InvoiceLifecycle.               *)
(***************************************************************************)
EXTENDS FiniteSets

CONSTANTS
    Handlers, \* goroutines serving requests (slots, reused)
    Tokens,   \* invoices
    NoToken,
    Files,    \* the files that a contractor may send
    NoFile,
    NotCSV,   \* files that the CSV reader rejects
    Coded,    \* files with a line that starts with "35 2006-01", for their month
    Unpayable \* files with a line that has no six fields, or no numbers in the last two

ASSUME FilesAssumption ==
    /\ NoFile \notin Files /\ NoToken \notin Tokens
    /\ NotCSV \cup Coded \cup Unpayable \subseteq Files

VARIABLES
    pdFile,   \* pdFile[t]: the file of t's record in politeiad
    pdStatus, \* pdStatus[t]: the status t's change stream ends in
    pdBilled, \* pdBilled[t]: what t's payments stream bills
    rowFile,  \* rowFile[t]: the file in the row of t
    status,   \* status[t]: the status in the row of t, "none" without a row
    billed,   \* billed[t]: what t's payment rows bill
    req,      \* req[h]: what handler h is doing, with its copy of the invoice
    \* History variables: no guard reads them.
    approved, \* approved[t]: the file in use when politeiad accepted t's approval
    shown,    \* shown[t]: what a review list showed of t, since its last edit
    disturbed \* invoices whose edit overlapped another request or was left half
              \* done, or whose file a restart changed, until they are approved anew

pdVars  == <<pdFile, pdStatus, pdBilled>>
rowVars == <<rowFile, status, billed>>
history == <<approved, shown, disturbed>>
vars    == <<pdVars, rowVars, req, history>>

Statuses == {"none", "notReviewed", "unreviewedChanges", "rejected", "approved", "paid"}

Unreviewed == {"notReviewed", "unreviewedChanges"}

FileOrNone == Files \cup {NoFile}

\* What payments are for: nothing yet, extra costs only, or the total, with
\* or without extra costs.
Bills == {"none", "extra", "total"}

Pays == {"payAll", "payOne", "payExtra"}

Request == [op     : {"none", "submit", "edit", "decide", "record", "review"} \cup Pays,
            step   : {"idle", "listed", "read", "accepted"},
            token  : Tokens \cup {NoToken},
            file   : FileOrNone,   \* the file of the copy
            new    : FileOrNone,   \* the file that was sent
            status : Statuses,     \* of the copy, or the one decided on
            billed : Bills,        \* by the payments of the copy
            queue  : SUBSET Tokens, \* invoices of the list that are still to be read
            list   : UNION {[S -> FileOrNone] : S \in SUBSET Tokens}]

Idle == [op |-> "none", step |-> "idle", token |-> NoToken, file |-> NoFile, new |-> NoFile,
         status |-> "none", billed |-> "none", queue |-> {}, list |-> [t \in {} |-> NoFile]]

InFlight(h) == req[h].step # "idle"

\* What handler h works on.
Concerns(h) == ({req[h].token} \ {NoToken}) \cup req[h].queue \cup DOMAIN req[h].list

\* The invoices of S with an edit that politeiad accepted and the row has not.
Edited(S) ==
    {t \in S : \E h \in Handlers :
                   req[h].op = "edit" /\ req[h].step = "accepted" /\ req[h].token = t}

Alone(h, t) == \A g \in Handlers \ {h} : t \notin Concerns(g)

\* The file of t that reviews and payments use.
InUse(t) == IF rowFile[t] # NoFile THEN rowFile[t] ELSE pdFile[t]

\* What was approved and shown of the invoices in S counts no more.
Disturb(S) ==
    /\ disturbed' = disturbed \cup S
    /\ approved' = [t \in Tokens |-> IF t \in S THEN NoFile ELSE approved[t]]
    /\ shown' = [t \in Tokens |-> IF t \in S THEN NoFile ELSE shown[t]]

\* A handler with the row of t as it is now.  A handler forgets what of its
\* copy no later step reads, or what gorm would save unchanged.
GetInvoiceByToken(op, t) ==
    [Idle EXCEPT !.op = op, !.step = "read", !.token = t, !.file = rowFile[t],
                 !.status = status[t], !.billed = billed[t]]

\* What validateInvoice makes of a file.  It is to reject a file that does
\* not name its month, but it looks for the comment character's number, and
\* rejects a file in which it finds that.
validateInvoice(f) == f \notin NotCSV \cup Coded

TypeOK ==
    /\ pdFile \in [Tokens -> FileOrNone]
    /\ pdStatus \in [Tokens -> Statuses]
    /\ pdBilled \in [Tokens -> Bills]
    /\ rowFile \in [Tokens -> FileOrNone]
    /\ status \in [Tokens -> Statuses]
    /\ billed \in [Tokens -> Bills]
    /\ req \in [Handlers -> Request]
    /\ approved \in [Tokens -> FileOrNone]
    /\ shown \in [Tokens -> FileOrNone]
    /\ disturbed \subseteq Tokens

Init ==
    /\ pdFile = [t \in Tokens |-> NoFile]
    /\ pdStatus = [t \in Tokens |-> "none"]
    /\ rowFile = [t \in Tokens |-> NoFile]
    /\ status = [t \in Tokens |-> "none"]
    /\ pdBilled = [t \in Tokens |-> "none"]
    /\ billed = [t \in Tokens |-> "none"]
    /\ req = [h \in Handlers |-> Idle]
    /\ approved = [t \in Tokens |-> NoFile]
    /\ shown = [t \in Tokens |-> NoFile]
    /\ disturbed = {}

-----------------------------------------------------------------------------
(* The contractor submits and edits *)

\* HandleSubmitInvoice: politeiad has the record with its first change, by two
\* calls that InvoiceLifecycle tells apart ...
SubmitAccept(h, t, f) ==
    /\ ~InFlight(h)
    /\ pdFile[t] = NoFile /\ validateInvoice(f)
    /\ pdFile' = [pdFile EXCEPT ![t] = f]
    /\ pdStatus' = [pdStatus EXCEPT ![t] = "notReviewed"]
    /\ req' = [req EXCEPT ![h] = [Idle EXCEPT !.op = "submit", !.step = "accepted",
                                              !.token = t, !.new = f]]
    /\ UNCHANGED <<pdBilled, rowVars, history>>

\* ... and the row is created with the file that was sent.
SubmitStore(h) ==
    LET q == req[h] IN
    /\ q.op = "submit" /\ q.step = "accepted"
    /\ rowFile' = [rowFile EXCEPT ![q.token] = q.new]
    /\ status' = [status EXCEPT ![q.token] = "notReviewed"]
    /\ req' = [req EXCEPT ![h] = Idle]
    /\ UNCHANGED <<pdVars, billed, history>>

\* HandleEditInvoice reads the row, whatever its status ...
EditRead(h, t, f) ==
    /\ ~InFlight(h)
    /\ status[t] # "none" /\ validateInvoice(f)
    /\ req' = [req EXCEPT ![h] = [GetInvoiceByToken("edit", t) EXCEPT !.new = f,
                                      !.status = "none", !.billed = "none"]]
    /\ Disturb(Edited({t}))
    /\ UNCHANGED <<pdVars, rowVars>>

\* ... politeiad replaces the file and appends the change ...
EditAccept(h) ==
    LET t == req[h].token IN
    /\ req[h].op = "edit" /\ req[h].step = "read"
    /\ pdFile' = [pdFile EXCEPT ![t] = req[h].new]
    /\ pdStatus' = [pdStatus EXCEPT ![t] = "unreviewedChanges"]
    /\ req' = [req EXCEPT ![h].step = "accepted", ![h].new = NoFile]
    /\ approved' = [approved EXCEPT ![t] = NoFile]
    /\ shown' = [shown EXCEPT ![t] = NoFile]
    /\ disturbed' = IF Alone(h, t) THEN disturbed ELSE disturbed \cup {t}
    /\ UNCHANGED <<pdBilled, rowVars>>

\* ... and the copy is saved with the new status and the file it was read with.
EditStore(h) ==
    LET q == req[h] IN
    /\ q.op = "edit" /\ q.step = "accepted"
    /\ rowFile' = [rowFile EXCEPT ![q.token] = q.file]
    /\ status' = [status EXCEPT ![q.token] = "unreviewedChanges"]
    /\ req' = [req EXCEPT ![h] = Idle]
    /\ UNCHANGED <<pdVars, billed, history>>

-----------------------------------------------------------------------------
(* The admin decides *)

validStatusTransitions ==
    [s \in Statuses |->
        CASE s \in Unreviewed  -> {"approved", "rejected"}
          [] s = "rejected"    -> {"approved", "unreviewedChanges"}
          [] s = "approved"    -> {"paid"}
          [] OTHER             -> {}]

\* HandleSetInvoiceStatus checks the transition on the row.
DecideRead(h, t, s) ==
    /\ ~InFlight(h)
    /\ s \in validStatusTransitions[status[t]]
    /\ req' = [req EXCEPT ![h] = [GetInvoiceByToken("decide", t) EXCEPT !.status = s, !.billed = "none"]]
    /\ Disturb(Edited({t}))
    /\ UNCHANGED <<pdVars, rowVars>>

\* No other request has the invoice in hand, and h has the row as it is.
Settles(h) == Alone(h, req[h].token) /\ req[h].file = rowFile[req[h].token]

\* politeiad appends the change.
DecideAccept(h) ==
    LET q == req[h] IN
    /\ q.op = "decide" /\ q.step = "read"
    /\ pdStatus' = [pdStatus EXCEPT ![q.token] = q.status]
    /\ req' = [req EXCEPT ![h].step = "accepted"]
    /\ IF q.status = "approved" /\ (q.token \in disturbed => Settles(h))
       THEN /\ approved' = [approved EXCEPT ![q.token] = InUse(q.token)]
            /\ disturbed' = disturbed \ {q.token}
       ELSE UNCHANGED <<approved, disturbed>>
    /\ UNCHANGED <<pdFile, pdBilled, rowVars, shown>>

\* The copy is saved, its file included.
DecideStore(h) ==
    LET q == req[h] IN
    /\ q.op = "decide" /\ q.step = "accepted"
    /\ rowFile' = [rowFile EXCEPT ![q.token] = q.file]
    /\ status' = [status EXCEPT ![q.token] = q.status]
    /\ req' = [req EXCEPT ![h] = Idle]
    /\ UNCHANGED <<pdVars, billed, history>>

-----------------------------------------------------------------------------
(* A payment's transaction is recorded, by an admin or the poller *)

\* updateInvoicePayment works on a copy, too, whatever the status is.
RecordRead(h, t) ==
    /\ ~InFlight(h)
    /\ billed[t] # "none"
    /\ req' = [req EXCEPT ![h] = GetInvoiceByToken("record", t)]
    /\ Disturb(Edited({t}))
    /\ UNCHANGED <<pdVars, rowVars>>

\* politeiad has the transaction, and a change unless the invoice was paid.
RecordAccept(h) ==
    LET q == req[h] IN
    /\ q.op = "record" /\ q.step = "read"
    /\ pdStatus' = IF q.status = "paid" THEN pdStatus
                                        ELSE [pdStatus EXCEPT ![q.token] = "paid"]
    /\ pdBilled' = [pdBilled EXCEPT ![q.token] = q.billed]
    /\ req' = [req EXCEPT ![h].step = "accepted", ![h].status = "none", ![h].billed = "none"]
    /\ UNCHANGED <<pdFile, rowVars, history>>

RecordStore(h) ==
    LET q == req[h] IN
    /\ q.op = "record" /\ q.step = "accepted"
    /\ rowFile' = [rowFile EXCEPT ![q.token] = q.file]
    /\ status' = [status EXCEPT ![q.token] = "paid"]
    /\ req' = [req EXCEPT ![h] = Idle]
    /\ UNCHANGED <<pdVars, billed, history>>

-----------------------------------------------------------------------------
(* The admin reads what there is to review: HandleReviewInvoices *)

\* The rows of the unreviewed invoices are read at once ...
ReviewList(h) ==
    LET listed == {t \in Tokens : status[t] \in Unreviewed} IN
    /\ ~InFlight(h)
    /\ listed # {}
    /\ req' = [req EXCEPT ![h] = [Idle EXCEPT !.op = "review", !.step = "listed",
                                              !.list = [t \in listed |-> rowFile[t]]]]
    /\ Disturb(Edited(listed))
    /\ UNCHANGED <<pdVars, rowVars>>

\* ... and for each of them that has no file it is fetched, but not stored.
ReviewFetch(h, t) ==
    /\ req[h].op = "review" /\ t \in DOMAIN req[h].list
    /\ req[h].list[t] = NoFile
    /\ req' = [req EXCEPT ![h].list[t] = pdFile[t]]
    /\ UNCHANGED <<pdVars, rowVars, history>>

\* One file without line items and the whole list is an error.
ReviewReply(h) ==
    LET list == req[h].list IN
    /\ req[h].op = "review"
    /\ \A t \in DOMAIN list : list[t] \notin {NoFile} \cup Unpayable
    /\ req' = [req EXCEPT ![h] = Idle]
    /\ shown' = [t \in Tokens |-> IF t \in DOMAIN list \ disturbed THEN list[t] ELSE shown[t]]
    /\ UNCHANGED <<pdVars, rowVars, approved, disturbed>>

-----------------------------------------------------------------------------
(* The admin pays: HandlePayInvoices and HandlePayInvoice *)

\* Mutant: the list is not filtered by status.
PayListUnfiltered(h) ==
    LET listed == {t \in Tokens : status[t] # "none"} IN
    /\ ~InFlight(h)
    /\ listed # {}
    /\ req' = [req EXCEPT ![h] = [Idle EXCEPT !.op = "payAll", !.step = "listed", !.queue = listed]]
    /\ Disturb(Edited(listed))
    /\ UNCHANGED <<pdVars, rowVars>>

\* The approved invoices are listed once ...
PayList(h) ==
    LET listed == {t \in Tokens : status[t] = "approved"} IN
    /\ ~InFlight(h)
    /\ listed # {}
    /\ req' = [req EXCEPT ![h] = [Idle EXCEPT !.op = "payAll", !.step = "listed", !.queue = listed]]
    /\ Disturb(Edited(listed))
    /\ UNCHANGED <<pdVars, rowVars>>

\* ... and read again one by one; their status is not looked at any more.
PayNext(h, t) ==
    /\ req[h].op = "payAll" /\ req[h].step = "listed"
    /\ t \in req[h].queue
    /\ req' = [req EXCEPT ![h] = [GetInvoiceByToken("payAll", t) EXCEPT
                                      !.queue = req[h].queue \ {t}]]
    /\ Disturb(Edited({t}))
    /\ UNCHANGED <<pdVars, rowVars>>

\* HandlePayInvoice: one invoice of any status, for its total or a cost.
PayRead(h, t) ==
    /\ ~InFlight(h)
    /\ status[t] # "none"
    /\ \E op \in {"payOne", "payExtra"} : req' = [req EXCEPT ![h] = GetInvoiceByToken(op, t)]
    /\ Disturb(Edited({t}))
    /\ UNCHANGED <<pdVars, rowVars>>

Paying(h) == req[h].op \in Pays /\ req[h].step = "read"

Kind(op) == IF op = "payExtra" THEN "extra" ELSE "total"

\* Payments that billed b, and one more.
With(b, op) == IF b = "total" THEN b ELSE Kind(op)

\* Mutant: the file is fetched although the row has one.
PayFetchAlways(h) ==
    /\ Paying(h) /\ req[h].file # pdFile[req[h].token]
    /\ req' = [req EXCEPT ![h].file = pdFile[req[h].token]]
    /\ UNCHANGED <<pdVars, rowVars, history>>

\* fetchInvoiceFileIfNecessary
PayFetch(h) ==
    /\ Paying(h) /\ req[h].file = NoFile
    /\ req' = [req EXCEPT ![h].file = pdFile[req[h].token]]
    /\ UNCHANGED <<pdVars, rowVars, history>>

\* createInvoicePayment: a total is derived from the file of the copy, and
\* politeiad has the payments of the copy and this one.
PayAccept(h) ==
    LET q == req[h] IN
    /\ Paying(h) /\ q.file # NoFile
    /\ Kind(q.op) = "total" => q.file \notin Unpayable
    /\ pdBilled' = [pdBilled EXCEPT ![q.token] = With(q.billed, q.op)]
    /\ req' = [req EXCEPT ![h].step = "accepted"]
    /\ UNCHANGED <<pdFile, pdStatus, rowVars, history>>

\* A payment for the total that the copy had is saved alone; any other is new
\* and saved with the whole copy, which has a file now.
PayStore(h) ==
    LET q == req[h] IN
    /\ q.op \in Pays /\ q.step = "accepted"
    /\ IF Kind(q.op) = "total" /\ q.billed = "total"
       THEN UNCHANGED rowVars
       ELSE /\ rowFile' = [rowFile EXCEPT ![q.token] = q.file]
            /\ status' = [status EXCEPT ![q.token] = q.status]
            /\ billed' = [billed EXCEPT ![q.token] = With(@, q.op)]
    /\ req' = [req EXCEPT ![h] =
                  IF q.queue = {} THEN Idle
                  ELSE [Idle EXCEPT !.op = "payAll", !.step = "listed", !.queue = q.queue]]
    /\ UNCHANGED <<pdVars, history>>

-----------------------------------------------------------------------------
(* Failures *)

\* A call to politeiad or the database fails, a reply is lost, or a file has
\* no line items: the request ends with an error, a batch at this invoice.
Fail(h) ==
    /\ InFlight(h)
    /\ req' = [req EXCEPT ![h] = Idle]
    /\ Disturb(IF req[h].op = "edit" /\ req[h].step = "accepted" THEN {req[h].token} ELSE {})
    /\ UNCHANGED <<pdVars, rowVars>>

\* Mutant: the changes of a record are not read.
RestartUnread ==
    /\ rowFile' = [t \in Tokens |-> NoFile]
    /\ status' = [t \in Tokens |-> IF pdStatus[t] = "none" THEN "none" ELSE "invalid"]
    /\ billed' = pdBilled
    /\ req' = [h \in Handlers |-> Idle]
    /\ Disturb({t \in Tokens : InUse(t) # pdFile[t]})
    /\ UNCHANGED pdVars

\* The server restarts: the rows are loaded from politeiad without files.
Restart ==
    /\ rowFile' = [t \in Tokens |-> NoFile]
    /\ status' = pdStatus
    /\ billed' = pdBilled
    /\ req' = [h \in Handlers |-> Idle]
    /\ Disturb({t \in Tokens : InUse(t) # pdFile[t]})
    /\ UNCHANGED pdVars

Next ==
    \/ \E h \in Handlers, t \in Tokens, f \in Files : SubmitAccept(h, t, f)
    \/ \E h \in Handlers : SubmitStore(h)
    \/ \E h \in Handlers, t \in Tokens, f \in Files : EditRead(h, t, f)
    \/ \E h \in Handlers : EditAccept(h)
    \/ \E h \in Handlers : EditStore(h)
    \/ \E h \in Handlers, t \in Tokens, s \in Statuses : DecideRead(h, t, s)
    \/ \E h \in Handlers : DecideAccept(h)
    \/ \E h \in Handlers : DecideStore(h)
    \/ \E h \in Handlers, t \in Tokens : RecordRead(h, t)
    \/ \E h \in Handlers : RecordAccept(h)
    \/ \E h \in Handlers : RecordStore(h)
    \/ \E h \in Handlers : ReviewList(h)
    \/ \E h \in Handlers, t \in Tokens : ReviewFetch(h, t)
    \/ \E h \in Handlers : ReviewReply(h)
    \/ \E h \in Handlers : PayList(h)
    \/ \E h \in Handlers, t \in Tokens : PayNext(h, t)
    \/ \E h \in Handlers, t \in Tokens : PayRead(h, t)
    \/ \E h \in Handlers : PayFetch(h)
    \/ \E h \in Handlers : PayAccept(h)
    \/ \E h \in Handlers : PayStore(h)
    \/ \E h \in Handlers : Fail(h)
    \/ Restart

Spec == Init /\ [][Next]_vars

-----------------------------------------------------------------------------
(* Properties *)

\* HandlePayInvoices bills the file that was in use when an admin's approval
\* reached politeiad, although it reads every invoice again after it listed
\* them, takes the file from the row or from politeiad, and payments, edits
\* and restarts change where it is.  (It bills another one after an edit that
\* overlapped the batch or another request, or that got no further than
\* politeiad, and after a restart that finds another file than the row had.)
PaidIsApproved ==
    [][\A h \in Handlers :
          PayAccept(h) /\ req[h].op = "payAll" =>
              \/ req[h].file = approved[req[h].token]
              \/ req[h].token \in disturbed]_vars

\* Paid alone or in a batch, an invoice is paid for what the review list
\* showed of it, when it did since the last edit, however many requests,
\* payments and restarts came between: but for the same exceptions.
PaidAsShown ==
    [][\A h \in Handlers :
          PayAccept(h) /\ Kind(req[h].op) = "total" =>
              \/ shown[req[h].token] \in {NoFile, req[h].file}
              \/ req[h].token \in disturbed]_vars
=============================================================================
