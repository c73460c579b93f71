# A verification project for cmswww, Decred's contractor management server

cmswww lets contractors submit monthly invoices and lets administrators review and pay them.
Every invoice is a record in *politeiad* (a remote, append-only record store reached over HTTP)
and, for queries, a set of rows in a CockroachDB database. This directory holds TLA+ modules
translated from the server's Go source, the TLC configurations that check them on small instances,
and TLAPS proofs that the safety properties the runs check hold for every instance.

## 1. Inventory

| Part | State it keeps | Operations | Hard behaviour |
|---|---|---|---|
| Invoice lifecycle (`invoice.go`, `convert.go`, `encoding.go`) | politeiad record with its change stream; `invoices` and `invoice_changes` rows; the copy each handler holds | submit, set status, edit, record a payment, reload at startup | a handler reads a row, calls politeiad, then writes its stale copy; no lock or transaction spans it; replies get lost, writes fail, the process dies; an edit makes the editor the owner |
| Payments and poller (`payment.go`, `invoice.go`) | `invoice_payments` rows, politeiad's payment stream, the address index in the user row, the in-memory map of polled payments | pay one or all invoices, refresh, derive an address, record a transaction, poll, expire, restart | the poller works on a snapshot and removes entries later; requests replace and renew entries meanwhile; block explorers and politeiad fail |
| Files and review (`invoice.go`, `validate.go`) | the file in politeiad's record and the one in the row | accept a file, review, pay one or all invoices | the row's file lags behind an edit and vanishes at a restart; a batch reads its rows one by one |
| Inventory loading (`inventory.go`, `backend.go`, `middleware.go`) | a loaded flag, the invoice tables, the map of polled payments that is filled from them | load at startup, or lazily in front of a request | a load that fails half way leaves rows; several goroutines compete to load; order of startup steps |
| User accounts (`user.go`, `admin.go`, `session.go`, `validate.go`) | the user row and its identities, the session file, the copy each request holds | invite, register, log in and out, reset and change password, new identity, new extended public key, manage | read-modify-write without a lock, an update that saves non-blank fields only, tokens and mails |
| Event manager (`events.go`, `email.go`, `admin.go`) | listener channels, one goroutine per delivery, the admin log, the server's mutex | register, fire, deliver, log, mail | order and completion of deliveries, listeners that need the mutex that firing holds |
| Server (`www.go`, `routes.go`, `middleware.go`) | the process: goroutines, the mutex, two key files | start step by step, dispatch requests, stop | a stop between any two steps; one lock for everybody |
| Rate calculator (`ratecalc/`) | a file of candlesticks per month | update on a tick, average of a month | interval arithmetic at month boundaries, two exchanges with gaps, writes that are lost or torn |
| Configuration, logging, templates | none that changes | parse, set up | none |
| Command line client and tools (`cmd/`) | none | format requests | sequential |

How the parts interact: a request handler is a goroutine; it calls the database and politeiad
synchronously, fires events through the event manager (which takes the server's mutex and starts
a goroutine per delivery), and updates the map of polled payments under that mutex. The poller is
one goroutine started with the server. At startup the database layer *drops the invoice tables*;
the inventory is loaded from politeiad, and the poller's map from the tables.

### What makes each part correct

* **Lifecycle** – the table shows what politeiad's record ends in once the requests on an invoice
  are over; a decision a handler completed is never lost; one invoice per contractor and month;
  a review is legal with respect to politeiad's history and not only to the row that was read.
* **Payments** – no address is used for two payments; every unpaid payment of an approved invoice
  is watched; a transaction that arrives is recorded; a recorded one is not forgotten.
* **Files** – what is paid is what an admin saw and approved.
* **Accounts** – a token works once; nobody is locked without enough failures in a row; a registered user
  always has an active key, and it is the one verified last.
* **Events** – every event is delivered although listeners need the mutex that `fireEvent` holds;
  none twice; every decision politeiad accepted gets its entry in the admin log.
* **Inventory** – a server that answers has loaded every record; a load that failed can be repeated;
  the poller watches what the load brought back.
* **Rate calculator** – the average of a month uses exactly the intervals of that month.

## 2. Plan

The most important behaviour first; a module is followed by its TLC runs and then by its proofs.

| # | Module | Composes | State |
|---|---|---|---|
| 1 | `InvoiceLifecycle`, `InvoiceLedger` (abstract), `InvoiceLifecycleProofs`, `InvoiceLedgerProofs` | lifecycle refines ledger | checked and proved |
| 2 | `Payments`, `PaymentsProofs` | requests, the address index, the poller, restart | checked and proved, liveness checked |
| 3 | `UserAccounts`, `UserAccountsProofs` | requests on one user's row, the session | checked and proved |
| 4 | `Goroutines`, `EventManager`, `Mailbox` (abstract), `Inventory`, `Server`, `ServerProofs` | the process: events, inventory, poller and requests at one lock; events refine the mailbox | checked and proved, liveness checked |
| 5 | `RateCalc`, `RateCalcProofs` | the update loop, the two exchanges, the month files | checked and proved, liveness checked |
| 6 | `InvoiceFiles`, `InvoiceFilesProofs` | requests on the files of invoices | checked and proved |

No module declares a `RECURSIVE` operator; parameters and bounds are constants with named
assumptions (`ConstantsAssumption` and its like).

## 3. The modules

### `InvoiceLifecycle`

`pd[t]` is politeiad's record of token `t` (unvetted or vetted, with its stream of status changes),
`db[t]` the row in `invoices` with its `invoice_changes`, `req[h]` the request that goroutine `h`
serves with what it keeps in local variables. A handler's life is one action per point where
another goroutine can come between:

| Code | Actions |
|---|---|
| `HandleSubmitInvoice` | `SubmitRead` (duplicate check), `NewRecord` and `SetUnvettedStatus` (the two calls), `CreateInvoice` (the row) |
| `HandleSetInvoiceStatus` | `ReviewRead` (row and transition check), `UpdateVetted` (the call), `UpdateInvoice` (the row) |
| `HandleEditInvoice` | `EditRead`, `UpdateVetted`, `UpdateInvoice` |
| `updateInvoicePayment`, by hand or by the poller | `PayRead`, `UpdateVetted`, `UpdateInvoice` |
| `createInvoicePayment` | `CreatePaymentRead`, `UpdateVetted`, `UpdateInvoice`: it appends no status but saves the whole stale row |
| error returns; process death; `db.New` + `LoadInventory` | `ReturnError`; `Crash`; `LoadInventory` |

A call to politeiad is one step with three outcomes: refused (`ReturnError`), accepted and
answered, accepted with the reply lost (`replied = FALSE`). gorm's update of a row and of its
associations is one transaction and therefore one step; it adds the handler's change and sets the
handler's status, and never deletes a change. politeiad refuses `UpdateVettedMetadata` for an
unvetted record, hence the guard on the status in `PayRead` and `CreatePaymentRead`. The poller's update runs even while the inventory is not
loaded; this module shows it as one more handler.

A *period* is a contractor and a month (`Users \X Months`). `HandleEditInvoice` asks for no owner:
whoever is logged in may edit any invoice, and the edit overwrites the record's general metadata
with the editor's key. `EditRead` therefore takes any user, and `UpdateVetted` moves politeiad's
record to the editor's period (`PeriodAfter`), while the row keeps its owner until the next load
derives it from the key (`convertRecordToDatabaseInvoice`).

History variables (no guard reads them) say which exceptions the properties make: `contended`
(handlers whose request overlapped another on the same invoice), `dirty` (invoices whose row may
lag), `raced` (periods with overlapping or half-failed submissions), `taken` (periods that an edit
moved somebody else's invoice to), `acked` (changes whose handler completed). An uncontended write
makes an invoice clean again and a restart makes all clean, and ends `raced` and `taken` for the
periods with one invoice: the exceptions end.

### `InvoiceLedger`

The abstract specification: a log per invoice that only grows, a view of it that may lag, and a
rebuild that makes the view exact. `InvoiceLifecycle!ImplementsLedger` instantiates it with the
stream, the change rows and the status column.

### `Payments`

All invoices belong to one contractor: derivation indices of two contractors never meet. The
variables are the rows, politeiad's stream, the address index of the user row, and the poller's
map with the expiry of its entries. `PayRead`, `Refresh`, `DeriveRead`, `DeriveSave`, `PayAccept`,
`PayStore`, `PayPoll` are the steps of a pay request (`DeriveRead` and `DeriveSave` are the two
halves of the read-modify-write of the index); `UpdateRead`, `UpdateAccept`, `UpdateStore` those
of recording a transaction; `Snapshot`, `PollRead`, `NothingFound`, `RemoveFromPolling` are a round
of `checkForInvoicePayments`, whose update uses `UpdateAccept` and `UpdateStore` of the worker
`Poller`. `Fail` is any error return, `Arrive` and `Lapse` the network and the clock,
`SaveStaleUser` another request that saves an older copy of the user, `Restart(loaded)` a crash, the
load of the inventory and the poller's new map. The load at startup may fail: `www.go` logs that and
goes on, the poller starts from an empty table, and a request loads the rows later without putting
their payments into the map (`NotLoaded`). A save may also be done and reported as failed (`Losing`):
the request ends before it adds its address to the map, which is a `Fail` at step "stored".

Meanwhile the invoice is edited, approved, or marked as paid by a review (`DecideRead`,
`DecideAccept`, `DecideStore`), with the whole copy saved, payments included. The status "pending"
stands for every status but "approved" and "paid", the two the payment code asks for; amounts and
transaction ids are reduced to *paid or not*. `Refresh` does its loop
in one step (its entries are renewed one by one in the code, each for its own address), and
`PayPoll` merges the removal of the replaced address and the entry of the new one, two locked map
updates that follow each other. Left out is an admin's update with an empty transaction id, which the
code accepts and which takes a recorded transaction back.

### `UserAccounts`

One user's row: the four verification tokens, the failed-login counter, the identities; and
whether a session names the user. Each request reads the user (an action named after its handler
with the suffix `Read`), changes its copy and saves it (`Save`, `CreateUser`). `UpdateUser` is
gorm's `Updates` with a struct: blank fields of the copy leave the column alone, so a `NULL` token
or a zero counter is not written, while an empty token is. Identities that have a row are
overwritten, new ones inserted. Tokens expire in the order of their issue.

The handlers behind a link share two shapes: `RequestLink` generates a token where none is usable
and mails it after the save (`Mail`; an invitation is mailed before it), `Redeem` checks the token
and clears it. `ResetLinkRead`, `XpubLinkRead`, `IdentityLinkRead` and `ResetRead`, `XpubRead`,
`IdentityRead` say what each kind does besides: a password needs no session, an identity is added
with the link and activated with the token, for which the first one that is not deactivated goes
(`Replaced`). `SetSessionUser` is the end of a login, after the save and the half second the
handler waits; the handlers for logged-in users look at the session only (`LoggedIn`), which
outlives restarts. `EditUserRead`, `ChangePasswordRead` and `DeriveRead` (the address index) change
nothing the module keeps but save a copy of everything else. The history variable `failures` counts
failed logins in a row: a login, a reset of the password and an admin's unlock set it to zero
(`Resets`). They mean to set the row's counter to zero, too, but the update skips the zero;
`unreset` says that this has happened. `Fail` ends a request at any of these points. The code's `IsVerified` holds while a user has *not*
registered yet; the name is kept.

### `Goroutines`, `EventManager`, `Inventory`, `Server`

`Goroutines` has what the parts of the process share: who is at which step (`pc`) and who holds
the one `RWMutex` embedded in the `cmswww` structure (`mutex`). A section in which nothing can
block is one step that needs the lock to be free; a lock that is held over a call is two.

| Code | Actions |
|---|---|
| `initEventManager`, `fireEvent`, `_fireEvent` | `InitEventManager`; `FireEvent` (the lock, one waiting goroutine per listener in `deliveries`), `FireEventReturns` |
| `_setupInvoiceStatusChangeLogging` with `logAdminAction` | `Receive`, `SkipWithoutAdmin`, `LogAdminAction` (the lock), `WriteAdminLog` (written or not) |
| the mail listeners in `events.go`, `email.go` | `MailStatusChange`, `MailPaid` |
| `LoadInventory`, by `_main` or by the middleware | `AlreadyLoaded`, `CallInventory`, `RemoteInventory`, `NewInventoryRecord` row by row, `LoadReturns`, `LoadFails` |
| `initPaymentChecker`, `checkForPayments` | `InitPaymentChecker`; `PollSnapshot`, `PollFinds`, `PollEnds`, `PollRemoves` |
| `addInvoicePaymentForPolling` | `AddForPolling` |
| `_main` | `Start`, `OpenTables` (tables dropped), `SetupEvents`, `LoadInventory(Main)`, `CreateKey`/`WriteKey`/`ReadCSRFKey`, `StartChecker`, the same for the cookie key, then listening |
| routes and middleware | `Dispatch`, `HandleInvoice`, `HandleUser`, `LogUserAction`, `WriteUserLog` |
| the process ends | `Stop`, at any step |

What the handlers do to invoices, payments and users is in the other modules; `Server` keeps of a
handler that it loads the inventory, fires an event, adds a payment to the poller's map or writes
the admin log. `listeners`, `deliveries`, `inbox` and the poller's map are memory and lost at a
`Stop`; the tables, the admin log and the key files are not. A *decision* is what an admin has
politeiad accept (`decided`): it is numbered, its handler has it in hand until it fires the event
(`inHand`), and the event carries the number to the admin log. A handler that fails in between
leaves it in `unsaved`, a `Stop` leaves what was on its way in `cutOff`. Nothing fires the events a
"userManage" listener waits for: the listener is registered and stays idle.

### `Mailbox`

What the event manager promises: an event that is fired reaches each listener registered for its
type once, in no particular order, and what is not handled when the server stops is lost.
`EventManager!Abstract` instantiates it: an event is pending for a listener while its goroutine
waits to send it or the listener has it in hand.

### `RateCalc`

Time is counted in intervals of 15 minutes, a candlestick is its timestamp. `job` is the updating
goroutine: `StartUpdate` (at startup or on a tick; the previous month first, early in a month),
`ReadFile` (the most recent interval, `ShouldUpdate`), `FetchDCRBTC` (Binance: a batch from the
next interval on), `FetchBTCUSD` (Kraken: the latest intervals only; `getDataIndices` and the
pairing by position), `AddDataToFile` or `WritePartly` (the error of the last flush is not looked
at: only a beginning of the records, or none, is in the file, and its last line may be torn),
`Fail`, `Crash`. A torn line (`torn`) makes every later read of the month's file fail, so that it is
never continued and has no average; `file[m]` is what it holds before that line. `Tick` moves the clock and loses Kraken's oldest interval. `IsDataMissing`
keeps the code's negative number of intervals.

### `InvoiceFiles`

`pdFile[t]` and `pdStatus[t]` are what politeiad's record of `t` has, `rowFile[t]` and `status[t]`
the row; a file is a model value, and what the code finds out about one is a set of files:
`NotCSV` (the CSV reader rejects it), `Coded` (a line that starts with "35" and the month: the code
looks for that where its comment speaks of "#", and refuses it), `Unpayable` (a line without six
fields, or without numbers in the last two). All invoices are of one month. Of an invoice's payments
is kept what they bill (`Bills`): nothing, extra costs only, or the total. A payment for the total
that the copy already had is saved alone; any other, so every extra cost, is new and has the whole
copy saved, with the file that was fetched for it and the status it was read with (`PayStore`). An
extra cost is paid whatever the lines of the file are.

| Code | Actions |
|---|---|
| `HandleSubmitInvoice`, `HandleEditInvoice` | `SubmitAccept`, `SubmitStore`; `EditRead`, `EditAccept`, `EditStore` (the row keeps the file it was read with) |
| `HandleSetInvoiceStatus` | `DecideRead`, `DecideAccept`, `DecideStore` |
| `updateInvoicePayment`, by hand or by the poller | `RecordRead`, `RecordAccept`, `RecordStore` |
| `HandleReviewInvoices` | `ReviewList`, `ReviewFetch` per invoice without a file, `ReviewReply` |
| `HandlePayInvoices` | `PayList`, then `PayNext`, `PayFetch`, `PayAccept`, `PayStore` per invoice |
| `HandlePayInvoice` | `PayRead`, `PayFetch`, `PayAccept`, `PayStore` |
| error returns and panics of a handler; process death with the reload | `Fail`; `Restart` |

`InUse(t)` is the file reviews and payments use: the row's, or politeiad's when the row has none.
The history variables: `approved` (the file in use when politeiad accepted the approval), `shown`
(what a review list showed since the last edit; a restart does not forget it), `disturbed` (invoices
with an edit that overlapped another request or got no further than politeiad, and those whose file
in use a restart changed). An invoice leaves `disturbed` when it is approved anew by a request that
is alone on it and has read the row as it is (`Settles`).

## 4. Runs

All bounds are constants of the configurations. `CHECK_DEADLOCK FALSE` is set where the bounds end
behaviours (all tokens, addresses, events or starts used up): the server itself never stops.

| Run | Instance | Shows |
|---|---|---|
| `lifecycle` | 2 handlers, 2 tokens, 2 contractors, 1 month, 3 changes (2 when both contractors take part); symmetric | `CacheCoherent`, `DecisionsDurable`, `OneInvoicePerPeriod`, `ReviewsLegal` and the refinement `ImplementsLedger` |
| `duplicate` | the same | *violated*: `api.md` promises no two invoices for a month; two overlapping submissions both pass |
| `payments` | 1 admin, 2 invoices that are edited and approved again, addresses 0-2, 2 restarts whose loads may fail, saves reported as failed, stale user copies; symmetric | `AddressesDistinct`, `RecordedStaysPaid`, `UnpaidIsWatched` over failures, stale saves and restarts |
| `payments_poller` | 1 admin who pays, recreates the payment, edits and approves; the poller, a transaction and an expiry | `TransactionNoticed` (liveness), and that the poller's stale copies and late removals undo nothing |
| `payments_expired` | the poller, one address | *violated*: an expired entry never leaves the map (removed by token, keyed by address), although the log says so |
| `payments_kept` | the poller, two payments | *violated*: asking for the total of a paid invoice again overwrites the payment that has its transaction |
| `accounts` | 2 requests, all operations, 3 tokens, lock after 2; symmetric | `RedeemedOnce`, `LockMeansFailures`, `SomeIdentityActive`, `NewestIdentityActive` |
| `accounts_identity` | 1 request at a time, identities only, 4 tokens | *violated*: an abandoned replacement makes a later one deactivate the wrong identity |
| `accounts_lock` | 1 request at a time, registration, links, logins and their failures, 4 tokens | *violated*: failed logins with a login between them lock the account, although the limit is one on consecutive ones |
| `server` | 1 request slot beside `_main`, the poller and the listeners, 2 records (1 approved), 2 events, 1 decision, 2 starts | `ServedIsLoaded`, `AdminLogComplete`, `WatchedFromStart`, `ListensWithKeys`, the refinement `DeliversEvents`, and the liveness of `RequestsEnd`, `EventsHandled`, `InventoryRecovers` |
| `ratecalc` | 2 months of 4 intervals, batches of 2, Kraken's last 4, outages of either exchange, torn files | `IntervalsAscend`, `OneOvershoot`, `PairsAligned`, `CaughtUp`, `MissingIsMissing`, `UpdateEnds` |
| `files` | 1 invoice, 2 requests at a time, edits, payments for the total and for extra costs, 2 proper files, 1 that cannot be paid and 2 that are refused; symmetric | `PaidIsApproved`, `PaidAsShown` |

### Why the bounds are enough

* **Lifecycle.** Two handlers and two tokens give every overlap of two requests on one invoice and
  every pair of submissions; three changes are a submission, a decision and one that depends on a
  stale read. `MCBound` lets a behaviour in which both contractors have a part go on for two changes
only, a submission and the edit by which the other contractor takes the invoice, with the restart;
the third change, a submission for either period, is checked and not continued. A third handler adds only overlaps of pairs, and the
proofs cover any number.
* **Payments.** Addresses 0 to 2 are a payment, its replacement and one of another invoice. A lost
  update of the index needs another copy of the user, which `SaveStaleUser` is; the worker that
  races an admin is the poller, or the review (`Decide...`). Two restarts let an address survive one
  and meet the next.
* **Accounts.** Limit 2 in place of 5 leaves one failed login that does not lock and one that does.
  Three tokens are a registration and two links; four are a registration and three replacements of
  the identity, the shortest history in which an abandoned one does harm.
  `Overlapping` says which operations overlap each other in a run: the user's own, not an admin's.
* **Server.** One request slot, used again and again, competes with `_main`, the poller and the
  listeners for the load and the lock; liveness takes most of the time of this run, and the safety
  properties and the refinement are proved for any number of requests. Two loads by requests
  therefore overlap only in the proofs (`HandlersSeeAll`), not in the run. A decision meets the second
  start and its log; a second decision has also been checked (it passes, but takes longer than the
  run may). Two records let a load stop half way; two events overtake each other and wake one listener twice; the
  second start meets the key files and the log of the first.
* **Files.** What a payment bills depends on one invoice and on the requests that overlap it: one
  invoice and two requests are the smallest instance with every overlap, and two proper files tell
  an edit from what it replaced. The invoices of a batch share only the list that was read first,
  which an overlapping request can make stale for one invoice as for many. The run has 2.3 million
  states and takes about two minutes.
* **Rates.** Two months have one boundary; a batch of two requests three
  intervals, both ends included, so that it can end short of a month's end and behind it; Kraken
  answers with four intervals of the eight, so that a downtime loses intervals.

Both `CONSTRAINT`s named `Telling` cut off what follows states after which no property, or none of
the rest, says anything more (in `payments` once an address index was saved by overlapping
requests, the exception of all three properties; in `accounts`, once requests have overlapped, the
operations that touch only what the remaining properties do not mention). The states themselves are
still checked, and the theorems about accounts need no such restriction.

### Exceptions

The properties name the cases in which the code gives no guarantee, by history variables.
Lifecycle: `contended`, `dirty`, `raced`, `taken`. `Payments`: `contended` (invoices that overlapping
workers wrote), `reused` (overlapping saves of the user) and `missed` (invoices that the poller
found paid, or the last restart not approved, before they were edited and approved again: a restart
while an invoice is edited leaves its unpaid payments unwatched once it is approved again; those the
last start did not load before its poller looked; and those with a save that was done and reported as
failed). `InvoiceFiles`: `disturbed`, and what the approval means: after an edit the row keeps the
file it had, the review list shows that one, and so it is the file in use that an admin approves, not
the edited one in politeiad's record, until a restart makes politeiad's the one in use.
`UserAccounts`: `contended`, `adminLock`, `unreset`. `Server`: `unsaved` and `cutOff` (decisions that
get no entry in the admin log), and entries that could not be written; `early` (a load that succeeded
before the payment checker read the table: otherwise nothing is polled), `torn` (a stop while a key file was
written: an empty cookie key is accepted by the next start, an empty CSRF key is not),
`halfLoaded` (a load that left rows fails on their primary keys for ever, until a restart drops
the tables). `RateCalc`: the gaps, intervals Kraken no longer had, and for a reply, files that are torn.

`api.md` also says that the review route sets an invoice to approved or rejected; the transition
table lets it mark an approved invoice as paid as well (`DecideRead`, `ReviewRead`).

### Fairness

* `payments_poller`, `payments_expired`: weak fairness for the rounds of the poller, a goroutine in
  an endless loop that sleeps between rounds, and for a request's update of the map, which follows
  its save without a call in between; strong fairness for the poller's update of each address,
  because politeiad and the database fail at times and not always, and the poller comes back each
  round. Nothing is assumed of users and admins, of restarts, or of transactions being sent.
* `server`: weak fairness for `_main`, the poller and the mail listeners. Strong fairness
  for requests and for the listener of the admin log, which take the lock and may find it taken
  again and again: Go's mutex hands itself over to a goroutine that has waited long. Strong fairness
  also for an answer of politeiad and for the creation of a row, which may fail but not every time,
  as politeiad answers or the connection breaks. Nobody owes a request, a transaction or a start.
  `RequestsEnd` and `EventsHandled` must hold without the help of a `Stop`.
* `ratecalc`: weak fairness for the running goroutine and strong fairness for the write. That
  updates are started, that time passes and that requests succeed is not assumed. That a request
  gets an answer or an error is (the code sets no timeout for its HTTP client), and that the disk is
  not full for ever: both are the environment's part.

Every property of a passing run has a mutant in `PROJECT.json`: a changed definition, as a
plausible bug would change it, under which TLC finds the property violated.

## 5. Proofs

Everything is proved for any value of the constants, from the named assumptions alone. Each proof
module EXTENDS the module it is about, gives every action a lemma on its effect or on what it
preserves, and puts the lemmas together in `StepIndInv` and `Invariance`.

| Module | Theorem | Statement |
|---|---|---|
| `InvoiceLifecycleProofs` | `TypeCorrect` | `Spec => []TypeOK` |
| | `Coherence` | `Spec => []CacheCoherent` |
| | `Durability` | `Spec => []DecisionsDurable` |
| | `OneInvoice` | `Spec => []OneInvoicePerPeriod` |
| | `LegalReviews` | `Spec => ReviewsLegal` |
| `InvoiceLedgerProofs` | `Refinement` | `Spec => ImplementsLedger` |
| `UserAccountsProofs` | `TypeCorrect` | `Spec => []TypeOK` |
| | `TokensRedeemedOnce` | `Spec => []RedeemedOnce` |
| | `LocksMeanFailures` | `Spec => []LockMeansFailures` |
| | `SomeIdentityStaysActive` | `Spec => []SomeIdentityActive` |
| | `NewestIdentityStaysActive` | `Spec => []NewestIdentityActive` |
| `ServerProofs` | `TypeCorrect` | `Spec => []TypeOK` |
| | `HandlersSeeAll` | `Spec => []ServedIsLoaded` |
| | `LogComplete` | `Spec => []AdminLogComplete` |
| | `PolledUntilPaid` | `Spec => []WatchedFromStart` |
| | `WholeKeys` | `Spec => []ListensWithKeys` |
| | `EventsAreMail` | `Spec => DeliversEvents` |
| `InvoiceFilesProofs` | `TypeCorrect` | `Spec => []TypeOK` |
| | `BatchPaysApproved` | `Spec => PaidIsApproved` |
| | `PaysAsShown` | `Spec => PaidAsShown` |
| `PaymentsProofs` | `TypeCorrect` | `Spec => []TypeOK` |
| | `AddressesStayDistinct` | `Spec => []AddressesDistinct` |
| | `RecordedStay` | `Spec => []RecordedStaysPaid` |
| | `UnpaidAreWatched` | `Spec => []UnpaidIsWatched` |
| `RateCalcProofs` | `TypeCorrect` | `Spec => []TypeOK` |
| | `FilesAscend` | `Spec => []IntervalsAscend` |
| | `OvershootsOnce` | `Spec => []OneOvershoot` |
| | `PairsAreAligned` | `Spec => []PairsAligned` |
| | `UpdatesCatchUp` | `Spec => []CaughtUp` |
| | `ReportedIsMissing` | `Spec => []MissingIsMissing` |

**Lifecycle.** That a row is coherent after a write depends on what the writer had read and had
accepted, so none of the properties is inductive. `IndInv` adds what relates the three places a
status lives in. `RowsBehind` and `RequestsBehind` say that rows and local copies come from
politeiad's stream; `Contention` that a handler is alone on its invoice or the invoice is dirty;
`SoloHandlers` that such a lone handler has read what is stored and has had accepted what the
stream ends in; `RequestsChecked` keeps the outcome of the transition check until the call;
`CleanPeriods` says who may have filed what in a period that is not `Exposed` (neither `raced` nor
`taken`): what politeiad has filed there has its row there, or a lone submission is about to create it; `SubmissionOwns` and
`RecordShape` that a submission's record has no row yet. `LegalReviews` and `Refinement` are read
off `IndInv` and one step: in the refinement `AcceptStep` maps a call to politeiad, `ShowStep` a
write of the table, `RebuildStep` a restart, and `Stutter` the rest.

**Accounts.** A property of the row after a save depends on the copy that is saved. So each part of
`IndInv` says the same of the row and of every copy in flight: `CopiesActive` that the identities a
copy writes over have an active one, however old it is (identities are only appended, so what it
does not write over stays: `CopyLengths`); `CountersReached` that no copy's counter is higher than
the failures in a row, unless a reset was skipped (`Counted`: a counter of zero says
nothing of them, and one that is not zero stays so, after which no reset is saved); `TokensIssued`, `TokensUnused` and `TokensDrafted` that a token in a column has not
been redeemed and that a lone request only replaces its own; `NewestActive` that identities none of
which was abandoned have only the last active. `OneAtATime` is what is left of `contended`,
`Registered` and `Mailed` connect session, links and registration. The lemmas on sequences
(`MergedIds`, `ReplacedIds`, `AppendedIds` and their like) carry `UpdateUser` and `Replaced`.

**Server.** `Startup` says what `_main` has done by the time it says so, and that nobody else runs
before; `Loading` that who is inside a load holds the lock and that what has no row is still to be
created, from which a load that returns is complete; `Keys` which key file may be empty where;
`Numbered` that events are new when they are fired; `Listening` that a listener holds an event that
nobody waits to send it any more, which makes the delivery happen once; `InHand` that a handler has
its decision in hand from politeiad's answer until the event is fired, which with the events on their
way makes `AdminLogComplete` inductive. In `EventsAreMail`,
`FiresMail` maps `FireEvent` to the mailbox's `Fire`, `ListenerMail` a receipt to a stutter and the
end of a listener's round to `Handle`, and a `Stop` is a `Stop`.

**Files.** Both properties are about one step, a payment, and what a request had fetched or listed
long before it. Outside `disturbed`, `Fits` therefore says of every request that the file of its copy
comes to the file in use (`Sound`: it is that file, or still has to be fetched and will be that file),
and `Row` that what was approved (`ApprovedAsIs`) and shown is the file in use. `Apart` says that no
other request has its hands on an invoice that is being submitted, nor, unless the invoice is
disturbed, on one whose edit politeiad has and the row has not (`Halfway`). Most steps leave the files alone (`Calm`), and those that add to `disturbed` only take away
what has to be shown (`DisturbIsCalm`).

**Payments.** A payment lives in four places: the row, politeiad's stream, the copy of a request or
of the poller, and the map of polled addresses, and every step writes one from another. `Separate`
says that an address that any of them knows for an invoice was derived (is below `index`) and is
known for no other invoice; `Named` the same of the map, the poller's snapshot, the addresses it is
going to drop, and the history. `Single`, `Fits` and `Together` say that lists that have an address
in common have it at the same place, which is what lets a stale copy be saved over a newer list.
`Settled` is the two properties themselves, and `Alone` what they need of the copy of a worker that
is the only one on its invoice. All of this but `TypeOK` and `Copied` (what a copy's length says)
holds as long as no address was derived twice: `Telling` is the part of `IndInv` under `~reused`.
`WorkerStep` describes any step of a worker by what it does to the lists (`Works`), so that the
lemmas of the actions only have to say which lists those are. `Settled` speaks of invoices outside `missed`, so the lemma about `Restart` has to watch only what the
load put into the map. The proof found an assumption
that was missing: an invoice token is not an address (`Tokens \cap (0..MaxIndex) = {}` in
`ConstantsAssumption`), without which the poller's mistaken removal of a token from the map of
addresses would hit an address.

**Rates.** A record is safe when it is appended only if what was fetched for it, two requests
earlier and perhaps at an earlier time, still continues the file, and so does any beginning of it (`PrefixContinues`, for a write that is
cut short). `Updating` says so of each step of
the goroutine: `next` is where the file ends, Binance's answer is what there was at some interval up
to now, and what is about to be written `Continues` the file. `Sound` says that a file leaves nothing
out before its end but gaps and what Kraken no longer had, and `Followed` that the latter was noted;
from these follows `Caught`, the property `CaughtUp` month by month. The lemmas do what a loop over
the answers does in the code: `InOrderIs` that `InOrder` lists a set in ascending order and
completely (by counting: ranks are an injection into as many numbers, hence onto them); `PairsAt`
that two answers paired from a common interval on agree until one has a gap, found as the least
position where they differ; `FetchedContinues` puts them together.

Before each proof its inductive invariant was checked with TLC on the instance of the component's run.

Only model-checked: the liveness properties (`TransactionNoticed`, `RequestsEnd`, `EventsHandled`,
`InventoryRecovers`, `UpdateEnds`), as liveness under fairness is out of the prover's reach, and the
five violations, which are counterexamples. Every invariant, action property and refinement that a
passing run checks is proved.

## 6. What is not modelled

* The line items of an invoice, amounts and prices: a total is a function of its file. A sum of
  hours or dollars that exceeds 64 bits would wrap; nobody bills that.
* The handlers that only show invoices or users, and their pages: they change nothing. The number of
  matches they report is counted for full pages only.
* Between users: uniqueness of names, mail addresses and keys is a constraint of the database. The
  checks of formats and signatures are pure; a request here has passed or failed them.
* Cookies, CSRF tokens and the encoding of requests and replies; the texts of mails, and whether a
  mail arrives.
* Configuration, logging and templates: set up once, no state a step changes.
* politeiad, CockroachDB, gorm, the block explorers, the exchanges and the mail server: external;
  modelled as the calling code uses them (`"external"` in the map).
* The command line client and the tools under `cmd/`: sequential programs that format requests,
  drive the server for a test data set or edit one row.
* Known limits of the code that no property forbids: a second payment of a paid invoice is not
  noticed by the poller; missing data in the middle of a month is not reported
  (`MissingIsMissing` holds in one direction only); events may overtake each other;
  a file is accepted whatever its fields are, with or without a comment that names its month, and
  one that cannot be read line by line makes the review list of its month fail.
