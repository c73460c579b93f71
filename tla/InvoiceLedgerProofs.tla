------------------------ MODULE InvoiceLedgerProofs ------------------------
(***************************************************************************)
(* InvoiceLifecycle implements InvoiceLedger: politeiad's streams are the  *)
(* log, the rows of the database are what is shown.                        *)
(***************************************************************************)
EXTENDS InvoiceLifecycleProofs

log   == [t \in Tokens |-> pd[t].changes]
view  == [t \in Tokens |-> db[t].changes]
shown == [t \in Tokens |-> db[t].status]

\* A step that changes none of the three is a stutter of the ledger.
LEMMA Stutter ==
    ASSUME \A t \in Tokens : /\ pd'[t].changes = pd[t].changes
                             /\ db'[t].changes = db[t].changes
                             /\ db'[t].status = db[t].status
    PROVE  UNCHANGED Ledger!ledgerVars
BY DEF Ledger!ledgerVars

\* politeiad's accepting calls append a fresh change to the log.
LEMMA AcceptStep ==
    ASSUME IndInv, NEW t \in Tokens, NEW s \in StoredStatus,
           NEW n \in 0..MaxStamp, n = clock, db' = db,
           pd'[t].changes = Append(pd[t].changes, NewChange(s, n)),
           \A u \in Tokens \ {t} : pd'[u] = pd[u]
    PROVE  Ledger!LedgerNext
<1> DEFINE c == [status |-> s, stamp |-> n]
<1>1. c = NewChange(s, n)
  BY DEF NewChange
<1>2. \A u \in Tokens : \A i \in DOMAIN log[u] : log[u][i].stamp # n
  <2>1. SUFFICES ASSUME NEW u \in Tokens, NEW i \in DOMAIN pd[u].changes
                 PROVE  pd[u].changes[i].stamp # n
    BY DEF log
  <2>2. pd[u].changes[i].stamp < clock /\ pd[u].changes[i].stamp \in Nat
    BY StreamTypes DEF IndInv, StampsPast
  <2>3. QED
    BY <2>2
<1>3. log' = [log EXCEPT ![t] = Append(log[t], c)]
  BY <1>1 DEF log
<1>4. view' = view /\ shown' = shown
  BY DEF view, shown
<1>5. c.stamp = n /\ c.status = s
  OBVIOUS
<1>6. c \in Range(log'[t])
  <2>1. c \in Change /\ pd[t].changes \in Seq(Change)
    BY <1>1, ChangeFacts DEF IndInv, TypeOK, Record
  <2>2. log'[t] = Append(pd[t].changes, c)
    BY <1>1 DEF log
  <2>3. QED
    BY <2>1, <2>2, AppendFacts
<1>7. \A u \in Tokens : \A d \in Range(log[u]) : d.stamp # c.stamp
  BY <1>2, <1>5 DEF Range
<1>8. \E d \in Range(log'[t]) :
          /\ d.status \in StoredStatus
          /\ \A u \in Tokens : \A e \in Range(log[u]) : e.stamp # d.stamp
          /\ log' = [log EXCEPT ![t] = Append(log[t], d)]
  BY <1>3, <1>5, <1>6, <1>7
<1>9. Ledger!Accept(t)
  BY <1>4, <1>8 DEF Ledger!Accept, Ledger!Range, Range, log, view, shown
<1>10. QED
  BY <1>9, Zenon DEF Ledger!LedgerNext

\* A handler's write shows accepted changes, and a status among them.
LEMMA ShowStep ==
    ASSUME NEW t \in Tokens, NEW C \in SUBSET Range(pd[t].changes), pd' = pd,
           db'[t].changes = db[t].changes \cup C,
           \E d \in db'[t].changes : d.status = db'[t].status,
           \A u \in Tokens \ {t} : db'[u] = db[u]
    PROVE  Ledger!LedgerNext
<1>1. view' = [view EXCEPT ![t] = view[t] \cup C]
  BY DEF view
<1>2. shown' = [shown EXCEPT ![t] = db'[t].status]
  BY DEF shown
<1>3. log' = log /\ C \in SUBSET Ledger!Range(log[t])
  BY DEF log, Range, Ledger!Range
<1>4. db'[t].status \in Ledger!StatusesIn(view'[t])
  BY DEF view, Ledger!StatusesIn
<1>5. \E D \in SUBSET Ledger!Range(log[t]) : view' = [view EXCEPT ![t] = view[t] \cup D]
  BY <1>1, <1>3, Zenon
<1>6. \E r \in Ledger!StatusesIn(view'[t]) : shown' = [shown EXCEPT ![t] = r]
  BY <1>2, <1>4, Zenon
<1>7. Ledger!Show(t)
  <2>1. UNCHANGED log
    BY <1>3
  <2>2. QED
    BY <2>1, <1>5, <1>6, Zenon DEF Ledger!Show, log, view, shown
<1>8. QED
  BY <1>7, Zenon DEF Ledger!LedgerNext

\* A restart shows the whole log.
LEMMA RebuildStep ==
    ASSUME IndInv, LoadInventory
    PROVE  Ledger!LedgerNext
<1>1. \A t \in Tokens : /\ db'[t].changes = Range(pd[t].changes)
                         /\ db'[t].status = LastStatus(pd[t].changes)
  BY LoadInventoryEffect
<1>2. view' = [t \in Tokens |-> Ledger!Range(log[t])]
  BY <1>1 DEF view, log, Range, Ledger!Range
<1>3. shown' = [t \in Tokens |-> Ledger!LastStatus(log[t])]
  BY <1>1 DEF shown, log, LastStatus, Ledger!LastStatus
<1>4. log' = log
  BY DEF LoadInventory, log
<1>5. Ledger!Rebuild
  BY <1>2, <1>3, <1>4, Zenon DEF Ledger!Rebuild, log, view, shown
<1>6. QED
  BY <1>5, Zenon DEF Ledger!LedgerNext

LEMMA LedgerInit == Init => Ledger!LedgerInit
<1> SUFFICES ASSUME Init PROVE Ledger!LedgerInit
  OBVIOUS
<1>1. \A t \in Tokens : pd[t].changes = <<>> /\ db[t].changes = {} /\ db[t].status = "invalid"
  <2>1. \A t \in Tokens : pd[t] = NoRecord /\ db[t] = convertRecordToDatabaseInvoice(NoRecord)
    BY DEF Init
  <2>2. NoRecord.changes = <<>>
    BY DEF NoRecord
  <2>3. /\ convertRecordToDatabaseInvoice(NoRecord).changes = {}
        /\ convertRecordToDatabaseInvoice(NoRecord).status = "invalid"
    BY <2>2, EmptyFacts DEF convertRecordToDatabaseInvoice
  <2>4. QED
    BY <2>1, <2>2, <2>3
<1>2. QED
  BY <1>1 DEF Ledger!LedgerInit

\* Every step of the lifecycle is a step of the ledger or a stutter.
LEMMA LedgerStep == IndInv /\ [Next]_vars => [Ledger!LedgerNext]_(Ledger!ledgerVars)
<1> SUFFICES ASSUME IndInv, [Next]_vars
             PROVE  Ledger!LedgerNext \/ UNCHANGED Ledger!ledgerVars
  OBVIOUS
<1>1. CASE pd' = pd /\ db' = db
  BY <1>1, Stutter
<1>2. ASSUME NEW h \in Handlers, NEW t \in Tokens, NEW replied \in BOOLEAN,
             NewRecord(h, t, replied)
      PROVE  UNCHANGED Ledger!ledgerVars
  <2>1. /\ db' = db /\ pd[t].changes = <<>> /\ pd'[t].changes = <<>>
        /\ \A u \in Tokens \ {t} : pd'[u] = pd[u]
    <3>1. db' = db
      BY <1>2 DEF NewRecord
    <3>2. QED
      BY <1>2, <3>1, NewRecordEffect
  <2>2. QED
    BY <2>1, Stutter
<1>3. ASSUME NEW h \in Handlers, NEW replied \in BOOLEAN, SetUnvettedStatus(h, replied)
      PROVE  Ledger!LedgerNext
  <2>1. PICK n \in 0..MaxStamp, t \in Tokens : n = clock /\ t = req[h].token
    BY <1>3, SetUnvettedEffect DEF IndInv, TypeOK
  <2>2. /\ db' = db /\ pd'[t].changes = Append(pd[t].changes, NewChange("notReviewed", n))
        /\ \A u \in Tokens \ {t} : pd'[u] = pd[u]
    <3>1. db' = db
      BY <1>3 DEF SetUnvettedStatus
    <3>2. QED
      BY <1>3, <2>1, <3>1, SetUnvettedEffect
  <2>3. "notReviewed" \in StoredStatus
    BY DEF StoredStatus
  <2>4. QED
    BY <2>1, <2>2, <2>3, AcceptStep
<1>4. ASSUME NEW h \in Handlers, CreateInvoice(h)
      PROVE  Ledger!LedgerNext
  <2> DEFINE c == NewChange("notReviewed", req[h].stamp)
  <2>1. PICK t \in Tokens, C \in {{c}} : t = req[h].token /\ C = {c}
    BY <1>4, CreateInvoiceEffect
  <2>2. /\ pd' = pd /\ Range(pd[t].changes) = C
        /\ db'[t].changes = C /\ db'[t].status = "notReviewed"
        /\ \A u \in Tokens \ {t} : db'[u] = db[u]
        /\ ~db[t].live
    BY <1>4, <2>1, CreateInvoiceEffect DEF CreateInvoice
  <2>3. db'[t].changes = db[t].changes \cup C
    BY <2>2 DEF IndInv, RecordShape
  <2>4. \E d \in db'[t].changes : d.status = db'[t].status
    <3>1. c.status = "notReviewed"
      BY ChangeFacts DEF StoredStatus, IndInv, TypeOK, Request
    <3>2. QED
      BY <2>1, <2>2, <3>1
  <2>5. QED
    BY <2>2, <2>3, <2>4, ShowStep
<1>5. ASSUME NEW h \in Handlers, NEW replied \in BOOLEAN, UpdateVetted(h, replied)
      PROVE  Ledger!LedgerNext \/ UNCHANGED Ledger!ledgerVars
  <2>1. CASE ~req[h].appends
    BY <1>5, <2>1, UpdateVettedEffect, Stutter DEF UpdateVetted
  <2>2. CASE req[h].appends
    <3>1. clock \in 0..MaxStamp /\ req[h].token \in Tokens /\ req[h].to \in StoredStatus
      BY <1>5, UpdateVettedEffect DEF IndInv, TypeOK
    <3>2. PICK n \in 0..MaxStamp, t \in Tokens, s \in StoredStatus :
              n = clock /\ t = req[h].token /\ s = req[h].to
      BY <3>1
    <3>3. /\ db' = db /\ pd'[t].changes = Append(pd[t].changes, NewChange(s, n))
          /\ \A u \in Tokens \ {t} : pd'[u] = pd[u]
      BY <1>5, <2>2, <3>2, UpdateVettedEffect DEF UpdateVetted
    <3>4. QED
      BY <3>2, <3>3, AcceptStep
  <2>3. QED
    BY <2>1, <2>2
<1>6. ASSUME NEW h \in Handlers, UpdateInvoice(h)
      PROVE  Ledger!LedgerNext
  <2> DEFINE c == NewChange(req[h].to, req[h].stamp)
             added == IF req[h].appends THEN {c} ELSE {}
  <2>1. req[h].token \in Tokens
    BY <1>6, UpdateInvoiceEffect
  <2>2. PICK t \in Tokens, C \in {added} : t = req[h].token /\ C = added
    BY <2>1
  <2>3. /\ pd' = pd /\ db'[t].status = req[h].to /\ req[h].to # "invalid"
        /\ \A u \in Tokens \ {t} : db'[u] = db[u]
    BY <1>6, <2>2, UpdateInvoiceEffect DEF UpdateInvoice, StoredStatus
  <2>4. db'[t].changes = db[t].changes \cup C
    BY <1>6, <2>2, UpdateInvoiceEffect
  <2>5. C \in SUBSET Range(pd[t].changes)
    <3>1. req[h].step = "accepted"
      BY <1>6, UpdateInvoiceEffect
    <3>2. req[h].appends => c \in Range(pd[t].changes)
      BY <2>2, <3>1 DEF IndInv, RequestsBehind, RequestBehind
    <3>3. QED
      BY <2>2, <3>2
  <2>6. \E d \in db'[t].changes : d.status = db'[t].status
    <3>1. RowsBehind'
      BY RowsBehindStep
    <3>2. QED
      BY <2>3, <3>1 DEF RowsBehind
  <2>7. QED
    BY <2>3, <2>4, <2>5, <2>6, ShowStep
<1>7. ASSUME LoadInventory
      PROVE  Ledger!LedgerNext
  BY <1>7, RebuildStep
<1>8. \/ pd' = pd /\ db' = db
      \/ \E h \in Handlers, t \in Tokens, replied \in BOOLEAN : NewRecord(h, t, replied)
      \/ \E h \in Handlers, replied \in BOOLEAN : SetUnvettedStatus(h, replied)
      \/ \E h \in Handlers : CreateInvoice(h)
      \/ \E h \in Handlers, replied \in BOOLEAN : UpdateVetted(h, replied)
      \/ \E h \in Handlers : UpdateInvoice(h)
      \/ LoadInventory
  <2>1. ASSUME NEW h \in Handlers, NEW p \in Periods, SubmitRead(h, p)
        PROVE  pd' = pd /\ db' = db
    BY <2>1 DEF SubmitRead
  <2>2. ASSUME NEW h \in Handlers, NEW t \in Tokens, NEW s \in StoredStatus,
               NEW op \in {"review", "edit", "pay"}, NEW appends \in BOOLEAN,
               CheckedRead(h, op, t, s, appends)
        PROVE  pd' = pd /\ db' = db
    BY <2>2 DEF CheckedRead, BeginOnToken
  <2>3. ASSUME NEW h \in Handlers, ReturnError(h)
        PROVE  pd' = pd /\ db' = db
    BY <2>3 DEF ReturnError
  <2>4. Crash \/ UNCHANGED vars => pd' = pd /\ db' = db
    BY DEF Crash, vars
  <2>5. QED
    BY <2>1, <2>2, <2>3, <2>4, StepCases
<1>9. QED
  BY <1>1, <1>2, <1>3, <1>4, <1>5, <1>6, <1>7, <1>8

\* The server's rows implement the ledger of politeiad's changes: it shows
\* nothing politeiad has not accepted, and a restart makes it exact.
THEOREM Refinement == Spec => ImplementsLedger
<1>1. Init => Ledger!LedgerInit
  BY LedgerInit
<1>2. IndInv /\ [Next]_vars => [Ledger!LedgerNext]_(Ledger!ledgerVars)
  BY LedgerStep
<1>3. Spec => Ledger!LedgerSpec
  BY <1>1, <1>2, Invariance, PTL DEF Spec, Ledger!LedgerSpec
<1>4. QED
  BY <1>3 DEF ImplementsLedger
=============================================================================
