----------------------- MODULE InvoiceLifecycleProofs -----------------------
(***************************************************************************)
(* Proofs about InvoiceLifecycle, for any handlers, tokens and contractors.*)
(***************************************************************************)
EXTENDS InvoiceLifecycle, TLAPS

-----------------------------------------------------------------------------
(* The inductive invariant, in named parts *)

\* What a request's fields hold at each step of its handler.
RequestShape ==
    \A h \in Handlers :
        /\ req[h].step = "idle" <=> req[h].op = "none"
        /\ req[h].step = "idle" => req[h] = Idle
        /\ req[h].op = "submit" =>
               /\ req[h].period \in Periods
               /\ req[h].to = "notReviewed" /\ req[h].appends
               /\ IF req[h].step = "read" THEN req[h].token = NoToken
                                          ELSE req[h].token \in Tokens
        /\ req[h].op \in {"review", "edit", "pay"} =>
               /\ req[h].step \in {"read", "accepted"}
               /\ req[h].token \in Tokens /\ req[h].to \in StoredStatus
               /\ db[req[h].token].live
        /\ req[h].op = "edit" => req[h].period \in Periods

\* A server that is down serves no request.
DownIsIdle == ~up => \A h \in Handlers : ~InFlight(h)

\* A filed record has its period, only a vetted one has changes, and a row
\* is the row of a filed record.
RecordShape ==
    \A t \in Tokens :
        /\ pd[t].phase # "none" <=> pd[t].period \in Periods
        /\ pd[t].phase # "vetted" => pd[t].changes = <<>>
        /\ db[t].live => pd[t].phase # "none" /\ db[t].period \in Periods
        /\ ~db[t].live => db[t].changes = {} /\ db[t].status = "invalid"

\* A submission past its first call owns a record no row shows yet.
SubmissionOwns ==
    /\ \A h \in Handlers :
           req[h].op = "submit" /\ req[h].step # "read" =>
               /\ ~db[req[h].token].live
               /\ pd[req[h].token].period = req[h].period
               /\ req[h].step = "filed" => pd[req[h].token].phase = "unvetted"
               /\ req[h].step = "accepted" =>
                      /\ pd[req[h].token].phase = "vetted"
                      /\ Len(pd[req[h].token].changes) = 1
                      /\ pd[req[h].token].changes[1] = NewChange("notReviewed", req[h].stamp)
    /\ \A g, h \in Handlers :
           /\ req[g].op = "submit" /\ req[g].step # "read"
           /\ req[h].op = "submit" /\ req[h].step # "read"
           /\ req[g].token = req[h].token
           => g = h

\* Timestamps of accepted changes are in the past.
StampsPast ==
    \A t \in Tokens : \A i \in DOMAIN pd[t].changes : pd[t].changes[i].stamp < clock

\* The server's rows come from politeiad's streams, and a row's status is
\* that of one of its changes.
RowsBehind ==
    \A t \in Tokens :
        /\ db[t].changes \subseteq Range(pd[t].changes)
        /\ IF db[t].status = "invalid" THEN db[t].changes = {}
                                       ELSE \E c \in db[t].changes : c.status = db[t].status

\* So do the changes that handlers still have to store.
RequestBehind(h) ==
    /\ req[h].step = "accepted" /\ req[h].appends =>
           NewChange(req[h].to, req[h].stamp) \in Range(pd[req[h].token].changes)
    /\ req[h].op \in {"review", "edit", "pay"} /\ ~req[h].appends =>
           \E c \in db[req[h].token].changes : c.status = req[h].to

RequestsBehind == \A h \in Handlers : RequestBehind(h)

\* An uncontended handler is alone on its token; overlaps make it dirty.
AloneOrDirty(h) ==
    req[h].op \in {"review", "edit", "pay"} =>
        IF h \in contended THEN req[h].token \in dirty
                           ELSE \A g \in OnToken(req[h].token) : g = h

Contention == \A h \in Handlers : AloneOrDirty(h)

\* What an uncontended handler has read is what is stored, what it has had
\* accepted is the end of the stream.
SoloHandler(h) ==
    req[h].op \in {"review", "edit", "pay"} /\ h \notin contended =>
        /\ req[h].seen = db[req[h].token].status
        /\ req[h].step = "accepted" /\ req[h].appends =>
               req[h].to = LastStatus(pd[req[h].token].changes)

SoloHandlers == \A h \in Handlers : SoloHandler(h)

\* A review was checked against the status its handler read, and a payment
\* that adds no change keeps the status it read.
RequestChecked(h) ==
    /\ req[h].op = "review" => validateStatusTransition(req[h].seen, req[h].to)
    /\ req[h].op \in {"review", "edit"} => req[h].appends
    /\ req[h].op = "pay" => IF req[h].appends THEN req[h].to = "paid" /\ req[h].seen # "paid"
                                              ELSE req[h].to = req[h].seen

RequestsChecked == \A h \in Handlers : RequestChecked(h)

\* A clean row with nothing in flight past politeiad has the right status.
CleanRow(t) ==
    db[t].live /\ t \notin dirty /\ Settled(t) => db[t].status = LastStatus(pd[t].changes)

CleanRows == up => \A t \in Tokens : CleanRow(t)

\* Periods whose submissions raced or that an edit moved an invoice to.
Exposed == raced \cup taken

\* For any other period: at most one submission, which started when no record
\* was filed for the period, and whose record is the only one; no other filed
\* record of the period lacks a row of the same period.
CleanPeriod(p) ==
    /\ \A g, h \in Submitting(p) : g = h
    /\ \A t, u \in Filed(p) : t = u
    /\ up => \A t \in Filed(p) :
                 \/ db[t].live /\ db[t].period = p
                 \/ \E h \in Submitting(p) : req[h].token = t
    /\ \A h \in Submitting(p) : req[h].step = "read" => Filed(p) = {}

CleanPeriods == \A p \in Periods \ Exposed : CleanPeriod(p)

IndInv ==
    /\ TypeOK /\ RequestShape /\ DownIsIdle /\ RecordShape /\ SubmissionOwns
    /\ StampsPast /\ RowsBehind /\ RequestsBehind /\ Contention /\ SoloHandlers
    /\ RequestsChecked /\ CleanRows /\ CleanPeriods /\ DecisionsDurable

-----------------------------------------------------------------------------
(* Change streams *)

\* The fields of a change.
LEMMA ChangeFacts ==
    ASSUME NEW s \in StoredStatus, NEW n \in Nat
    PROVE  /\ NewChange(s, n) \in Change
           /\ NewChange(s, n).status = s
           /\ NewChange(s, n).stamp = n
BY DEF NewChange, Change

\* Appending to a stream adds one element to its range and decides its status.
LEMMA AppendFacts ==
    ASSUME NEW s \in Seq(Change), NEW c \in Change
    PROVE  /\ Append(s, c) \in Seq(Change)
           /\ Range(Append(s, c)) = Range(s) \cup {c}
           /\ LastStatus(Append(s, c)) = c.status
<1>1. Append(s, c) \in Seq(Change)
  OBVIOUS
<1>2. Len(Append(s, c)) = Len(s) + 1 /\ Append(s, c)[Len(s) + 1] = c
  OBVIOUS
<1>3. \A i \in 1..Len(s) : Append(s, c)[i] = s[i]
  OBVIOUS
<1>4. Range(Append(s, c)) = Range(s) \cup {c}
  <2>1. DOMAIN Append(s, c) = 1..(Len(s) + 1) /\ DOMAIN s = 1..Len(s) /\ Len(s) \in Nat
    BY <1>1, <1>2
  <2>2. 1..(Len(s) + 1) = 1..Len(s) \cup {Len(s) + 1}
    BY <2>1
  <2>3. QED
    BY <1>2, <1>3, <2>1, <2>2 DEF Range
<1>5. LastStatus(Append(s, c)) = c.status
  BY <1>2 DEF LastStatus
<1>6. QED
  BY <1>1, <1>4, <1>5

\* The status a stream ends in is "invalid" or that of one of its changes.
LEMMA LastStatusFacts ==
    ASSUME NEW s \in Seq(Change)
    PROVE  /\ Range(s) \subseteq Change
           /\ LastStatus(s) \in RowStatus
           /\ s # <<>> => \E c \in Range(s) : LastStatus(s) = c.status
<1>1. DOMAIN s = 1..Len(s) /\ Len(s) \in Nat /\ \A i \in 1..Len(s) : s[i] \in Change
  OBVIOUS
<1>2. Range(s) \subseteq Change
  BY <1>1 DEF Range
<1>3. s # <<>> => Len(s) \in DOMAIN s
  BY <1>1
<1>4. s # <<>> => s[Len(s)] \in Range(s) /\ s[Len(s)].status \in StoredStatus
  BY <1>1, <1>3 DEF Range, Change
<1>5. QED
  BY <1>2, <1>4 DEF LastStatus, RowStatus

\* The empty stream ends in no status.
LEMMA EmptyFacts ==
    /\ <<>> \in Seq(Change)
    /\ Range(<<>>) = {}
    /\ LastStatus(<<>>) = "invalid"
BY DEF Range, LastStatus

\* A stream of one change.
LEMMA SingleFacts ==
    ASSUME NEW s \in Seq(Change), Len(s) = 1
    PROVE  Range(s) = {s[1]} /\ LastStatus(s) = s[1].status
<1>1. DOMAIN s = 1..Len(s)
  OBVIOUS
<1>2. 1..1 = {1}
  OBVIOUS
<1>3. s # <<>>
  <2>1. 1 \in DOMAIN s
    BY <1>1, <1>2
  <2>2. 1 \notin DOMAIN <<>>
    OBVIOUS
  <2>3. QED
    BY <2>1, <2>2, Zenon
<1>4. QED
  BY <1>1, <1>2, <1>3 DEF Range, LastStatus

\* The fields of the row that a record makes, and of the row a handler writes.
LEMMA RowFields ==
    ASSUME NEW r, NEW row, NEW q
    PROVE  /\ convertRecordToDatabaseInvoice(r).live <=> r.phase # "none"
           /\ convertRecordToDatabaseInvoice(r).period = r.period
           /\ convertRecordToDatabaseInvoice(r).status = LastStatus(r.changes)
           /\ convertRecordToDatabaseInvoice(r).changes = Range(r.changes)
           /\ EncodeInvoice(row, q).live = row.live
           /\ EncodeInvoice(row, q).period = row.period
           /\ EncodeInvoice(row, q).status = q.to
           /\ q.appends => EncodeInvoice(row, q).changes
                              = row.changes \cup {NewChange(q.to, q.stamp)}
           /\ ~q.appends => EncodeInvoice(row, q).changes = row.changes
<1>1. convertRecordToDatabaseInvoice(r).live <=> r.phase # "none"
  BY DEF convertRecordToDatabaseInvoice
<1>2. convertRecordToDatabaseInvoice(r).period = r.period
  BY DEF convertRecordToDatabaseInvoice
<1>3. convertRecordToDatabaseInvoice(r).status = LastStatus(r.changes)
  BY DEF convertRecordToDatabaseInvoice
<1>4. convertRecordToDatabaseInvoice(r).changes = Range(r.changes)
  BY DEF convertRecordToDatabaseInvoice
<1>5. EncodeInvoice(row, q).live = row.live /\ EncodeInvoice(row, q).period = row.period
  BY DEF EncodeInvoice
<1>6. EncodeInvoice(row, q).status = q.to
  BY DEF EncodeInvoice
<1>7. q.appends => EncodeInvoice(row, q).changes
                       = row.changes \cup {NewChange(q.to, q.stamp)}
  BY DEF EncodeInvoice
<1>8. ~q.appends => EncodeInvoice(row, q).changes = row.changes
  BY DEF EncodeInvoice
<1>9. QED
  BY <1>1, <1>2, <1>3, <1>4, <1>5, <1>6, <1>7, <1>8

\* A record makes a well-formed row.
LEMMA ConvertFacts ==
    ASSUME NEW r \in Record
    PROVE  convertRecordToDatabaseInvoice(r) \in Row
<1>1. r.changes \in Seq(Change) /\ r.period \in Periods \cup {NoPeriod}
  BY DEF Record
<1>2. Range(r.changes) \subseteq Change /\ LastStatus(r.changes) \in RowStatus
  BY <1>1, LastStatusFacts
<1>3. QED
  BY <1>1, <1>2 DEF convertRecordToDatabaseInvoice, Row

\* One change at the end of a record's stream leaves a well-formed store.
LEMMA AppendedFacts ==
    ASSUME TypeOK, NEW t \in Tokens, NEW s \in StoredStatus, NEW p \in Periods
    PROVE  /\ Appended(t, s, p) \in [Tokens -> Record]
           /\ \A u \in Tokens \ {t} : Appended(t, s, p)[u] = pd[u]
           /\ Appended(t, s, p)[t].phase = "vetted"
           /\ Appended(t, s, p)[t].period = p
           /\ Appended(t, s, p)[t].changes = Append(pd[t].changes, NewChange(s, clock))
<1>1. NewChange(s, clock) \in Change
  BY ConstantsAssumption, ChangeFacts DEF TypeOK
<1>2. pd[t].changes \in Seq(Change) 
  BY DEF TypeOK, Record
<1>3. Append(pd[t].changes, NewChange(s, clock)) \in Seq(Change)
  BY <1>1, <1>2
<1>4. Appended(t, s, p) \in [Tokens -> Record]
  BY <1>2, <1>3 DEF TypeOK, Record, Appended
<1>5. \A u \in Tokens \ {t} : Appended(t, s, p)[u] = pd[u]
  BY DEF TypeOK, Appended
<1>6. Appended(t, s, p)[t] = [phase |-> "vetted", period |-> p,
                           changes |-> Append(pd[t].changes, NewChange(s, clock))]
  BY DEF TypeOK, Appended
<1>7. QED
  BY <1>4, <1>5, <1>6

-----------------------------------------------------------------------------
(* Type correctness *)

\* What reading the row of t does to the types.
LEMMA BeginTypes ==
    ASSUME TypeOK, NEW h \in Handlers, NEW t \in Tokens, NEW s \in StoredStatus,
           NEW op \in {"review", "edit", "pay"}, NEW appends \in BOOLEAN,
           NEW p \in Periods \cup {NoPeriod}, BeginOnToken(h, op, t, s, appends, p)
    PROVE  TypeOK'
<1>1. db[t].status \in RowStatus
  BY DEF TypeOK, Row
<1>2. req' \in [Handlers -> Request]
  BY <1>1 DEF BeginOnToken, OnRow, TypeOK, Request, RowStatus
<1>3. contended' \subseteq Handlers /\ dirty' \subseteq Tokens
  BY DEF BeginOnToken, TypeOK, OnToken
<1>4. QED
  BY <1>2, <1>3 DEF BeginOnToken, TypeOK

\* The period that an edit by u gives to a record of period p.
LEMMA EditedPeriod ==
    ASSUME NEW u \in Users, NEW p \in Periods
    PROVE  <<u, MonthOf(p)>> \in Periods
BY DEF Periods, MonthOf

LEMMA TypeStep == IndInv /\ [Next]_vars => TypeOK'
<1> SUFFICES ASSUME IndInv, [Next]_vars PROVE TypeOK'
  OBVIOUS
<1> USE ConstantsAssumption DEF IndInv
<1>idle. Idle \in Request
  BY DEF Idle, Request, RowStatus
<1>1. ASSUME NEW h \in Handlers, NEW p \in Periods, SubmitRead(h, p)
      PROVE  TypeOK'
  <2>1. req' \in [Handlers -> Request]
    BY <1>1 DEF SubmitRead, TypeOK, Request, Idle, RowStatus, StoredStatus
  <2>2. QED
    BY <1>1, <2>1 DEF SubmitRead, TypeOK
<1>2. ASSUME NEW h \in Handlers, NEW t \in Tokens, NEW replied \in BOOLEAN,
             NewRecord(h, t, replied)
      PROVE  TypeOK'
  <2>1. req[h].period \in Periods
    BY <1>2 DEF NewRecord, RequestShape
  <2>2. pd' \in [Tokens -> Record]
    BY <1>2, <2>1, EmptyFacts DEF NewRecord, TypeOK, Record
  <2>3. req' \in [Handlers -> Request]
    BY <1>2, <1>idle DEF NewRecord, Replied, TypeOK, Request
  <2>4. QED
    BY <1>2, <2>1, <2>2, <2>3 DEF NewRecord, TypeOK
<1>3. ASSUME NEW h \in Handlers, NEW replied \in BOOLEAN, SetUnvettedStatus(h, replied)
      PROVE  TypeOK'
  <2>1. req[h].period \in Periods /\ req[h].token \in Tokens
    BY <1>3 DEF SetUnvettedStatus, RequestShape
  <2>2. pd' \in [Tokens -> Record]
    <3>1. pd' = Appended(req[h].token, "notReviewed", req[h].period)
      BY <1>3 DEF SetUnvettedStatus, SubmissionOwns
    <3>2. QED
      BY <2>1, <3>1, AppendedFacts DEF StoredStatus
  <2>3. req' \in [Handlers -> Request]
    BY <1>3, <1>idle DEF SetUnvettedStatus, Replied, TypeOK, Request
  <2>4. QED
    BY <1>3, <2>1, <2>2, <2>3 DEF SetUnvettedStatus, TypeOK
<1>4. ASSUME NEW h \in Handlers, CreateInvoice(h)
      PROVE  TypeOK'
  <2> DEFINE c == NewChange("notReviewed", req[h].stamp)
             r == [phase |-> "vetted", period |-> req[h].period, changes |-> <<c>>]
  <2>1. req[h].period \in Periods /\ req[h].token \in Tokens /\ req[h].stamp \in Nat
    BY <1>4 DEF CreateInvoice, RequestShape, TypeOK, Request
  <2>2. c \in Change
    BY <2>1, ChangeFacts DEF StoredStatus
  <2>3. r \in Record
    BY <2>1, <2>2 DEF Record
  <2>4. convertRecordToDatabaseInvoice(r) \in Row
    BY <2>3, ConvertFacts
  <2>5. db' = [db EXCEPT ![req[h].token] = convertRecordToDatabaseInvoice(r)]
    BY <1>4 DEF CreateInvoice
  <2>6. QED
    BY <1>4, <1>idle, <2>1, <2>4, <2>5 DEF CreateInvoice, TypeOK
<1>5. ASSUME NEW h \in Handlers, NEW t \in Tokens, NEW s \in StoredStatus,
             ReviewRead(h, t, s)
      PROVE  TypeOK'
  BY <1>5, BeginTypes DEF ReviewRead
<1>6. ASSUME NEW h \in Handlers, NEW u \in Users, NEW t \in Tokens, EditRead(h, u, t)
      PROVE  TypeOK'
  <2>1. PICK p \in Periods : p = <<u, MonthOf(db[t].period)>>
    BY <1>6, EditedPeriod DEF EditRead, RecordShape
  <2>2. BeginOnToken(h, "edit", t, "unreviewedChanges", TRUE, p)
    BY <1>6, <2>1 DEF EditRead
  <2>3. "unreviewedChanges" \in StoredStatus
    BY DEF StoredStatus
  <2>4. QED
    BY <2>2, <2>3, BeginTypes
<1>7. ASSUME NEW h \in Handlers, NEW t \in Tokens, PayRead(h, t)
      PROVE  TypeOK'
  BY <1>7, BeginTypes DEF PayRead, StoredStatus
<1>8. ASSUME NEW h \in Handlers, NEW t \in Tokens, CreatePaymentRead(h, t)
      PROVE  TypeOK'
  <2>1. db[t].status \in StoredStatus
    BY <1>8 DEF CreatePaymentRead, TypeOK, Row, RowStatus
  <2>2. QED
    BY <1>8, <2>1, BeginTypes DEF CreatePaymentRead
<1>9. ASSUME NEW h \in Handlers, NEW replied \in BOOLEAN, UpdateVetted(h, replied)
      PROVE  TypeOK'
  <2>1. /\ req[h].token \in Tokens /\ req[h].to \in StoredStatus
        /\ PeriodAfter(h) \in Periods
    BY <1>9 DEF UpdateVetted, PeriodAfter, RequestShape, RecordShape
  <2>2. pd' \in [Tokens -> Record] /\ clock' \in 0..MaxStamp
    <3>1. CASE req[h].appends
      <4>1. pd' = Appended(req[h].token, req[h].to, PeriodAfter(h)) /\ clock < MaxStamp /\ clock' = clock + 1
        BY <1>9, <3>1 DEF UpdateVetted
      <4>2. Appended(req[h].token, req[h].to, PeriodAfter(h)) \in [Tokens -> Record]
        BY <2>1, AppendedFacts
      <4>3. clock' \in 0..MaxStamp
        BY <4>1 DEF TypeOK
      <4>4. QED
        BY <4>1, <4>2, <4>3
    <3>2. CASE ~req[h].appends
      BY <1>9, <3>2 DEF UpdateVetted, TypeOK
    <3>3. QED
      BY <3>1, <3>2
  <2>3. req' \in [Handlers -> Request]
    BY <1>9, <1>idle DEF UpdateVetted, Replied, TypeOK, Request
  <2>4. QED
    BY <1>9, <2>1, <2>2, <2>3 DEF UpdateVetted, TypeOK
<1>10. ASSUME NEW h \in Handlers, UpdateInvoice(h)
      PROVE  TypeOK'
  <2>1. /\ req[h].token \in Tokens /\ req[h].to \in StoredStatus
        /\ req[h].stamp \in Nat /\ db[req[h].token] \in Row
    BY <1>10 DEF UpdateInvoice, RequestShape, TypeOK, Request
  <2>2. EncodeInvoice(db[req[h].token], req[h]) \in Row
    <3>1. NewChange(req[h].to, req[h].stamp) \in Change
      BY <2>1, ChangeFacts
    <3>2. QED
      BY <2>1, <3>1 DEF EncodeInvoice, Row, RowStatus
  <2>3. db' = [db EXCEPT ![req[h].token] = EncodeInvoice(db[req[h].token], req[h])]
    BY <1>10 DEF UpdateInvoice, TypeOK
  <2>4. QED
    BY <1>10, <1>idle, <2>1, <2>2, <2>3 DEF UpdateInvoice, TypeOK
<1>11. ASSUME NEW h \in Handlers, ReturnError(h)
       PROVE  TypeOK'
  <2>1. /\ req[h].op = "submit" => req[h].period \in Periods
        /\ req[h].op # "submit" => req[h].token \in Tokens
    BY <1>11 DEF ReturnError, InFlight, RequestShape, TypeOK, Request
  <2>2. QED
    BY <1>11, <1>idle, <2>1 DEF ReturnError, TypeOK
<1>12. ASSUME Crash
       PROVE  TypeOK'
  BY <1>12, <1>idle DEF Crash, TypeOK
<1>13. ASSUME LoadInventory
       PROVE  TypeOK'
  BY <1>13, ConvertFacts DEF LoadInventory, TypeOK
<1>14. ASSUME UNCHANGED vars
       PROVE  TypeOK'
  BY <1>14 DEF vars, TypeOK
<1>15. QED
  BY <1>1, <1>2, <1>3, <1>4, <1>5, <1>6, <1>7, <1>8, <1>9, <1>10, <1>11, <1>12, <1>13, <1>14
  DEF Next, HandlerStep

-----------------------------------------------------------------------------
(* The other parts of the invariant *)

\* The handlers that start by reading a row, with what they checked.
CheckedRead(h, op, t, s, appends) ==
    /\ \E p \in Periods \cup {NoPeriod} :
           /\ BeginOnToken(h, op, t, s, appends, p)
           /\ op = "edit" => p \in Periods
    /\ op = "review" => validateStatusTransition(db[t].status, s)
    /\ op \in {"review", "edit"} => appends = TRUE
    /\ op = "pay" => /\ db[t].status # "invalid"
                     /\ IF appends THEN s = "paid" /\ db[t].status # "paid"
                                   ELSE s = db[t].status

\* Every step is one of these.
LEMMA StepCases ==
    ASSUME IndInv, [Next]_vars
    PROVE  \/ \E h \in Handlers, p \in Periods : SubmitRead(h, p)
           \/ \E h \in Handlers, t \in Tokens, replied \in BOOLEAN : NewRecord(h, t, replied)
           \/ \E h \in Handlers, replied \in BOOLEAN : SetUnvettedStatus(h, replied)
           \/ \E h \in Handlers : CreateInvoice(h)
           \/ \E h \in Handlers, t \in Tokens, s \in StoredStatus,
                 op \in {"review", "edit", "pay"}, appends \in BOOLEAN :
                 CheckedRead(h, op, t, s, appends)
           \/ \E h \in Handlers, replied \in BOOLEAN : UpdateVetted(h, replied)
           \/ \E h \in Handlers : UpdateInvoice(h)
           \/ \E h \in Handlers : ReturnError(h)
           \/ Crash
           \/ LoadInventory
           \/ UNCHANGED vars
<1>1. ASSUME NEW h \in Handlers, NEW t \in Tokens, NEW s \in StoredStatus, ReviewRead(h, t, s)
      PROVE  CheckedRead(h, "review", t, s, TRUE)
  BY <1>1 DEF ReviewRead, CheckedRead
<1>2. ASSUME NEW h \in Handlers, NEW u \in Users, NEW t \in Tokens, EditRead(h, u, t)
      PROVE  CheckedRead(h, "edit", t, "unreviewedChanges", TRUE)
  <2>1. PICK p \in Periods : p = <<u, MonthOf(db[t].period)>>
    BY <1>2, EditedPeriod DEF EditRead, IndInv, RecordShape
  <2>2. BeginOnToken(h, "edit", t, "unreviewedChanges", TRUE, p)
    BY <1>2, <2>1 DEF EditRead
  <2>3. QED
    BY <2>2 DEF CheckedRead
<1>3. ASSUME NEW h \in Handlers, NEW t \in Tokens, PayRead(h, t)
      PROVE  CheckedRead(h, "pay", t, "paid", db[t].status # "paid")
  BY <1>3 DEF PayRead, CheckedRead
<1>4. ASSUME NEW h \in Handlers, NEW t \in Tokens, CreatePaymentRead(h, t)
      PROVE  \E s \in StoredStatus : CheckedRead(h, "pay", t, s, FALSE)
  <2>1. db[t].status \in StoredStatus
    BY <1>4 DEF CreatePaymentRead, IndInv, TypeOK, Row, RowStatus
  <2>2. CheckedRead(h, "pay", t, db[t].status, FALSE)
    BY <1>4 DEF CreatePaymentRead, CheckedRead
  <2>3. QED
    BY <2>1, <2>2
<1>5. "unreviewedChanges" \in StoredStatus /\ "paid" \in StoredStatus
  BY DEF StoredStatus
<1>6. QED
  BY <1>1, <1>2, <1>3, <1>4, <1>5 DEF Next, HandlerStep

\* The shape of the requests.
LEMMA ShapeStep == IndInv /\ [Next]_vars => RequestShape'
<1> SUFFICES ASSUME IndInv, TypeOK', [Next]_vars PROVE RequestShape'
  BY TypeStep
<1> USE DEF IndInv
<1>1. ASSUME NEW h \in Handlers, NEW p \in Periods, SubmitRead(h, p)
      PROVE  RequestShape'
  BY <1>1 DEF SubmitRead, RequestShape, TypeOK
<1>2. ASSUME NEW h \in Handlers, NEW t \in Tokens, NEW replied \in BOOLEAN,
             NewRecord(h, t, replied)
      PROVE  RequestShape'
  BY <1>2 DEF NewRecord, Replied, RequestShape, TypeOK, Idle
<1>3. ASSUME NEW h \in Handlers, NEW replied \in BOOLEAN, SetUnvettedStatus(h, replied)
      PROVE  RequestShape'
  BY <1>3 DEF SetUnvettedStatus, Replied, RequestShape, TypeOK, Idle
<1>4. ASSUME NEW h \in Handlers, CreateInvoice(h)
      PROVE  RequestShape'
  <2>1. \A t \in Tokens : db[t].live => db'[t].live
    BY <1>4 DEF CreateInvoice, convertRecordToDatabaseInvoice, TypeOK
  <2>2. QED
    BY <1>4, <2>1 DEF CreateInvoice, RequestShape, TypeOK, Idle
<1>5. ASSUME NEW h \in Handlers, NEW t \in Tokens, NEW s \in StoredStatus,
             NEW op \in {"review", "edit", "pay"}, NEW appends \in BOOLEAN,
             CheckedRead(h, op, t, s, appends)
      PROVE  RequestShape'
  BY <1>5 DEF CheckedRead, BeginOnToken, OnRow, RequestShape, TypeOK
<1>6. ASSUME NEW h \in Handlers, NEW replied \in BOOLEAN, UpdateVetted(h, replied)
      PROVE  RequestShape'
  BY <1>6 DEF UpdateVetted, Replied, RequestShape, TypeOK, Idle
<1>7. ASSUME NEW h \in Handlers, UpdateInvoice(h)
      PROVE  RequestShape'
  <2>1. \A t \in Tokens : db[t].live => db'[t].live
    BY <1>7 DEF UpdateInvoice, EncodeInvoice, TypeOK
  <2>2. QED
    BY <1>7, <2>1 DEF UpdateInvoice, RequestShape, TypeOK, Idle
<1>8. ASSUME NEW h \in Handlers, ReturnError(h)
      PROVE  RequestShape'
  BY <1>8 DEF ReturnError, RequestShape, TypeOK, Idle
<1>9. ASSUME Crash
      PROVE  RequestShape'
  BY <1>9 DEF Crash, RequestShape, Idle
<1>10. ASSUME LoadInventory
      PROVE  RequestShape'
  BY <1>10 DEF LoadInventory, RequestShape, DownIsIdle, InFlight, Idle
<1>11. ASSUME UNCHANGED vars
      PROVE  RequestShape'
  BY <1>11 DEF vars, RequestShape
<1>12. QED
  BY <1>1, <1>2, <1>3, <1>4, <1>5, <1>6, <1>7, <1>8, <1>9, <1>10, <1>11, StepCases

\* No request survives the process.
LEMMA DownStep == IndInv /\ [Next]_vars => DownIsIdle'
<1> SUFFICES ASSUME IndInv, TypeOK', [Next]_vars PROVE DownIsIdle'
  BY TypeStep
<1> USE DEF IndInv
<1>1. ASSUME NEW h \in Handlers, NEW p \in Periods, SubmitRead(h, p)
      PROVE  DownIsIdle'
  BY <1>1 DEF SubmitRead, DownIsIdle
<1>2. ASSUME NEW h \in Handlers, NEW t \in Tokens, NEW replied \in BOOLEAN,
             NewRecord(h, t, replied)
      PROVE  DownIsIdle'
  BY <1>2 DEF NewRecord, DownIsIdle, InFlight
<1>3. ASSUME NEW h \in Handlers, NEW replied \in BOOLEAN, SetUnvettedStatus(h, replied)
      PROVE  DownIsIdle'
  BY <1>3 DEF SetUnvettedStatus, DownIsIdle, InFlight
<1>4. ASSUME NEW h \in Handlers, CreateInvoice(h)
      PROVE  DownIsIdle'
  BY <1>4 DEF CreateInvoice, DownIsIdle, InFlight
<1>5. ASSUME NEW h \in Handlers, NEW t \in Tokens, NEW s \in StoredStatus,
             NEW op \in {"review", "edit", "pay"}, NEW appends \in BOOLEAN,
             CheckedRead(h, op, t, s, appends)
      PROVE  DownIsIdle'
  BY <1>5 DEF CheckedRead, BeginOnToken, DownIsIdle
<1>6. ASSUME NEW h \in Handlers, NEW replied \in BOOLEAN, UpdateVetted(h, replied)
      PROVE  DownIsIdle'
  BY <1>6 DEF UpdateVetted, DownIsIdle, InFlight
<1>7. ASSUME NEW h \in Handlers, UpdateInvoice(h)
      PROVE  DownIsIdle'
  BY <1>7 DEF UpdateInvoice, DownIsIdle, InFlight
<1>8. ASSUME NEW h \in Handlers, ReturnError(h)
      PROVE  DownIsIdle'
  BY <1>8 DEF ReturnError, DownIsIdle, InFlight
<1>9. ASSUME Crash
      PROVE  DownIsIdle'
  BY <1>9 DEF Crash, DownIsIdle, InFlight, Idle
<1>10. ASSUME LoadInventory
      PROVE  DownIsIdle'
  BY <1>10 DEF LoadInventory, DownIsIdle
<1>11. ASSUME UNCHANGED vars
      PROVE  DownIsIdle'
  BY <1>11 DEF vars, DownIsIdle, InFlight
<1>12. QED
  BY <1>1, <1>2, <1>3, <1>4, <1>5, <1>6, <1>7, <1>8, <1>9, <1>10, <1>11, StepCases

-----------------------------------------------------------------------------
(* What each action does, field by field *)

IdleRequest(q) == q.op = "none" /\ q.step = "idle" /\ q.token = NoToken

OthersKeep(h) == \A g \in Handlers \ {h} : req'[g] = req[g]

\* The elements of a stream are changes with a timestamp.
LEMMA StreamTypes ==
    ASSUME TypeOK, NEW t \in Tokens
    PROVE  /\ pd[t].changes \in Seq(Change)
           /\ \A i \in DOMAIN pd[t].changes : pd[t].changes[i].stamp \in Nat
<1>1. pd[t].changes \in Seq(Change)
  BY DEF TypeOK, Record
<1>2. \A i \in DOMAIN pd[t].changes : pd[t].changes[i] \in Change
  BY <1>1
<1>3. QED
  BY <1>1, <1>2 DEF Change

LEMMA SubmitReadEffect ==
    ASSUME IndInv, NEW h \in Handlers, NEW p \in Periods, SubmitRead(h, p)
    PROVE  /\ up /\ req[h].op = "none" /\ req[h].step = "idle"
           /\ req'[h].op = "submit" /\ req'[h].step = "read"
           /\ req'[h].token = NoToken /\ req'[h].period = p
           /\ OthersKeep(h)
           /\ \A t \in Tokens : ~(db[t].live /\ db[t].period = p)
<1>1. up /\ req[h].step = "idle" /\ \A t \in Tokens : ~(db[t].live /\ db[t].period = p)
  BY DEF SubmitRead, InFlight
<1>2. req[h].op = "none"
  BY <1>1 DEF IndInv, RequestShape
<1>3. /\ req'[h].op = "submit" /\ req'[h].step = "read"
      /\ req'[h].token = NoToken /\ req'[h].period = p
      /\ OthersKeep(h)
  BY DEF SubmitRead, IndInv, TypeOK, OthersKeep
<1>4. QED
  BY <1>1, <1>2, <1>3

LEMMA NewRecordEffect ==
    ASSUME IndInv, NEW h \in Handlers, NEW t \in Tokens, NEW replied \in BOOLEAN,
           NewRecord(h, t, replied)
    PROVE  /\ req[h].op = "submit" /\ req[h].step = "read"
           /\ req[h].token = NoToken /\ req[h].period \in Periods
           /\ pd[t].phase = "none" /\ pd[t].changes = <<>> /\ ~db[t].live
           /\ pd'[t].phase = "unvetted" /\ pd'[t].period = req[h].period
           /\ pd'[t].changes = <<>>
           /\ \A u \in Tokens \ {t} : pd'[u] = pd[u]
           /\ OthersKeep(h)
           /\ IF replied
              THEN /\ req'[h].op = "submit" /\ req'[h].step = "filed"
                   /\ req'[h].token = t /\ req'[h].period = req[h].period
              ELSE IdleRequest(req'[h])
<1>1. req[h].op = "submit" /\ req[h].step = "read" /\ pd[t].phase = "none"
  BY DEF NewRecord
<1>2. req[h].token = NoToken /\ req[h].period \in Periods
  BY <1>1 DEF IndInv, RequestShape
<1>3. pd[t].changes = <<>> /\ ~db[t].live
  BY <1>1 DEF IndInv, RecordShape
<1>4. /\ pd'[t].phase = "unvetted" /\ pd'[t].period = req[h].period
      /\ pd'[t].changes = <<>>
      /\ \A u \in Tokens \ {t} : pd'[u] = pd[u]
  BY DEF NewRecord, IndInv, TypeOK
<1>5. OthersKeep(h)
  BY DEF NewRecord, IndInv, TypeOK, OthersKeep
<1>6. replied => /\ req'[h].op = "submit" /\ req'[h].step = "filed"
                 /\ req'[h].token = t /\ req'[h].period = req[h].period
  BY DEF NewRecord, IndInv, TypeOK, Replied
<1>7. ~replied => IdleRequest(req'[h])
  BY DEF NewRecord, IndInv, TypeOK, IdleRequest, Idle
<1>8. QED
  BY <1>1, <1>2, <1>3, <1>4, <1>5, <1>6, <1>7

LEMMA SetUnvettedEffect ==
    ASSUME IndInv, NEW h \in Handlers, NEW replied \in BOOLEAN, SetUnvettedStatus(h, replied)
    PROVE  /\ req[h].op = "submit" /\ req[h].step = "filed"
           /\ req[h].token \in Tokens /\ req[h].period \in Periods
           /\ ~db[req[h].token].live
           /\ pd[req[h].token].phase = "unvetted" /\ pd[req[h].token].period = req[h].period
           /\ pd[req[h].token].changes = <<>>
           /\ pd'[req[h].token].phase = "vetted" /\ pd'[req[h].token].period = req[h].period
           /\ pd'[req[h].token].changes = Append(<<>>, NewChange("notReviewed", clock))
           /\ Len(pd'[req[h].token].changes) = 1
           /\ pd'[req[h].token].changes[1] = NewChange("notReviewed", clock)
           /\ \A u \in Tokens \ {req[h].token} : pd'[u] = pd[u]
           /\ clock' = clock + 1
           /\ OthersKeep(h)
           /\ IF replied
              THEN /\ req'[h].op = "submit" /\ req'[h].step = "accepted"
                   /\ req'[h].token = req[h].token /\ req'[h].period = req[h].period
                   /\ req'[h].to = req[h].to /\ req'[h].stamp = clock
              ELSE IdleRequest(req'[h])
<1>1. req[h].op = "submit" /\ req[h].step = "filed"
  BY DEF SetUnvettedStatus
<1>2. req[h].token \in Tokens /\ req[h].period \in Periods
  BY <1>1 DEF IndInv, RequestShape
<1>3. /\ ~db[req[h].token].live
      /\ pd[req[h].token].phase = "unvetted" /\ pd[req[h].token].period = req[h].period
  BY <1>1 DEF IndInv, SubmissionOwns
<1>4. pd[req[h].token].changes = <<>>
  BY <1>2, <1>3 DEF IndInv, RecordShape
<1>5. pd' = Appended(req[h].token, "notReviewed", req[h].period) /\ clock' = clock + 1
  BY <1>3 DEF SetUnvettedStatus
<1>6. "notReviewed" \in StoredStatus
  BY DEF StoredStatus
<1>7. /\ pd'[req[h].token].phase = "vetted"
      /\ pd'[req[h].token].period = req[h].period
      /\ pd'[req[h].token].changes = Append(<<>>, NewChange("notReviewed", clock))
      /\ \A u \in Tokens \ {req[h].token} : pd'[u] = pd[u]
  BY <1>2, <1>4, <1>5, <1>6, AppendedFacts DEF IndInv
<1>8. /\ Len(Append(<<>>, NewChange("notReviewed", clock))) = 1
      /\ Append(<<>>, NewChange("notReviewed", clock))[1] = NewChange("notReviewed", clock)
  OBVIOUS
<1>9. OthersKeep(h)
  BY DEF SetUnvettedStatus, IndInv, TypeOK, OthersKeep
<1>10. replied =>
          /\ req'[h].op = "submit" /\ req'[h].step = "accepted"
          /\ req'[h].token = req[h].token /\ req'[h].period = req[h].period
          /\ req'[h].to = req[h].to /\ req'[h].stamp = clock
  BY DEF SetUnvettedStatus, IndInv, TypeOK, Replied
<1>11. ~replied => IdleRequest(req'[h])
  BY DEF SetUnvettedStatus, IndInv, TypeOK, IdleRequest, Idle
<1>12. QED
  BY <1>1, <1>2, <1>3, <1>4, <1>5, <1>7, <1>8, <1>9, <1>10, <1>11

LEMMA CreateInvoiceEffect ==
    ASSUME IndInv, NEW h \in Handlers, CreateInvoice(h)
    PROVE  /\ req[h].op = "submit" /\ req[h].step = "accepted"
           /\ req[h].token \in Tokens /\ req[h].period \in Periods
           /\ ~db[req[h].token].live
           /\ pd[req[h].token].phase = "vetted" /\ pd[req[h].token].period = req[h].period
           /\ Range(pd[req[h].token].changes) = {NewChange("notReviewed", req[h].stamp)}
           /\ LastStatus(pd[req[h].token].changes) = "notReviewed"
           /\ db'[req[h].token].live /\ db'[req[h].token].period = req[h].period
           /\ db'[req[h].token].status = "notReviewed"
           /\ db'[req[h].token].changes = {NewChange("notReviewed", req[h].stamp)}
           /\ \A u \in Tokens \ {req[h].token} : db'[u] = db[u]
           /\ OthersKeep(h) /\ IdleRequest(req'[h])
<1> DEFINE c == NewChange("notReviewed", req[h].stamp)
           r == [phase |-> "vetted", period |-> req[h].period, changes |-> <<c>>]
<1>1. req[h].op = "submit" /\ req[h].step = "accepted"
  BY DEF CreateInvoice
<1>2. req[h].token \in Tokens /\ req[h].period \in Periods /\ req[h].stamp \in Nat
  BY <1>1 DEF IndInv, RequestShape, TypeOK, Request
<1>3. /\ ~db[req[h].token].live
      /\ pd[req[h].token].phase = "vetted" /\ pd[req[h].token].period = req[h].period
      /\ Len(pd[req[h].token].changes) = 1 /\ pd[req[h].token].changes[1] = c
  BY <1>1 DEF IndInv, SubmissionOwns
<1>4. "notReviewed" \in StoredStatus
  BY DEF StoredStatus
<1>5. c \in Change /\ c.status = "notReviewed"
  BY <1>2, <1>4, ChangeFacts
<1>6. /\ Range(pd[req[h].token].changes) = {c}
      /\ LastStatus(pd[req[h].token].changes) = "notReviewed"
  <2>1. pd[req[h].token].changes \in Seq(Change)
    BY <1>2, StreamTypes DEF IndInv
  <2>2. QED
    BY <1>3, <1>5, <2>1, SingleFacts
<1>7. <<c>> \in Seq(Change) /\ Len(<<c>>) = 1 /\ <<c>>[1] = c
  BY <1>5
<1>8. Range(<<c>>) = {c} /\ LastStatus(<<c>>) = "notReviewed"
  BY <1>5, <1>7, SingleFacts
<1>9. /\ db'[req[h].token] = convertRecordToDatabaseInvoice(r)
      /\ \A u \in Tokens \ {req[h].token} : db'[u] = db[u]
  BY <1>2 DEF CreateInvoice, IndInv, TypeOK
<1>10. r.phase = "vetted" /\ r.period = req[h].period /\ r.changes = <<c>>
  OBVIOUS
<1>11. /\ db'[req[h].token].live /\ db'[req[h].token].period = req[h].period
       /\ db'[req[h].token].status = "notReviewed" /\ db'[req[h].token].changes = {c}
  <2> HIDE DEF r, c
  <2>1. QED
    BY <1>8, <1>9, <1>10, RowFields
<1>12. OthersKeep(h)
  BY DEF CreateInvoice, IndInv, TypeOK, OthersKeep
<1>13. IdleRequest(req'[h])
  BY DEF CreateInvoice, IndInv, TypeOK, IdleRequest, Idle
<1>14. QED
  BY <1>1, <1>2, <1>3, <1>6, <1>9, <1>11, <1>12, <1>13

\* Reading a row changes no store.
LEMMA CheckedReadKeeps ==
    ASSUME NEW h \in Handlers, NEW t \in Tokens, NEW s \in StoredStatus,
           NEW op \in {"review", "edit", "pay"}, NEW appends \in BOOLEAN,
           CheckedRead(h, op, t, s, appends)
    PROVE  pd' = pd /\ db' = db /\ acked' = acked /\ up' = up
BY DEF CheckedRead, BeginOnToken

LEMMA CheckedReadEffect ==
    ASSUME IndInv, NEW h \in Handlers, NEW t \in Tokens, NEW s \in StoredStatus,
           NEW op \in {"review", "edit", "pay"}, NEW appends \in BOOLEAN,
           CheckedRead(h, op, t, s, appends)
    PROVE  /\ up /\ req[h].op = "none" /\ req[h].step = "idle" /\ req[h].token = NoToken
           /\ db[t].live
           /\ req'[h].op = op /\ req'[h].step = "read" /\ req'[h].token = t
           /\ req'[h].seen = db[t].status /\ req'[h].to = s /\ req'[h].appends = appends
           /\ OthersKeep(h)
<1>1. up /\ req[h].step = "idle" /\ db[t].live
  BY DEF CheckedRead, BeginOnToken, InFlight
<1>2. req[h].op = "none" /\ req[h].token = NoToken
  BY <1>1 DEF IndInv, RequestShape, Idle
<1>3. /\ req'[h].op = op /\ req'[h].step = "read" /\ req'[h].token = t
      /\ req'[h].seen = db[t].status /\ req'[h].to = s /\ req'[h].appends = appends
  BY DEF CheckedRead, BeginOnToken, OnRow, IndInv, TypeOK
<1>4. OthersKeep(h)
  BY DEF CheckedRead, BeginOnToken, IndInv, TypeOK, OthersKeep
<1>5. QED
  BY <1>1, <1>2, <1>3, <1>4

LEMMA UpdateVettedEffect ==
    ASSUME IndInv, NEW h \in Handlers, NEW replied \in BOOLEAN, UpdateVetted(h, replied)
    PROVE  /\ req[h].op \in {"review", "edit", "pay"} /\ req[h].step = "read"
           /\ req[h].token \in Tokens /\ req[h].to \in StoredStatus
           /\ db[req[h].token].live
           /\ pd[req[h].token].phase = "vetted"
           /\ \A u \in Tokens : /\ pd'[u].phase = pd[u].phase
                                /\ \/ pd'[u].period = pd[u].period
                                   \/ /\ pd[u].phase = "vetted"
                                      /\ pd'[u].period \in taken' /\ pd'[u].period \in Periods
           /\ taken \subseteq taken'
           /\ \A u \in Tokens \ {req[h].token} : pd'[u] = pd[u]
           /\ req[h].appends =>
                 /\ clock' = clock + 1
                 /\ pd'[req[h].token].changes =
                        Append(pd[req[h].token].changes, NewChange(req[h].to, clock))
           /\ ~req[h].appends => pd' = pd /\ clock' = clock
           /\ OthersKeep(h)
           /\ IF replied
              THEN /\ req'[h].op = req[h].op /\ req'[h].step = "accepted"
                   /\ req'[h].token = req[h].token /\ req'[h].seen = req[h].seen
                   /\ req'[h].to = req[h].to /\ req'[h].appends = req[h].appends
                   /\ req[h].appends => req'[h].stamp = clock
              ELSE IdleRequest(req'[h])
<1>1. req[h].op \in {"review", "edit", "pay"} /\ req[h].step = "read"
  BY DEF UpdateVetted
<1>2. /\ req[h].token \in Tokens /\ req[h].to \in StoredStatus
      /\ db[req[h].token].live /\ pd[req[h].token].phase = "vetted"
  BY <1>1 DEF IndInv, UpdateVetted, RequestShape
<1>p. PeriodAfter(h) \in Periods
  BY <1>2 DEF PeriodAfter, IndInv, RequestShape, RecordShape
<1>t. /\ PeriodAfter(h) = pd[req[h].token].period \/ PeriodAfter(h) \in taken'
      /\ taken \subseteq taken'
  BY DEF UpdateVetted
<1>3. req[h].appends => pd' = Appended(req[h].token, req[h].to, PeriodAfter(h)) /\ clock' = clock + 1
  BY DEF UpdateVetted
<1>4. ~req[h].appends => pd' = pd /\ clock' = clock
  BY DEF UpdateVetted
<1>5. req[h].appends =>
        /\ pd'[req[h].token].phase = "vetted"
        /\ pd'[req[h].token].period = PeriodAfter(h)
        /\ pd'[req[h].token].changes =
               Append(pd[req[h].token].changes, NewChange(req[h].to, clock))
        /\ \A u \in Tokens \ {req[h].token} : pd'[u] = pd[u]
  BY <1>2, <1>3, <1>p, AppendedFacts DEF IndInv
<1>6. OthersKeep(h)
  BY DEF UpdateVetted, IndInv, TypeOK, OthersKeep
<1>7. replied => /\ req'[h].op = req[h].op /\ req'[h].step = "accepted"
                 /\ req'[h].token = req[h].token /\ req'[h].seen = req[h].seen
                 /\ req'[h].to = req[h].to /\ req'[h].appends = req[h].appends
                 /\ req[h].appends => req'[h].stamp = clock
  BY DEF UpdateVetted, IndInv, TypeOK, Replied
<1>8. ~replied => IdleRequest(req'[h])
  BY DEF UpdateVetted, IndInv, TypeOK, IdleRequest, Idle
<1>9. QED
  BY <1>1, <1>2, <1>3, <1>4, <1>5, <1>6, <1>7, <1>8, <1>p, <1>t

LEMMA UpdateInvoiceEffect ==
    ASSUME IndInv, NEW h \in Handlers, UpdateInvoice(h)
    PROVE  /\ req[h].op \in {"review", "edit", "pay"} /\ req[h].step = "accepted"
           /\ req[h].token \in Tokens /\ req[h].to \in StoredStatus /\ req[h].stamp \in Nat
           /\ db[req[h].token].live
           /\ \A u \in Tokens : db'[u].live = db[u].live /\ db'[u].period = db[u].period
           /\ db'[req[h].token].status = req[h].to
           /\ req[h].appends => db'[req[h].token].changes
                = db[req[h].token].changes \cup {NewChange(req[h].to, req[h].stamp)}
           /\ ~req[h].appends => db'[req[h].token].changes = db[req[h].token].changes
           /\ \A u \in Tokens \ {req[h].token} : db'[u] = db[u]
           /\ OthersKeep(h) /\ IdleRequest(req'[h])
<1>1. req[h].op \in {"review", "edit", "pay"} /\ req[h].step = "accepted"
  BY DEF UpdateInvoice
<1>2. /\ req[h].token \in Tokens /\ req[h].to \in StoredStatus /\ req[h].stamp \in Nat
      /\ db[req[h].token].live
  BY <1>1 DEF IndInv, RequestShape, TypeOK, Request
<1>3. /\ db'[req[h].token] = EncodeInvoice(db[req[h].token], req[h])
      /\ \A u \in Tokens \ {req[h].token} : db'[u] = db[u]
  BY <1>2 DEF UpdateInvoice, IndInv, TypeOK
<1>4. /\ db'[req[h].token].live = db[req[h].token].live
      /\ db'[req[h].token].period = db[req[h].token].period
      /\ db'[req[h].token].status = req[h].to
      /\ req[h].appends => db'[req[h].token].changes
            = db[req[h].token].changes \cup {NewChange(req[h].to, req[h].stamp)}
      /\ ~req[h].appends => db'[req[h].token].changes = db[req[h].token].changes
  BY <1>3, RowFields
<1>5. OthersKeep(h)
  BY DEF UpdateInvoice, IndInv, TypeOK, OthersKeep
<1>6. IdleRequest(req'[h])
  BY DEF UpdateInvoice, IndInv, TypeOK, IdleRequest, Idle
<1>7. QED
  BY <1>1, <1>2, <1>3, <1>4, <1>5, <1>6

LEMMA ReturnErrorEffect ==
    ASSUME IndInv, NEW h \in Handlers, ReturnError(h)
    PROVE  OthersKeep(h) /\ IdleRequest(req'[h])
BY DEF ReturnError, IndInv, TypeOK, IdleRequest, Idle, OthersKeep

LEMMA LoadInventoryEffect ==
    ASSUME IndInv, LoadInventory
    PROVE  /\ \A h \in Handlers : req[h].op = "none" /\ req[h].step = "idle"
           /\ \A t \in Tokens : /\ db'[t].live <=> pd[t].phase # "none"
                                /\ db'[t].period = pd[t].period
                                /\ db'[t].status = LastStatus(pd[t].changes)
                                /\ db'[t].changes = Range(pd[t].changes)
<1>1. \A h \in Handlers : req[h].op = "none" /\ req[h].step = "idle"
  BY DEF LoadInventory, IndInv, DownIsIdle, InFlight, RequestShape
<1>2. ASSUME NEW t \in Tokens
      PROVE  /\ db'[t].live <=> pd[t].phase # "none"
             /\ db'[t].period = pd[t].period
             /\ db'[t].status = LastStatus(pd[t].changes)
             /\ db'[t].changes = Range(pd[t].changes)
  <2>1. db'[t] = convertRecordToDatabaseInvoice(pd[t])
    BY DEF LoadInventory
  <2>2. QED
    BY <2>1, RowFields
<1>3. QED
  BY <1>1, <1>2

-----------------------------------------------------------------------------
(* Each part of the invariant is kept by each action *)

\* Records and rows keep their shape.
LEMMA RecordStep == IndInv /\ [Next]_vars => RecordShape'
<1> SUFFICES ASSUME IndInv, TypeOK', [Next]_vars PROVE RecordShape'
  BY TypeStep
<1> USE DEF IndInv
<1>1. ASSUME NEW h \in Handlers, NEW p \in Periods, SubmitRead(h, p)
      PROVE  RecordShape'
  BY <1>1 DEF SubmitRead, RecordShape
<1>2. ASSUME NEW h \in Handlers, NEW t \in Tokens, NEW replied \in BOOLEAN,
             NewRecord(h, t, replied)
      PROVE  RecordShape'
  <2>1. db' = db
    BY <1>2 DEF NewRecord
  <2>2. QED
    BY <1>2, <2>1, NewRecordEffect DEF RecordShape
<1>3. ASSUME NEW h \in Handlers, NEW replied \in BOOLEAN, SetUnvettedStatus(h, replied)
      PROVE  RecordShape'
  <2>1. db' = db
    BY <1>3 DEF SetUnvettedStatus
  <2>2. QED
    BY <1>3, <2>1, SetUnvettedEffect DEF RecordShape
<1>4. ASSUME NEW h \in Handlers, CreateInvoice(h)
      PROVE  RecordShape'
  <2>1. pd' = pd
    BY <1>4 DEF CreateInvoice
  <2>2. QED
    BY <1>4, <2>1, CreateInvoiceEffect DEF RecordShape
<1>5. ASSUME NEW h \in Handlers, NEW t \in Tokens, NEW s \in StoredStatus,
             NEW op \in {"review", "edit", "pay"}, NEW appends \in BOOLEAN,
             CheckedRead(h, op, t, s, appends)
      PROVE  RecordShape'
  BY <1>5 DEF CheckedRead, BeginOnToken, RecordShape
<1>6. ASSUME NEW h \in Handlers, NEW replied \in BOOLEAN, UpdateVetted(h, replied)
      PROVE  RecordShape'
  <2>1. db' = db
    BY <1>6 DEF UpdateVetted
  <2>2. QED
    BY <1>6, <2>1, UpdateVettedEffect DEF RecordShape
<1>7. ASSUME NEW h \in Handlers, UpdateInvoice(h)
      PROVE  RecordShape'
  <2>1. pd' = pd
    BY <1>7 DEF UpdateInvoice
  <2>2. QED
    BY <1>7, <2>1, UpdateInvoiceEffect DEF RecordShape
<1>8. ASSUME NEW h \in Handlers, ReturnError(h)
      PROVE  RecordShape'
  BY <1>8 DEF ReturnError, RecordShape
<1>9. ASSUME Crash
      PROVE  RecordShape'
  BY <1>9 DEF Crash, RecordShape
<1>10. ASSUME LoadInventory
      PROVE  RecordShape'
  <2>1. pd' = pd
    BY <1>10 DEF LoadInventory
  <2>2. \A t \in Tokens : pd[t].phase = "none" => pd[t].changes = <<>>
    BY DEF RecordShape
  <2>3. QED
    BY <1>10, <2>1, <2>2, LoadInventoryEffect, EmptyFacts DEF RecordShape
<1>11. ASSUME UNCHANGED vars
      PROVE  RecordShape'
  BY <1>11 DEF vars, RecordShape
<1>12. QED
  BY <1>1, <1>2, <1>3, <1>4, <1>5, <1>6, <1>7, <1>8, <1>9, <1>10, <1>11, StepCases

\* Timestamps stay in the past.
LEMMA StampsStep == IndInv /\ [Next]_vars => StampsPast'
<1> SUFFICES ASSUME IndInv, TypeOK', [Next]_vars PROVE StampsPast'
  BY TypeStep
<1> USE DEF IndInv
<1>1. ASSUME NEW h \in Handlers, NEW p \in Periods, SubmitRead(h, p)
      PROVE  StampsPast'
  BY <1>1 DEF SubmitRead, StampsPast
<1>2. ASSUME NEW h \in Handlers, NEW t \in Tokens, NEW replied \in BOOLEAN,
             NewRecord(h, t, replied)
      PROVE  StampsPast'
  <2>1. clock' = clock
    BY <1>2 DEF NewRecord
  <2>2. \A u \in Tokens : pd'[u].changes = pd[u].changes
    BY <1>2, NewRecordEffect
  <2>3. QED
    BY <2>1, <2>2 DEF StampsPast
<1>3. ASSUME NEW h \in Handlers, NEW replied \in BOOLEAN, SetUnvettedStatus(h, replied)
      PROVE  StampsPast'
  <2> DEFINE T == req[h].token
  <2>1. clock \in Nat
    BY ConstantsAssumption DEF TypeOK
  <2>2. /\ T \in Tokens /\ clock' = clock + 1 /\ \A u \in Tokens \ {T} : pd'[u] = pd[u]
        /\ Len(pd'[T].changes) = 1 /\ pd'[T].changes[1] = NewChange("notReviewed", clock)
    BY <1>3, SetUnvettedEffect
  <2>3. pd'[T].changes \in Seq(Change)
    BY <2>2 DEF TypeOK, Record
  <2>4. DOMAIN pd'[T].changes = 1..1
    BY <2>2, <2>3
  <2>5. NewChange("notReviewed", clock).stamp = clock
    BY <2>1, ChangeFacts DEF StoredStatus
  <2>6. \A i \in DOMAIN pd'[T].changes : pd'[T].changes[i].stamp < clock'
    BY <2>1, <2>2, <2>4, <2>5
  <2>7. \A u \in Tokens : \A i \in DOMAIN pd[u].changes : pd[u].changes[i].stamp \in Nat
    BY StreamTypes
  <2>8. QED
    BY <2>1, <2>2, <2>6, <2>7 DEF StampsPast
<1>4. ASSUME NEW h \in Handlers, CreateInvoice(h)
      PROVE  StampsPast'
  BY <1>4 DEF CreateInvoice, StampsPast
<1>5. ASSUME NEW h \in Handlers, NEW t \in Tokens, NEW s \in StoredStatus,
             NEW op \in {"review", "edit", "pay"}, NEW appends \in BOOLEAN,
             CheckedRead(h, op, t, s, appends)
      PROVE  StampsPast'
  BY <1>5 DEF CheckedRead, BeginOnToken, StampsPast
<1>6. ASSUME NEW h \in Handlers, NEW replied \in BOOLEAN, UpdateVetted(h, replied)
      PROVE  StampsPast'
  <2> DEFINE T == req[h].token
             c == NewChange(req[h].to, clock)
  <2>1. clock \in Nat
    BY ConstantsAssumption DEF TypeOK
  <2>2. \A u \in Tokens : \A i \in DOMAIN pd[u].changes : pd[u].changes[i].stamp \in Nat
    BY StreamTypes
  <2>3. CASE ~req[h].appends
    BY <1>6, <2>3, UpdateVettedEffect DEF StampsPast
  <2>4. CASE req[h].appends
    <3>1. /\ T \in Tokens /\ clock' = clock + 1 /\ pd'[T].changes = Append(pd[T].changes, c)
          /\ req[h].to \in StoredStatus
          /\ \A u \in Tokens \ {T} : pd'[u] = pd[u]
      BY <1>6, <2>4, UpdateVettedEffect
    <3>2. pd[T].changes \in Seq(Change)
      BY <3>1, StreamTypes
    <3>3. \A i \in DOMAIN Append(pd[T].changes, c) :
             \/ Append(pd[T].changes, c)[i] = c
             \/ i \in DOMAIN pd[T].changes /\ Append(pd[T].changes, c)[i] = pd[T].changes[i]
      BY <3>2
    <3>4. c.stamp = clock
      BY <2>1, <3>1, ChangeFacts
    <3>5. ASSUME NEW i \in DOMAIN pd'[T].changes
          PROVE  pd'[T].changes[i].stamp < clock'
      <4>1. CASE pd'[T].changes[i] = c
        BY <4>1, <3>1, <3>4, <2>1
      <4>2. CASE i \in DOMAIN pd[T].changes /\ pd'[T].changes[i] = pd[T].changes[i]
        <5>1. pd[T].changes[i].stamp < clock /\ pd[T].changes[i].stamp \in Nat
          BY <4>2, <3>1, <2>2 DEF StampsPast
        <5>2. QED
          BY <4>2, <5>1, <3>1, <2>1
      <4>3. QED
        BY <4>1, <4>2, <3>1, <3>3
    <3>6. ASSUME NEW u \in Tokens \ {T}, NEW i \in DOMAIN pd'[u].changes
          PROVE  pd'[u].changes[i].stamp < clock'
      <4>1. pd'[u] = pd[u] /\ i \in DOMAIN pd[u].changes
        BY <3>1
      <4>2. pd[u].changes[i].stamp < clock /\ pd[u].changes[i].stamp \in Nat
        BY <4>1, <2>2 DEF StampsPast
      <4>3. QED
        BY <4>1, <4>2, <3>1, <2>1
    <3> HIDE DEF T
    <3>7. QED
      BY <3>5, <3>6, Zenon DEF StampsPast
  <2>5. QED
    BY <2>3, <2>4
<1>7. ASSUME NEW h \in Handlers, UpdateInvoice(h)
      PROVE  StampsPast'
  <2>1. pd' = pd /\ clock' = clock
    BY <1>7 DEF UpdateInvoice
  <2>2. QED
    BY <2>1 DEF StampsPast
<1>8. ASSUME NEW h \in Handlers, ReturnError(h)
      PROVE  StampsPast'
  BY <1>8 DEF ReturnError, StampsPast
<1>9. ASSUME Crash
      PROVE  StampsPast'
  BY <1>9 DEF Crash, StampsPast
<1>10. ASSUME LoadInventory
      PROVE  StampsPast'
  BY <1>10 DEF LoadInventory, StampsPast
<1>11. ASSUME UNCHANGED vars
      PROVE  StampsPast'
  BY <1>11 DEF vars, StampsPast
<1>12. QED
  BY <1>1, <1>2, <1>3, <1>4, <1>5, <1>6, <1>7, <1>8, <1>9, <1>10, <1>11, StepCases

\* A submission owns its record.
LEMMA SubmissionStep == IndInv /\ [Next]_vars => SubmissionOwns'
<1> SUFFICES ASSUME IndInv, TypeOK', [Next]_vars PROVE SubmissionOwns'
  BY TypeStep
<1> USE DEF IndInv
<1>1. ASSUME NEW h \in Handlers, NEW p \in Periods, SubmitRead(h, p)
      PROVE  SubmissionOwns'
  <2>1. pd' = pd /\ db' = db
    BY <1>1 DEF SubmitRead
  <2>2. QED
    BY <1>1, <2>1, SubmitReadEffect DEF SubmissionOwns, OthersKeep
<1>2. ASSUME NEW h \in Handlers, NEW t \in Tokens, NEW replied \in BOOLEAN,
             NewRecord(h, t, replied)
      PROVE  SubmissionOwns'
  <2>1. db' = db
    BY <1>2 DEF NewRecord
  <2>2. \A g \in Handlers : req[g].op = "submit" /\ req[g].step # "read" => req[g].token # t
    <3>1. \A g \in Handlers : req[g].op = "submit" /\ req[g].step # "read" =>
              req[g].step \in {"filed", "accepted"}
      BY DEF RequestShape, TypeOK, Request
    <3>2. QED
      BY <1>2, <3>1, NewRecordEffect DEF SubmissionOwns
  <2>3. QED
    BY <1>2, <2>1, <2>2, NewRecordEffect
    DEF SubmissionOwns, RequestShape, OthersKeep, IdleRequest
<1>3. ASSUME NEW h \in Handlers, NEW replied \in BOOLEAN, SetUnvettedStatus(h, replied)
      PROVE  SubmissionOwns'
  <2>1. db' = db
    BY <1>3 DEF SetUnvettedStatus
  <2>2. \A g \in Handlers \ {h} :
            req[g].op = "submit" /\ req[g].step # "read" => req[g].token # req[h].token
    BY <1>3, SetUnvettedEffect DEF SubmissionOwns
  <2>3. QED
    BY <1>3, <2>1, <2>2, SetUnvettedEffect
    DEF SubmissionOwns, RequestShape, OthersKeep, IdleRequest
<1>4. ASSUME NEW h \in Handlers, CreateInvoice(h)
      PROVE  SubmissionOwns'
  <2>1. pd' = pd
    BY <1>4 DEF CreateInvoice
  <2>2. \A g \in Handlers \ {h} :
            req[g].op = "submit" /\ req[g].step # "read" => req[g].token # req[h].token
    BY <1>4, CreateInvoiceEffect DEF SubmissionOwns
  <2>3. QED
    BY <1>4, <2>1, <2>2, CreateInvoiceEffect
    DEF SubmissionOwns, RequestShape, OthersKeep, IdleRequest
<1>5. ASSUME NEW h \in Handlers, NEW t \in Tokens, NEW s \in StoredStatus,
             NEW op \in {"review", "edit", "pay"}, NEW appends \in BOOLEAN,
             CheckedRead(h, op, t, s, appends)
      PROVE  SubmissionOwns'
  <2>1. pd' = pd /\ db' = db
    BY <1>5 DEF CheckedRead, BeginOnToken
  <2>2. QED
    BY <1>5, <2>1, CheckedReadEffect DEF SubmissionOwns, OthersKeep
<1>6. ASSUME NEW h \in Handlers, NEW replied \in BOOLEAN, UpdateVetted(h, replied)
      PROVE  SubmissionOwns'
  <2>1. db' = db
    BY <1>6 DEF UpdateVetted
  <2>2. \A g \in Handlers :
            req[g].op = "submit" /\ req[g].step # "read" => req[g].token # req[h].token
    BY <1>6, UpdateVettedEffect DEF SubmissionOwns
  <2>3. QED
    BY <1>6, <2>1, <2>2, UpdateVettedEffect
    DEF SubmissionOwns, RequestShape, OthersKeep, IdleRequest
<1>7. ASSUME NEW h \in Handlers, UpdateInvoice(h)
      PROVE  SubmissionOwns'
  <2>1. pd' = pd
    BY <1>7 DEF UpdateInvoice
  <2>2. QED
    BY <1>7, <2>1, UpdateInvoiceEffect
    DEF SubmissionOwns, RequestShape, OthersKeep, IdleRequest
<1>8. ASSUME NEW h \in Handlers, ReturnError(h)
      PROVE  SubmissionOwns'
  <2>1. pd' = pd /\ db' = db
    BY <1>8 DEF ReturnError
  <2>2. QED
    BY <1>8, <2>1, ReturnErrorEffect DEF SubmissionOwns, OthersKeep, IdleRequest
<1>9. ASSUME Crash
      PROVE  SubmissionOwns'
  BY <1>9 DEF Crash, SubmissionOwns, Idle
<1>10. ASSUME LoadInventory
      PROVE  SubmissionOwns'
  <2>1. req' = req
    BY <1>10 DEF LoadInventory
  <2>2. QED
    BY <1>10, <2>1, LoadInventoryEffect DEF SubmissionOwns
<1>11. ASSUME UNCHANGED vars
      PROVE  SubmissionOwns'
  BY <1>11 DEF vars, SubmissionOwns
<1>12. QED
  BY <1>1, <1>2, <1>3, <1>4, <1>5, <1>6, <1>7, <1>8, <1>9, <1>10, <1>11, StepCases

\* politeiad never forgets a change.
LEMMA StreamsGrow ==
    ASSUME IndInv, [Next]_vars, NEW t \in Tokens
    PROVE  Range(pd[t].changes) \subseteq Range(pd'[t].changes)
<1> USE DEF IndInv
<1>1. ASSUME NEW h \in Handlers, NEW p \in Periods, SubmitRead(h, p)
      PROVE  Range(pd[t].changes) \subseteq Range(pd'[t].changes)
  <2>1. pd' = pd
    BY <1>1 DEF SubmitRead
  <2>2. QED
    BY <2>1
<1>2. ASSUME NEW h \in Handlers, NEW u \in Tokens, NEW replied \in BOOLEAN,
             NewRecord(h, u, replied)
      PROVE  Range(pd[t].changes) \subseteq Range(pd'[t].changes)
  <2>1. pd'[t].changes = pd[t].changes
    BY <1>2, NewRecordEffect
  <2>2. QED
    BY <2>1
<1>3. ASSUME NEW h \in Handlers, NEW replied \in BOOLEAN, SetUnvettedStatus(h, replied)
      PROVE  Range(pd[t].changes) \subseteq Range(pd'[t].changes)
  <2>1. CASE t = req[h].token
    BY <1>3, <2>1, SetUnvettedEffect, EmptyFacts
  <2>2. CASE t # req[h].token
    BY <1>3, <2>2, SetUnvettedEffect
  <2>3. QED
    BY <2>1, <2>2
<1>4. ASSUME NEW h \in Handlers, CreateInvoice(h)
      PROVE  Range(pd[t].changes) \subseteq Range(pd'[t].changes)
  <2>1. pd' = pd
    BY <1>4 DEF CreateInvoice
  <2>2. QED
    BY <2>1
<1>5. ASSUME NEW h \in Handlers, NEW u \in Tokens, NEW s \in StoredStatus,
             NEW op \in {"review", "edit", "pay"}, NEW appends \in BOOLEAN,
             CheckedRead(h, op, u, s, appends)
      PROVE  Range(pd[t].changes) \subseteq Range(pd'[t].changes)
  <2>1. pd' = pd
    BY <1>5 DEF CheckedRead, BeginOnToken
  <2>2. QED
    BY <2>1
<1>6. ASSUME NEW h \in Handlers, NEW replied \in BOOLEAN, UpdateVetted(h, replied)
      PROVE  Range(pd[t].changes) \subseteq Range(pd'[t].changes)
  <2>1. CASE t = req[h].token /\ req[h].appends
    <3>1. /\ pd'[t].changes = Append(pd[t].changes, NewChange(req[h].to, clock))
          /\ req[h].to \in StoredStatus
      BY <1>6, <2>1, UpdateVettedEffect
    <3>2. clock \in Nat
      BY ConstantsAssumption DEF TypeOK
    <3>3. NewChange(req[h].to, clock) \in Change /\ pd[t].changes \in Seq(Change)
      BY <3>1, <3>2, ChangeFacts, StreamTypes
    <3>4. QED
      BY <3>1, <3>3, AppendFacts
  <2>2. CASE t # req[h].token \/ ~req[h].appends
    BY <1>6, <2>2, UpdateVettedEffect
  <2>3. QED
    BY <2>1, <2>2
<1>7. ASSUME NEW h \in Handlers, UpdateInvoice(h)
      PROVE  Range(pd[t].changes) \subseteq Range(pd'[t].changes)
  <2>1. pd' = pd
    BY <1>7 DEF UpdateInvoice
  <2>2. QED
    BY <2>1
<1>8. ASSUME NEW h \in Handlers, ReturnError(h)
      PROVE  Range(pd[t].changes) \subseteq Range(pd'[t].changes)
  <2>1. pd' = pd
    BY <1>8 DEF ReturnError
  <2>2. QED
    BY <2>1
<1>9. ASSUME Crash
      PROVE  Range(pd[t].changes) \subseteq Range(pd'[t].changes)
  <2>1. pd' = pd
    BY <1>9 DEF Crash
  <2>2. QED
    BY <2>1
<1>10. ASSUME LoadInventory
      PROVE  Range(pd[t].changes) \subseteq Range(pd'[t].changes)
  <2>1. pd' = pd
    BY <1>10 DEF LoadInventory
  <2>2. QED
    BY <2>1
<1>11. ASSUME UNCHANGED vars
      PROVE  Range(pd[t].changes) \subseteq Range(pd'[t].changes)
  <2>1. pd' = pd
    BY <1>11 DEF vars
  <2>2. QED
    BY <2>1
<1>12. QED
  BY <1>1, <1>2, <1>3, <1>4, <1>5, <1>6, <1>7, <1>8, <1>9, <1>10, <1>11, StepCases

\* While the server is up, no change row is lost.
LEMMA RowsGrow ==
    ASSUME IndInv, [Next]_vars, NEW t \in Tokens
    PROVE  up /\ up' => db[t].changes \subseteq db'[t].changes
<1> USE DEF IndInv
<1>1. ASSUME NEW h \in Handlers, NEW p \in Periods, SubmitRead(h, p)
      PROVE  up /\ up' => db[t].changes \subseteq db'[t].changes
  <2>1. db' = db
    BY <1>1 DEF SubmitRead
  <2>2. QED
    BY <2>1
<1>2. ASSUME NEW h \in Handlers, NEW u \in Tokens, NEW replied \in BOOLEAN,
             NewRecord(h, u, replied)
      PROVE  up /\ up' => db[t].changes \subseteq db'[t].changes
  <2>1. db' = db
    BY <1>2 DEF NewRecord
  <2>2. QED
    BY <2>1
<1>3. ASSUME NEW h \in Handlers, NEW replied \in BOOLEAN, SetUnvettedStatus(h, replied)
      PROVE  up /\ up' => db[t].changes \subseteq db'[t].changes
  <2>1. db' = db
    BY <1>3 DEF SetUnvettedStatus
  <2>2. QED
    BY <2>1
<1>4. ASSUME NEW h \in Handlers, CreateInvoice(h)
      PROVE  up /\ up' => db[t].changes \subseteq db'[t].changes
  <2>1. CASE t = req[h].token
    <3>1. db[t].changes = {}
      BY <1>4, <2>1, CreateInvoiceEffect DEF RecordShape
    <3>2. QED
      BY <3>1
  <2>2. CASE t # req[h].token
    BY <1>4, <2>2, CreateInvoiceEffect
  <2>3. QED
    BY <2>1, <2>2
<1>5. ASSUME NEW h \in Handlers, NEW u \in Tokens, NEW s \in StoredStatus,
             NEW op \in {"review", "edit", "pay"}, NEW appends \in BOOLEAN,
             CheckedRead(h, op, u, s, appends)
      PROVE  up /\ up' => db[t].changes \subseteq db'[t].changes
  <2>1. db' = db
    BY <1>5 DEF CheckedRead, BeginOnToken
  <2>2. QED
    BY <2>1
<1>6. ASSUME NEW h \in Handlers, NEW replied \in BOOLEAN, UpdateVetted(h, replied)
      PROVE  up /\ up' => db[t].changes \subseteq db'[t].changes
  <2>1. db' = db
    BY <1>6 DEF UpdateVetted
  <2>2. QED
    BY <2>1
<1>7. ASSUME NEW h \in Handlers, UpdateInvoice(h)
      PROVE  up /\ up' => db[t].changes \subseteq db'[t].changes
  <2>1. CASE t = req[h].token
    BY <1>7, <2>1, UpdateInvoiceEffect
  <2>2. CASE t # req[h].token
    BY <1>7, <2>2, UpdateInvoiceEffect
  <2>3. QED
    BY <2>1, <2>2
<1>8. ASSUME NEW h \in Handlers, ReturnError(h)
      PROVE  up /\ up' => db[t].changes \subseteq db'[t].changes
  <2>1. db' = db
    BY <1>8 DEF ReturnError
  <2>2. QED
    BY <2>1
<1>9. ASSUME Crash
      PROVE  up /\ up' => db[t].changes \subseteq db'[t].changes
  <2>1. db' = db
    BY <1>9 DEF Crash
  <2>2. QED
    BY <2>1
<1>10. ASSUME LoadInventory
      PROVE  up /\ up' => db[t].changes \subseteq db'[t].changes
  BY <1>10 DEF LoadInventory
<1>11. ASSUME UNCHANGED vars
      PROVE  up /\ up' => db[t].changes \subseteq db'[t].changes
  <2>1. db' = db
    BY <1>11 DEF vars
  <2>2. QED
    BY <2>1
<1>12. QED
  BY <1>1, <1>2, <1>3, <1>4, <1>5, <1>6, <1>7, <1>8, <1>9, <1>10, <1>11, StepCases

\* The rows stay behind the streams.
LEMMA RowsBehindStep == IndInv /\ [Next]_vars => RowsBehind'
<1> SUFFICES ASSUME IndInv, TypeOK', [Next]_vars PROVE RowsBehind'
  BY TypeStep
<1> USE DEF IndInv
<1>grow. \A t \in Tokens : Range(pd[t].changes) \subseteq Range(pd'[t].changes)
  BY StreamsGrow
<1>1. ASSUME NEW h \in Handlers, NEW p \in Periods, SubmitRead(h, p)
      PROVE  RowsBehind'
  <2>1. db' = db
    BY <1>1 DEF SubmitRead
  <2>2. QED
    BY <2>1, <1>grow DEF RowsBehind
<1>2. ASSUME NEW h \in Handlers, NEW t \in Tokens, NEW replied \in BOOLEAN,
             NewRecord(h, t, replied)
      PROVE  RowsBehind'
  <2>1. db' = db
    BY <1>2 DEF NewRecord
  <2>2. QED
    BY <2>1, <1>grow DEF RowsBehind
<1>3. ASSUME NEW h \in Handlers, NEW replied \in BOOLEAN, SetUnvettedStatus(h, replied)
      PROVE  RowsBehind'
  <2>1. db' = db
    BY <1>3 DEF SetUnvettedStatus
  <2>2. QED
    BY <2>1, <1>grow DEF RowsBehind
<1>4. ASSUME NEW h \in Handlers, CreateInvoice(h)
      PROVE  RowsBehind'
  <2> DEFINE c == NewChange("notReviewed", req[h].stamp)
  <2>1. pd' = pd
    BY <1>4 DEF CreateInvoice
  <2>2. /\ req[h].token \in Tokens
        /\ Range(pd[req[h].token].changes) = {c}
        /\ db'[req[h].token].changes = {c} /\ db'[req[h].token].status = "notReviewed"
        /\ \A u \in Tokens \ {req[h].token} : db'[u] = db[u]
    BY <1>4, CreateInvoiceEffect
  <2>3. c.status = "notReviewed"
    BY ChangeFacts DEF StoredStatus, TypeOK, Request
  <2>4. QED
    BY <2>1, <2>2, <2>3 DEF RowsBehind
<1>5. ASSUME NEW h \in Handlers, NEW t \in Tokens, NEW s \in StoredStatus,
             NEW op \in {"review", "edit", "pay"}, NEW appends \in BOOLEAN,
             CheckedRead(h, op, t, s, appends)
      PROVE  RowsBehind'
  <2>1. db' = db
    BY <1>5 DEF CheckedRead, BeginOnToken
  <2>2. QED
    BY <2>1, <1>grow DEF RowsBehind
<1>6. ASSUME NEW h \in Handlers, NEW replied \in BOOLEAN, UpdateVetted(h, replied)
      PROVE  RowsBehind'
  <2>1. db' = db
    BY <1>6 DEF UpdateVetted
  <2>2. QED
    BY <2>1, <1>grow DEF RowsBehind
<1>7. ASSUME NEW h \in Handlers, UpdateInvoice(h)
      PROVE  RowsBehind'
  <2> DEFINE T == req[h].token
             c == NewChange(req[h].to, req[h].stamp)
  <2>1. pd' = pd
    BY <1>7 DEF UpdateInvoice
  <2>2. /\ T \in Tokens /\ req[h].to # "invalid" /\ db'[T].status = req[h].to
        /\ req[h].appends => db'[T].changes = db[T].changes \cup {c}
        /\ ~req[h].appends => db'[T].changes = db[T].changes
        /\ \A u \in Tokens \ {T} : db'[u] = db[u]
        /\ req[h].step = "accepted" /\ req[h].op \in {"review", "edit", "pay"}
        /\ c.status = req[h].to
    BY <1>7, UpdateInvoiceEffect, ChangeFacts DEF StoredStatus
  <2>3. CASE req[h].appends
    <3>1. c \in Range(pd[T].changes)
      BY <2>2, <2>3 DEF RequestsBehind, RequestBehind
    <3>2. QED
      BY <2>1, <2>2, <2>3, <3>1 DEF RowsBehind
  <2>4. CASE ~req[h].appends
    <3>1. \E d \in db[T].changes : d.status = req[h].to
      BY <2>2, <2>4 DEF RequestsBehind, RequestBehind
    <3>2. QED
      BY <2>1, <2>2, <2>4, <3>1 DEF RowsBehind
  <2>5. QED
    BY <2>3, <2>4
<1>8. ASSUME NEW h \in Handlers, ReturnError(h)
      PROVE  RowsBehind'
  <2>1. db' = db
    BY <1>8 DEF ReturnError
  <2>2. QED
    BY <2>1, <1>grow DEF RowsBehind
<1>9. ASSUME Crash
      PROVE  RowsBehind'
  <2>1. db' = db
    BY <1>9 DEF Crash
  <2>2. QED
    BY <2>1, <1>grow DEF RowsBehind
<1>10. ASSUME LoadInventory
      PROVE  RowsBehind'
  <2>1. pd' = pd
    BY <1>10 DEF LoadInventory
  <2>2. ASSUME NEW t \in Tokens
        PROVE  /\ db'[t].changes \subseteq Range(pd'[t].changes)
               /\ IF db'[t].status = "invalid"
                  THEN db'[t].changes = {}
                  ELSE \E c \in db'[t].changes : c.status = db'[t].status
    <3>1. /\ pd[t].changes \in Seq(Change)
          /\ db'[t].changes = Range(pd[t].changes) /\ db'[t].status = LastStatus(pd[t].changes)
      BY <1>10, LoadInventoryEffect, StreamTypes
    <3>2. CASE pd[t].changes = <<>>
      BY <2>1, <3>1, <3>2, EmptyFacts
    <3>3. CASE pd[t].changes # <<>>
      <4>1. PICK c \in Range(pd[t].changes) : LastStatus(pd[t].changes) = c.status
        BY <3>1, <3>3, LastStatusFacts
      <4>2. c.status # "invalid"
        BY <3>1, <4>1, LastStatusFacts DEF Change, StoredStatus
      <4>3. QED
        BY <2>1, <3>1, <4>1, <4>2
    <3>4. QED
      BY <3>2, <3>3
  <2>3. QED
    BY <2>2, Zenon DEF RowsBehind
<1>11. ASSUME UNCHANGED vars
      PROVE  RowsBehind'
  <2>1. db' = db
    BY <1>11 DEF vars
  <2>2. QED
    BY <2>1, <1>grow DEF RowsBehind
<1>12. QED
  BY <1>1, <1>2, <1>3, <1>4, <1>5, <1>6, <1>7, <1>8, <1>9, <1>10, <1>11, StepCases

\* The handlers stay behind the streams.
LEMMA RequestsBehindStep == IndInv /\ [Next]_vars => RequestsBehind'
<1> SUFFICES ASSUME IndInv, TypeOK', [Next]_vars PROVE RequestsBehind'
  BY TypeStep
<1> USE DEF IndInv
<1>grow. \A t \in Tokens : Range(pd[t].changes) \subseteq Range(pd'[t].changes)
  BY StreamsGrow
<1>rows. \A t \in Tokens : up /\ up' => db[t].changes \subseteq db'[t].changes
  BY RowsGrow
<1>up. \A g \in Handlers : req[g].step # "idle" => up
  BY DEF DownIsIdle, InFlight
<1>tok. \A g \in Handlers :
            /\ req[g].step = "idle" <=> req[g].op = "none"
            /\ req[g].step = "accepted" => req[g].token \in Tokens
            /\ req[g].op \in {"review", "edit", "pay"} => req[g].token \in Tokens
  BY DEF RequestShape, TypeOK, Request
<1>old. ASSUME NEW g \in Handlers, req'[g] = req[g], up' = up
        PROVE  RequestBehind(g)'
  BY <1>grow, <1>rows, <1>up, <1>tok, <1>old DEF RequestsBehind, RequestBehind
<1>1. ASSUME NEW h \in Handlers, NEW p \in Periods, SubmitRead(h, p)
      PROVE  RequestsBehind'
  <2>1. up' = up
    BY <1>1 DEF SubmitRead
  <2>2. OthersKeep(h)
    BY <1>1, SubmitReadEffect
  <2>new. RequestBehind(h)'
    BY <1>1, SubmitReadEffect DEF RequestBehind
  <2>others. \A g \in Handlers \ {h} : RequestBehind(g)'
    BY <2>1, <2>2, <1>old DEF OthersKeep
  <2> QED
    BY <2>new, <2>others DEF RequestsBehind
<1>2. ASSUME NEW h \in Handlers, NEW t \in Tokens, NEW replied \in BOOLEAN,
             NewRecord(h, t, replied)
      PROVE  RequestsBehind'
  <2>1. up' = up
    BY <1>2 DEF NewRecord
  <2>2. OthersKeep(h)
    BY <1>2, NewRecordEffect
  <2>new. RequestBehind(h)'
    BY <1>2, NewRecordEffect DEF IdleRequest, RequestBehind
  <2>others. \A g \in Handlers \ {h} : RequestBehind(g)'
    BY <2>1, <2>2, <1>old DEF OthersKeep
  <2> QED
    BY <2>new, <2>others DEF RequestsBehind
<1>3. ASSUME NEW h \in Handlers, NEW replied \in BOOLEAN, SetUnvettedStatus(h, replied)
      PROVE  RequestsBehind'
  <2>1. up' = up
    BY <1>3 DEF SetUnvettedStatus
  <2>2. OthersKeep(h)
    BY <1>3, SetUnvettedEffect
  <2>3. req[h].to = "notReviewed"
    BY <1>3, SetUnvettedEffect DEF RequestShape
  <2>4. NewChange("notReviewed", clock) \in Range(pd'[req[h].token].changes)
    <3>1. pd'[req[h].token].changes \in Seq(Change)
      BY <1>3, SetUnvettedEffect DEF TypeOK, Record
    <3>2. QED
      BY <1>3, <3>1, SetUnvettedEffect, SingleFacts
  <2>new. RequestBehind(h)'
    BY <1>3, <2>3, <2>4, SetUnvettedEffect DEF IdleRequest, RequestBehind
  <2>others. \A g \in Handlers \ {h} : RequestBehind(g)'
    BY <2>1, <2>2, <1>old DEF OthersKeep
  <2> QED
    BY <2>new, <2>others DEF RequestsBehind
<1>4. ASSUME NEW h \in Handlers, CreateInvoice(h)
      PROVE  RequestsBehind'
  <2>1. up' = up
    BY <1>4 DEF CreateInvoice
  <2>2. OthersKeep(h) /\ IdleRequest(req'[h])
    BY <1>4, CreateInvoiceEffect
  <2>3. \A g \in Handlers \ {h} : RequestBehind(g)'
    BY <2>1, <2>2, <1>old DEF OthersKeep
  <2>4. RequestBehind(h)'
    BY <2>2 DEF IdleRequest, RequestBehind
  <2>5. QED
    BY <2>3, <2>4 DEF RequestsBehind
<1>5. ASSUME NEW h \in Handlers, NEW t \in Tokens, NEW s \in StoredStatus,
             NEW op \in {"review", "edit", "pay"}, NEW appends \in BOOLEAN,
             CheckedRead(h, op, t, s, appends)
      PROVE  RequestsBehind'
  <2>1. up' = up
    BY <1>5 DEF CheckedRead, BeginOnToken
  <2>2. OthersKeep(h)
    BY <1>5, CheckedReadEffect
  <2>3. db' = db
    BY <1>5 DEF CheckedRead, BeginOnToken
  <2>4. ~appends => s = db[t].status /\ db[t].status # "invalid"
    BY <1>5 DEF CheckedRead
  <2>5. ~appends => \E c \in db[t].changes : c.status = s
    BY <2>4 DEF RowsBehind
  <2>new. RequestBehind(h)'
    BY <1>5, <2>3, <2>5, CheckedReadEffect DEF RequestBehind
  <2>others. \A g \in Handlers \ {h} : RequestBehind(g)'
    BY <2>1, <2>2, <1>old DEF OthersKeep
  <2> QED
    BY <2>new, <2>others DEF RequestsBehind
<1>6. ASSUME NEW h \in Handlers, NEW replied \in BOOLEAN, UpdateVetted(h, replied)
      PROVE  RequestsBehind'
  <2>1. up' = up
    BY <1>6 DEF UpdateVetted
  <2>2. OthersKeep(h)
    BY <1>6, UpdateVettedEffect
  <2>3. db' = db
    BY <1>6 DEF UpdateVetted
  <2>4. req[h].appends =>
            NewChange(req[h].to, clock) \in Range(pd'[req[h].token].changes)
    <3>1. SUFFICES ASSUME req[h].appends
                   PROVE  NewChange(req[h].to, clock) \in Range(pd'[req[h].token].changes)
      OBVIOUS
    <3>2. /\ pd'[req[h].token].changes
                 = Append(pd[req[h].token].changes, NewChange(req[h].to, clock))
          /\ req[h].to \in StoredStatus /\ req[h].token \in Tokens
      BY <1>6, <3>1, UpdateVettedEffect
    <3>3. clock \in Nat
      BY ConstantsAssumption DEF TypeOK
    <3>4. NewChange(req[h].to, clock) \in Change /\ pd[req[h].token].changes \in Seq(Change)
      BY <3>2, <3>3, ChangeFacts, StreamTypes
    <3>5. QED
      BY <3>2, <3>4, AppendFacts
  <2>5. ~req[h].appends => \E c \in db[req[h].token].changes : c.status = req[h].to
    BY <1>6, UpdateVettedEffect DEF RequestsBehind, RequestBehind
  <2>new. RequestBehind(h)'
    BY <1>6, <2>3, <2>4, <2>5, UpdateVettedEffect DEF IdleRequest, RequestBehind
  <2>others. \A g \in Handlers \ {h} : RequestBehind(g)'
    BY <2>1, <2>2, <1>old DEF OthersKeep
  <2> QED
    BY <2>new, <2>others DEF RequestsBehind
<1>7. ASSUME NEW h \in Handlers, UpdateInvoice(h)
      PROVE  RequestsBehind'
  <2>1. up' = up
    BY <1>7 DEF UpdateInvoice
  <2>2. OthersKeep(h) /\ IdleRequest(req'[h])
    BY <1>7, UpdateInvoiceEffect
  <2>3. \A g \in Handlers \ {h} : RequestBehind(g)'
    BY <2>1, <2>2, <1>old DEF OthersKeep
  <2>4. RequestBehind(h)'
    BY <2>2 DEF IdleRequest, RequestBehind
  <2>5. QED
    BY <2>3, <2>4 DEF RequestsBehind
<1>8. ASSUME NEW h \in Handlers, ReturnError(h)
      PROVE  RequestsBehind'
  <2>1. up' = up
    BY <1>8 DEF ReturnError
  <2>2. OthersKeep(h) /\ IdleRequest(req'[h])
    BY <1>8, ReturnErrorEffect
  <2>3. \A g \in Handlers \ {h} : RequestBehind(g)'
    BY <2>1, <2>2, <1>old DEF OthersKeep
  <2>4. RequestBehind(h)'
    BY <2>2 DEF IdleRequest, RequestBehind
  <2>5. QED
    BY <2>3, <2>4 DEF RequestsBehind
<1>9. ASSUME Crash
      PROVE  RequestsBehind'
  BY <1>9 DEF Crash, RequestsBehind, RequestBehind, Idle
<1>10. ASSUME LoadInventory
      PROVE  RequestsBehind'
  <2>1. req' = req
    BY <1>10 DEF LoadInventory
  <2>2. QED
    BY <1>10, <2>1, LoadInventoryEffect DEF RequestsBehind, RequestBehind
<1>11. ASSUME UNCHANGED vars
      PROVE  RequestsBehind'
  BY <1>11 DEF vars, RequestsBehind, RequestBehind
<1>12. QED
  BY <1>1, <1>2, <1>3, <1>4, <1>5, <1>6, <1>7, <1>8, <1>9, <1>10, <1>11, StepCases

OnRowOp == {"review", "edit", "pay"}

\* Handlers on rows know the token; a row's token is no submission's.
LEMMA RowHandlers ==
    ASSUME IndInv, NEW g \in Handlers, req[g].op \in OnRowOp
    PROVE  /\ req[g].token \in Tokens /\ db[req[g].token].live /\ InFlight(g)
           /\ req[g].token # NoToken
           /\ \A h \in Handlers : req[h].op = "submit" => req[h].token # req[g].token
<1>1. req[g].token \in Tokens /\ db[req[g].token].live /\ InFlight(g)
  BY DEF IndInv, RequestShape, InFlight, OnRowOp
<1>2. req[g].token # NoToken
  BY <1>1, ConstantsAssumption
<1>3. ASSUME NEW h \in Handlers, req[h].op = "submit"
      PROVE  req[h].token # req[g].token
  <2>1. CASE req[h].step = "read"
    BY <1>2, <1>3, <2>1 DEF IndInv, RequestShape
  <2>2. CASE req[h].step # "read"
    BY <1>1, <1>3, <2>2 DEF IndInv, SubmissionOwns
  <2>3. QED
    BY <2>1, <2>2
<1>4. QED
  BY <1>1, <1>2, <1>3

\* An uncontended handler shares its token with nobody.
LEMMA Alone ==
    ASSUME IndInv, NEW g \in Handlers, req[g].op \in OnRowOp,
           NEW h \in Handlers \ {g}, req[h].token = req[g].token, InFlight(h)
    PROVE  g \in contended /\ req[g].token \in dirty
BY RowHandlers DEF IndInv, Contention, AloneOrDirty, OnToken, OnRowOp

\* Handlers that share a row are contended, and their row is dirty.
LEMMA ContentionStep == IndInv /\ [Next]_vars => Contention'
<1> SUFFICES ASSUME IndInv, TypeOK', [Next]_vars PROVE Contention'
  BY TypeStep
<1> USE DEF IndInv
<1>1. ASSUME NEW h \in Handlers, NEW p \in Periods, SubmitRead(h, p)
      PROVE  Contention'
  <2>1. contended' = contended /\ dirty' = dirty
    BY <1>1 DEF SubmitRead
  <2>2. OthersKeep(h) /\ req'[h].op = "submit" /\ req'[h].token = NoToken
    BY <1>1, SubmitReadEffect
  <2>3. \A g \in Handlers : req[g].op \in OnRowOp => req[g].token # NoToken
    BY RowHandlers
  <2>others. \A g \in Handlers \ {h} : AloneOrDirty(g)'
    BY <2>1, <2>2, <2>3 DEF Contention, AloneOrDirty, OnToken, InFlight, OthersKeep, IdleRequest, OnRowOp
  <2>new. AloneOrDirty(h)'
    BY <2>2 DEF AloneOrDirty
  <2> QED
    BY <2>new, <2>others DEF Contention
<1>2. ASSUME NEW h \in Handlers, NEW t \in Tokens, NEW replied \in BOOLEAN,
             NewRecord(h, t, replied)
      PROVE  Contention'
  <2>1. contended' = contended /\ dirty' = dirty
    BY <1>2 DEF NewRecord
  <2>2. OthersKeep(h) /\ ((req'[h].op = "submit" /\ req'[h].token = t) \/ IdleRequest(req'[h]))
    BY <1>2, NewRecordEffect
  <2>3. \A g \in Handlers : req[g].op \in OnRowOp => req[g].token # t
    BY <1>2, NewRecordEffect, RowHandlers
  <2>others. \A g \in Handlers \ {h} : AloneOrDirty(g)'
    BY <2>1, <2>2, <2>3 DEF Contention, AloneOrDirty, OnToken, InFlight, OthersKeep, IdleRequest, OnRowOp
  <2>new. AloneOrDirty(h)'
    BY <2>2 DEF AloneOrDirty, IdleRequest
  <2> QED
    BY <2>new, <2>others DEF Contention
<1>3. ASSUME NEW h \in Handlers, NEW replied \in BOOLEAN, SetUnvettedStatus(h, replied)
      PROVE  Contention'
  <2>1. contended' = contended /\ dirty' = dirty
    BY <1>3 DEF SetUnvettedStatus
  <2>2. /\ OthersKeep(h) /\ req[h].op = "submit"
        /\ \/ req'[h].op = "submit" /\ req'[h].token = req[h].token
           \/ IdleRequest(req'[h])
    BY <1>3, SetUnvettedEffect
  <2>3. \A g \in Handlers : req[g].op \in OnRowOp => req[g].token # req[h].token
    BY <2>2, RowHandlers
  <2>others. \A g \in Handlers \ {h} : AloneOrDirty(g)'
    BY <2>1, <2>2, <2>3 DEF Contention, AloneOrDirty, OnToken, InFlight, OthersKeep, IdleRequest, OnRowOp
  <2>new. AloneOrDirty(h)'
    BY <2>2 DEF AloneOrDirty, IdleRequest
  <2> QED
    BY <2>new, <2>others DEF Contention
<1>4. ASSUME NEW h \in Handlers, CreateInvoice(h)
      PROVE  Contention'
  <2>1. contended' = contended /\ dirty' = dirty
    BY <1>4 DEF CreateInvoice
  <2>2. OthersKeep(h) /\ IdleRequest(req'[h])
    BY <1>4, CreateInvoiceEffect
  <2>others. \A g \in Handlers \ {h} : AloneOrDirty(g)'
    BY <2>1, <2>2 DEF Contention, AloneOrDirty, OnToken, InFlight, OthersKeep, IdleRequest, OnRowOp
  <2>new. AloneOrDirty(h)'
    BY <2>2 DEF AloneOrDirty, IdleRequest
  <2> QED
    BY <2>new, <2>others DEF Contention
<1>5. ASSUME NEW h \in Handlers, NEW t \in Tokens, NEW s \in StoredStatus,
             NEW op \in {"review", "edit", "pay"}, NEW appends \in BOOLEAN,
             CheckedRead(h, op, t, s, appends)
      PROVE  Contention'
  <2>1. /\ contended' = IF OnToken(t) = {} THEN contended \ {h}
                                        ELSE contended \cup OnToken(t) \cup {h}
        /\ dirty' = IF OnToken(t) = {} THEN dirty ELSE dirty \cup {t}
    BY <1>5 DEF CheckedRead, BeginOnToken
  <2>2. OthersKeep(h) /\ req'[h].op = op /\ req'[h].token = t /\ ~InFlight(h)
    BY <1>5, CheckedReadEffect DEF InFlight
  <2>3. CASE OnToken(t) = {}
    <3>1. contended' = contended \ {h} /\ dirty' = dirty
      BY <2>1, <2>3
    <3>2. \A g \in Handlers \ {h} : InFlight(g) => req[g].token # t
      BY <2>3 DEF OnToken
    <3>3. \A g \in Handlers : req[g].op \in OnRowOp => InFlight(g)
      BY RowHandlers
    <3>4. \A g \in Handlers \ {h} : AloneOrDirty(g)'
      BY <2>2, <3>1, <3>2, <3>3
      DEF Contention, AloneOrDirty, OnToken, InFlight, OthersKeep, OnRowOp
    <3>5. AloneOrDirty(h)'
      BY <2>2, <3>1, <3>2 DEF AloneOrDirty, OnToken, InFlight, OthersKeep
    <3>6. QED
      BY <3>4, <3>5 DEF Contention
  <2>4. CASE OnToken(t) # {}
    <3>1. contended' = contended \cup OnToken(t) \cup {h} /\ dirty' = dirty \cup {t}
      BY <2>1, <2>4
    <3>2. ASSUME NEW g \in Handlers \ {h}
          PROVE  AloneOrDirty(g)'
      <4>1. CASE req[g].op \in OnRowOp /\ req[g].token = t
        <5>1. g \in OnToken(t)
          BY <4>1, RowHandlers DEF OnToken
        <5>2. QED
          BY <2>2, <3>1, <4>1, <5>1 DEF AloneOrDirty, OthersKeep
      <4>2. CASE req[g].op \in OnRowOp /\ req[g].token # t
        BY <2>2, <3>1, <4>2 DEF Contention, AloneOrDirty, OnToken, InFlight, OthersKeep, OnRowOp
      <4>3. CASE req[g].op \notin OnRowOp
        BY <2>2, <4>3 DEF AloneOrDirty, OthersKeep, OnRowOp
      <4>4. QED
        BY <4>1, <4>2, <4>3
    <3>3. AloneOrDirty(h)'
      BY <2>2, <3>1 DEF AloneOrDirty
    <3>4. QED
      BY <3>2, <3>3 DEF Contention
  <2>5. QED
    BY <2>3, <2>4
<1>6. ASSUME NEW h \in Handlers, NEW replied \in BOOLEAN, UpdateVetted(h, replied)
      PROVE  Contention'
  <2>1. contended' = contended /\ dirty \subseteq dirty'
    BY <1>6 DEF UpdateVetted
  <2>2. /\ OthersKeep(h) /\ req[h].op \in OnRowOp
        /\ \/ req'[h].op = req[h].op /\ req'[h].token = req[h].token
           \/ IdleRequest(req'[h])
    BY <1>6, UpdateVettedEffect DEF OnRowOp
  <2>3. InFlight(h)
    BY <2>2, RowHandlers
  <2>others. \A g \in Handlers \ {h} : AloneOrDirty(g)'
    BY <2>1, <2>2, <2>3 DEF Contention, AloneOrDirty, OnToken, InFlight, OthersKeep, IdleRequest, OnRowOp
  <2>new. AloneOrDirty(h)'
    BY <2>1, <2>2 DEF Contention, AloneOrDirty, OnToken, InFlight, OthersKeep, IdleRequest, OnRowOp
  <2> QED
    BY <2>new, <2>others DEF Contention
<1>7. ASSUME NEW h \in Handlers, UpdateInvoice(h)
      PROVE  Contention'
  <2>1. contended' = contended /\ dirty \ {req[h].token} \subseteq dirty'
    BY <1>7 DEF UpdateInvoice
  <2>2. h \in contended => dirty' = dirty
    BY <1>7 DEF UpdateInvoice
  <2>3. OthersKeep(h) /\ IdleRequest(req'[h]) /\ req[h].op \in OnRowOp
    BY <1>7, UpdateInvoiceEffect DEF OnRowOp
  <2>4. \A g \in Handlers \ {h} : req[g].op \in OnRowOp /\ req[g].token = req[h].token
                                     => h \in contended
    BY <2>3, RowHandlers, Alone
  <2>others. \A g \in Handlers \ {h} : AloneOrDirty(g)'
    BY <2>1, <2>2, <2>3, <2>4 DEF Contention, AloneOrDirty, OnToken, InFlight, OthersKeep, IdleRequest, OnRowOp
  <2>new. AloneOrDirty(h)'
    BY <2>3 DEF AloneOrDirty, IdleRequest
  <2> QED
    BY <2>new, <2>others DEF Contention
<1>8. ASSUME NEW h \in Handlers, ReturnError(h)
      PROVE  Contention'
  <2>1. contended' = contended /\ dirty \subseteq dirty'
    BY <1>8 DEF ReturnError
  <2>2. OthersKeep(h) /\ IdleRequest(req'[h])
    BY <1>8, ReturnErrorEffect
  <2>others. \A g \in Handlers \ {h} : AloneOrDirty(g)'
    BY <2>1, <2>2 DEF Contention, AloneOrDirty, OnToken, InFlight, OthersKeep, IdleRequest, OnRowOp
  <2>new. AloneOrDirty(h)'
    BY <2>2 DEF AloneOrDirty, IdleRequest
  <2> QED
    BY <2>new, <2>others DEF Contention
<1>9. ASSUME Crash
      PROVE  Contention'
  BY <1>9 DEF Crash, Contention, AloneOrDirty, Idle
<1>10. ASSUME LoadInventory
      PROVE  Contention'
  <2>1. req' = req
    BY <1>10 DEF LoadInventory
  <2>2. QED
    BY <1>10, <2>1, LoadInventoryEffect DEF Contention, AloneOrDirty
<1>11. ASSUME UNCHANGED vars
      PROVE  Contention'
  BY <1>11 DEF vars, Contention, AloneOrDirty, OnToken, InFlight
<1>12. QED
  BY <1>1, <1>2, <1>3, <1>4, <1>5, <1>6, <1>7, <1>8, <1>9, <1>10, <1>11, StepCases

\* An uncontended handler works on what is stored.
LEMMA SoloStep == IndInv /\ [Next]_vars => SoloHandlers'
<1> SUFFICES ASSUME IndInv, TypeOK', [Next]_vars PROVE SoloHandlers'
  BY TypeStep
<1> USE DEF IndInv
<1>old. ASSUME NEW g \in Handlers, req'[g] = req[g],
               g \notin contended' => g \notin contended,
               req[g].op \in OnRowOp /\ g \notin contended =>
                   /\ db'[req[g].token].status = db[req[g].token].status
                   /\ pd'[req[g].token].changes = pd[req[g].token].changes
        PROVE  SoloHandler(g)'
  BY <1>old DEF SoloHandlers, SoloHandler, OnRowOp
<1>1. ASSUME NEW h \in Handlers, NEW p \in Periods, SubmitRead(h, p)
      PROVE  SoloHandlers'
  <2>1. pd' = pd /\ db' = db /\ contended' = contended
    BY <1>1 DEF SubmitRead
  <2>2. OthersKeep(h) /\ req'[h].op = "submit"
    BY <1>1, SubmitReadEffect
  <2>others. \A g \in Handlers \ {h} : SoloHandler(g)'
    BY <2>1, <2>2, <1>old DEF OthersKeep
  <2>new. SoloHandler(h)'
    BY <2>2 DEF SoloHandler
  <2> QED
    BY <2>new, <2>others DEF SoloHandlers
<1>2. ASSUME NEW h \in Handlers, NEW t \in Tokens, NEW replied \in BOOLEAN,
             NewRecord(h, t, replied)
      PROVE  SoloHandlers'
  <2>1. db' = db /\ contended' = contended
    BY <1>2 DEF NewRecord
  <2>2. /\ OthersKeep(h) /\ req'[h].op \notin OnRowOp
        /\ \A u \in Tokens : pd'[u].changes = pd[u].changes
    BY <1>2, NewRecordEffect DEF IdleRequest, OnRowOp
  <2>3. \A g \in Handlers : req[g].op \in OnRowOp => req[g].token \in Tokens
    BY RowHandlers
  <2>others. \A g \in Handlers \ {h} : SoloHandler(g)'
    BY <2>1, <2>2, <2>3, <1>old DEF OthersKeep
  <2>new. SoloHandler(h)'
    BY <2>2 DEF SoloHandler, OnRowOp
  <2> QED
    BY <2>new, <2>others DEF SoloHandlers
<1>3. ASSUME NEW h \in Handlers, NEW replied \in BOOLEAN, SetUnvettedStatus(h, replied)
      PROVE  SoloHandlers'
  <2>1. db' = db /\ contended' = contended
    BY <1>3 DEF SetUnvettedStatus
  <2>2. /\ OthersKeep(h) /\ req'[h].op \notin OnRowOp /\ req[h].op = "submit"
        /\ \A u \in Tokens \ {req[h].token} : pd'[u] = pd[u]
    BY <1>3, SetUnvettedEffect DEF IdleRequest, OnRowOp
  <2>3. \A g \in Handlers : req[g].op \in OnRowOp =>
            req[g].token \in Tokens \ {req[h].token}
    BY <2>2, RowHandlers
  <2>others. \A g \in Handlers \ {h} : SoloHandler(g)'
    BY <2>1, <2>2, <2>3, <1>old DEF OthersKeep
  <2>new. SoloHandler(h)'
    BY <2>2 DEF SoloHandler, OnRowOp
  <2> QED
    BY <2>new, <2>others DEF SoloHandlers
<1>4. ASSUME NEW h \in Handlers, CreateInvoice(h)
      PROVE  SoloHandlers'
  <2>1. pd' = pd /\ contended' = contended
    BY <1>4 DEF CreateInvoice
  <2>2. /\ OthersKeep(h) /\ IdleRequest(req'[h]) /\ req[h].op = "submit"
        /\ \A u \in Tokens \ {req[h].token} : db'[u] = db[u]
    BY <1>4, CreateInvoiceEffect
  <2>3. \A g \in Handlers : req[g].op \in OnRowOp =>
            req[g].token \in Tokens \ {req[h].token}
    BY <2>2, RowHandlers
  <2>others. \A g \in Handlers \ {h} : SoloHandler(g)'
    BY <2>1, <2>2, <2>3, <1>old DEF OthersKeep
  <2>new. SoloHandler(h)'
    BY <2>2 DEF SoloHandler, IdleRequest
  <2> QED
    BY <2>new, <2>others DEF SoloHandlers
<1>5. ASSUME NEW h \in Handlers, NEW t \in Tokens, NEW s \in StoredStatus,
             NEW op \in {"review", "edit", "pay"}, NEW appends \in BOOLEAN,
             CheckedRead(h, op, t, s, appends)
      PROVE  SoloHandlers'
  <2>1. pd' = pd /\ db' = db /\ contended \ {h} \subseteq contended'
    BY <1>5 DEF CheckedRead, BeginOnToken
  <2>2. /\ OthersKeep(h)
        /\ req'[h].step = "read" /\ req'[h].token = t /\ req'[h].seen = db[t].status
    BY <1>5, CheckedReadEffect
  <2>others. \A g \in Handlers \ {h} : SoloHandler(g)'
    BY <2>1, <2>2, <1>old DEF OthersKeep
  <2>new. SoloHandler(h)'
    BY <2>1, <2>2 DEF SoloHandler
  <2> QED
    BY <2>new, <2>others DEF SoloHandlers
<1>6. ASSUME NEW h \in Handlers, NEW replied \in BOOLEAN, UpdateVetted(h, replied)
      PROVE  SoloHandlers'
  <2>1. db' = db /\ contended' = contended
    BY <1>6 DEF UpdateVetted
  <2>2. /\ OthersKeep(h) /\ req[h].op \in OnRowOp /\ InFlight(h)
        /\ \A u \in Tokens \ {req[h].token} : pd'[u] = pd[u]
    BY <1>6, UpdateVettedEffect, RowHandlers DEF OnRowOp
  <2>3. \A g \in Handlers \ {h} : req[g].op \in OnRowOp /\ g \notin contended =>
            req[g].token \in Tokens \ {req[h].token}
    BY <2>2, RowHandlers, Alone
  <2>others. \A g \in Handlers \ {h} : SoloHandler(g)'
    BY <2>1, <2>2, <2>3, <1>old DEF OthersKeep
  <2>4. req[h].appends => LastStatus(pd'[req[h].token].changes) = req[h].to
    <3>1. SUFFICES ASSUME req[h].appends
                   PROVE  LastStatus(pd'[req[h].token].changes) = req[h].to
      OBVIOUS
    <3>2. /\ pd'[req[h].token].changes
                 = Append(pd[req[h].token].changes, NewChange(req[h].to, clock))
          /\ req[h].to \in StoredStatus /\ req[h].token \in Tokens
      BY <1>6, <3>1, UpdateVettedEffect
    <3>3. clock \in Nat
      BY ConstantsAssumption DEF TypeOK
    <3>4. /\ NewChange(req[h].to, clock) \in Change
          /\ NewChange(req[h].to, clock).status = req[h].to
          /\ pd[req[h].token].changes \in Seq(Change)
      BY <3>2, <3>3, ChangeFacts, StreamTypes
    <3>5. QED
      BY <3>2, <3>4, AppendFacts
  <2>5. SoloHandler(h)
    BY DEF SoloHandlers
  <2>6. CASE replied
    <3>1. /\ req'[h].op = req[h].op /\ req'[h].token = req[h].token
          /\ req'[h].seen = req[h].seen /\ req'[h].to = req[h].to
          /\ req'[h].appends = req[h].appends
      BY <1>6, <2>6, UpdateVettedEffect
    <3>2. SoloHandler(h)'
      BY <2>1, <2>4, <2>5, <3>1 DEF SoloHandler
    <3>3. QED
      BY <2>others, <3>2 DEF SoloHandlers
  <2>7. CASE ~replied
    <3>1. IdleRequest(req'[h])
      BY <1>6, <2>7, UpdateVettedEffect
    <3>2. SoloHandler(h)'
      BY <3>1 DEF SoloHandler, IdleRequest
    <3>3. QED
      BY <2>others, <3>2 DEF SoloHandlers
  <2>8. QED
    BY <2>6, <2>7
<1>7. ASSUME NEW h \in Handlers, UpdateInvoice(h)
      PROVE  SoloHandlers'
  <2>1. pd' = pd /\ contended' = contended
    BY <1>7 DEF UpdateInvoice
  <2>2. /\ OthersKeep(h) /\ IdleRequest(req'[h]) /\ req[h].op \in OnRowOp
        /\ \A u \in Tokens \ {req[h].token} : db'[u] = db[u]
    BY <1>7, UpdateInvoiceEffect DEF OnRowOp
  <2>3. InFlight(h)
    BY <2>2, RowHandlers
  <2>4. \A g \in Handlers \ {h} : req[g].op \in OnRowOp /\ g \notin contended =>
            req[g].token \in Tokens \ {req[h].token}
    BY <2>2, <2>3, RowHandlers, Alone
  <2>others. \A g \in Handlers \ {h} : SoloHandler(g)'
    BY <2>1, <2>2, <2>4, <1>old DEF OthersKeep
  <2>new. SoloHandler(h)'
    BY <2>2 DEF SoloHandler, IdleRequest
  <2> QED
    BY <2>new, <2>others DEF SoloHandlers
<1>8. ASSUME NEW h \in Handlers, ReturnError(h)
      PROVE  SoloHandlers'
  <2>1. pd' = pd /\ db' = db /\ contended' = contended
    BY <1>8 DEF ReturnError
  <2>2. OthersKeep(h) /\ IdleRequest(req'[h])
    BY <1>8, ReturnErrorEffect
  <2>others. \A g \in Handlers \ {h} : SoloHandler(g)'
    BY <2>1, <2>2, <1>old DEF OthersKeep
  <2>new. SoloHandler(h)'
    BY <2>2 DEF SoloHandler, IdleRequest
  <2> QED
    BY <2>new, <2>others DEF SoloHandlers
<1>9. ASSUME Crash
      PROVE  SoloHandlers'
  BY <1>9 DEF Crash, SoloHandlers, SoloHandler, Idle
<1>10. ASSUME LoadInventory
      PROVE  SoloHandlers'
  <2>1. req' = req
    BY <1>10 DEF LoadInventory
  <2>2. QED
    BY <1>10, <2>1, LoadInventoryEffect DEF SoloHandlers, SoloHandler
<1>11. ASSUME UNCHANGED vars
      PROVE  SoloHandlers'
  BY <1>11 DEF vars, SoloHandlers, SoloHandler
<1>12. QED
  BY <1>1, <1>2, <1>3, <1>4, <1>5, <1>6, <1>7, <1>8, <1>9, <1>10, <1>11, StepCases

\* Requests stay checked.
LEMMA CheckedStep == IndInv /\ [Next]_vars => RequestsChecked'
<1> SUFFICES ASSUME IndInv, TypeOK', [Next]_vars PROVE RequestsChecked'
  BY TypeStep
<1> USE DEF IndInv
<1>old. ASSUME NEW g \in Handlers, req'[g] = req[g]
        PROVE  RequestChecked(g)'
  BY <1>old DEF RequestsChecked, RequestChecked
<1>1. ASSUME NEW h \in Handlers, NEW p \in Periods, SubmitRead(h, p)
      PROVE  RequestsChecked'
  <2>1. OthersKeep(h) /\ req'[h].op = "submit"
    BY <1>1, SubmitReadEffect
  <2>2. \A g \in Handlers \ {h} : RequestChecked(g)'
    BY <2>1, <1>old DEF OthersKeep
  <2>3. RequestChecked(h)'
    BY <2>1 DEF RequestChecked, IdleRequest
  <2>4. QED
    BY <2>2, <2>3 DEF RequestsChecked
<1>2. ASSUME NEW h \in Handlers, NEW t \in Tokens, NEW replied \in BOOLEAN,
             NewRecord(h, t, replied)
      PROVE  RequestsChecked'
  <2>1. OthersKeep(h) /\ req'[h].op \in {"submit", "none"}
    BY <1>2, NewRecordEffect DEF IdleRequest
  <2>2. \A g \in Handlers \ {h} : RequestChecked(g)'
    BY <2>1, <1>old DEF OthersKeep
  <2>3. RequestChecked(h)'
    BY <2>1 DEF RequestChecked, IdleRequest
  <2>4. QED
    BY <2>2, <2>3 DEF RequestsChecked
<1>3. ASSUME NEW h \in Handlers, NEW replied \in BOOLEAN, SetUnvettedStatus(h, replied)
      PROVE  RequestsChecked'
  <2>1. OthersKeep(h) /\ req'[h].op \in {"submit", "none"}
    BY <1>3, SetUnvettedEffect DEF IdleRequest
  <2>2. \A g \in Handlers \ {h} : RequestChecked(g)'
    BY <2>1, <1>old DEF OthersKeep
  <2>3. RequestChecked(h)'
    BY <2>1 DEF RequestChecked, IdleRequest
  <2>4. QED
    BY <2>2, <2>3 DEF RequestsChecked
<1>4. ASSUME NEW h \in Handlers, CreateInvoice(h)
      PROVE  RequestsChecked'
  <2>1. OthersKeep(h) /\ IdleRequest(req'[h])
    BY <1>4, CreateInvoiceEffect
  <2>2. \A g \in Handlers \ {h} : RequestChecked(g)'
    BY <2>1, <1>old DEF OthersKeep
  <2>3. RequestChecked(h)'
    BY <2>1 DEF RequestChecked, IdleRequest
  <2>4. QED
    BY <2>2, <2>3 DEF RequestsChecked
<1>5. ASSUME NEW h \in Handlers, NEW t \in Tokens, NEW s \in StoredStatus,
             NEW op \in {"review", "edit", "pay"}, NEW appends \in BOOLEAN,
             CheckedRead(h, op, t, s, appends)
      PROVE  RequestsChecked'
  <2>1. OthersKeep(h)
    BY <1>5, CheckedReadEffect
  <2>2. \A g \in Handlers \ {h} : RequestChecked(g)'
    BY <2>1, <1>old DEF OthersKeep
  <2>3. RequestChecked(h)'
    <3>1. /\ req'[h].op = op /\ req'[h].seen = db[t].status
          /\ req'[h].to = s /\ req'[h].appends = appends
      BY <1>5, CheckedReadEffect
    <3>2. /\ op = "review" => validateStatusTransition(db[t].status, s)
          /\ op \in {"review", "edit"} => appends = TRUE
          /\ op = "pay" => IF appends THEN s = "paid" /\ db[t].status # "paid"
                                      ELSE s = db[t].status
      BY <1>5 DEF CheckedRead
    <3>3. QED
      BY <3>1, <3>2 DEF RequestChecked
  <2>4. QED
    BY <2>2, <2>3 DEF RequestsChecked
<1>6. ASSUME NEW h \in Handlers, NEW replied \in BOOLEAN, UpdateVetted(h, replied)
      PROVE  RequestsChecked'
  <2>1. /\ OthersKeep(h)
        /\ \/ /\ req'[h].op = req[h].op /\ req'[h].seen = req[h].seen
              /\ req'[h].to = req[h].to /\ req'[h].appends = req[h].appends
           \/ IdleRequest(req'[h])
    BY <1>6, UpdateVettedEffect
  <2>2. \A g \in Handlers \ {h} : RequestChecked(g)'
    BY <2>1, <1>old DEF OthersKeep
  <2>3. RequestChecked(h)'
    BY <2>1 DEF RequestsChecked, RequestChecked, IdleRequest
  <2>4. QED
    BY <2>2, <2>3 DEF RequestsChecked
<1>7. ASSUME NEW h \in Handlers, UpdateInvoice(h)
      PROVE  RequestsChecked'
  <2>1. OthersKeep(h) /\ IdleRequest(req'[h])
    BY <1>7, UpdateInvoiceEffect
  <2>2. \A g \in Handlers \ {h} : RequestChecked(g)'
    BY <2>1, <1>old DEF OthersKeep
  <2>3. RequestChecked(h)'
    BY <2>1 DEF RequestChecked, IdleRequest
  <2>4. QED
    BY <2>2, <2>3 DEF RequestsChecked
<1>8. ASSUME NEW h \in Handlers, ReturnError(h)
      PROVE  RequestsChecked'
  <2>1. OthersKeep(h) /\ IdleRequest(req'[h])
    BY <1>8, ReturnErrorEffect
  <2>2. \A g \in Handlers \ {h} : RequestChecked(g)'
    BY <2>1, <1>old DEF OthersKeep
  <2>3. RequestChecked(h)'
    BY <2>1 DEF RequestChecked, IdleRequest
  <2>4. QED
    BY <2>2, <2>3 DEF RequestsChecked
<1>9. ASSUME Crash
      PROVE  RequestsChecked'
  BY <1>9 DEF Crash, RequestsChecked, RequestChecked, Idle
<1>10. ASSUME LoadInventory
      PROVE  RequestsChecked'
  <2>1. req' = req
    BY <1>10 DEF LoadInventory
  <2>2. QED
    BY <1>10, <2>1, LoadInventoryEffect DEF RequestsChecked, RequestChecked
<1>11. ASSUME UNCHANGED vars
      PROVE  RequestsChecked'
  BY <1>11 DEF vars, RequestsChecked, RequestChecked
<1>12. QED
  BY <1>1, <1>2, <1>3, <1>4, <1>5, <1>6, <1>7, <1>8, <1>9, <1>10, <1>11, StepCases

\* A step of a handler that had no change to store for t settles nothing.
LEMMA SettledBefore ==
    ASSUME NEW h \in Handlers, NEW t, OthersKeep(h), Settled(t)',
           ~(req[h].token = t /\ req[h].step = "accepted" /\ req[h].appends)
    PROVE  Settled(t)
<1>1. SUFFICES ASSUME NEW g \in Handlers, InFlight(g), req[g].token = t
               PROVE  req[g].step # "accepted" \/ ~req[g].appends
  BY DEF Settled, OnToken
<1>2. CASE g = h
  BY <1>1, <1>2
<1>3. CASE g # h
  <2>1. req'[g] = req[g]
    BY <1>3 DEF OthersKeep
  <2>2. g \in OnToken(t)'
    BY <1>1, <2>1 DEF OnToken, InFlight
  <2>3. req'[g].step # "accepted" \/ ~req'[g].appends
    BY <2>2 DEF Settled
  <2>4. QED
    BY <2>1, <2>3
<1>4. QED
  BY <1>2, <1>3

\* A clean row keeps the status of its stream.
LEMMA CleanRowsStep == IndInv /\ [Next]_vars => CleanRows'
<1> SUFFICES ASSUME IndInv, TypeOK', [Next]_vars PROVE CleanRows'
  BY TypeStep
<1> USE DEF IndInv
<1>old. ASSUME NEW h \in Handlers, OthersKeep(h), NEW t \in Tokens, up,
               db'[t] = db[t], pd'[t].changes = pd[t].changes, dirty \subseteq dirty',
               ~(req[h].token = t /\ req[h].step = "accepted" /\ req[h].appends)
        PROVE  CleanRow(t)'
  BY <1>old, SettledBefore DEF CleanRows, CleanRow
<1>up. \A g \in Handlers : req[g].step # "idle" => up
  BY DEF DownIsIdle, InFlight
<1>1. ASSUME NEW h \in Handlers, NEW p \in Periods, SubmitRead(h, p)
      PROVE  CleanRows'
  <2>1. pd' = pd /\ db' = db /\ dirty' = dirty
    BY <1>1 DEF SubmitRead
  <2>2. OthersKeep(h) /\ req[h].step = "idle" /\ up
    BY <1>1, SubmitReadEffect
  <2>3. \A t \in Tokens : CleanRow(t)'
    BY <2>1, <2>2, <1>old
  <2>4. QED
    BY <2>3 DEF CleanRows
<1>2. ASSUME NEW h \in Handlers, NEW t \in Tokens, NEW replied \in BOOLEAN,
             NewRecord(h, t, replied)
      PROVE  CleanRows'
  <2>1. db' = db /\ dirty' = dirty
    BY <1>2 DEF NewRecord
  <2>2. /\ OthersKeep(h) /\ req[h].step = "read"
        /\ \A u \in Tokens : pd'[u].changes = pd[u].changes
    BY <1>2, NewRecordEffect
  <2>3. \A u \in Tokens : CleanRow(u)'
    BY <2>1, <2>2, <1>old, <1>up
  <2>4. QED
    BY <2>3 DEF CleanRows
<1>3. ASSUME NEW h \in Handlers, NEW replied \in BOOLEAN, SetUnvettedStatus(h, replied)
      PROVE  CleanRows'
  <2>1. db' = db /\ dirty' = dirty
    BY <1>3 DEF SetUnvettedStatus
  <2>2. /\ OthersKeep(h) /\ req[h].step = "filed" /\ ~db[req[h].token].live
        /\ \A u \in Tokens \ {req[h].token} : pd'[u] = pd[u]
    BY <1>3, SetUnvettedEffect
  <2>3. \A u \in Tokens \ {req[h].token} : CleanRow(u)'
    BY <2>1, <2>2, <1>old, <1>up
  <2>4. ASSUME NEW u \in Tokens, u = req[h].token
        PROVE  CleanRow(u)'
    BY <2>1, <2>2, <2>4 DEF CleanRow
  <2>5. QED
    BY <2>3, <2>4 DEF CleanRows
<1>4. ASSUME NEW h \in Handlers, CreateInvoice(h)
      PROVE  CleanRows'
  <2>1. pd' = pd /\ dirty' = dirty
    BY <1>4 DEF CreateInvoice
  <2>2. /\ OthersKeep(h) /\ req[h].step = "accepted"
        /\ \A u \in Tokens \ {req[h].token} : db'[u] = db[u]
        /\ LastStatus(pd[req[h].token].changes) = "notReviewed"
        /\ db'[req[h].token].status = "notReviewed"
    BY <1>4, CreateInvoiceEffect
  <2>3. \A u \in Tokens \ {req[h].token} : CleanRow(u)'
    BY <2>1, <2>2, <1>old, <1>up
  <2>4. ASSUME NEW u \in Tokens, u = req[h].token
        PROVE  CleanRow(u)'
    BY <2>1, <2>2, <2>4 DEF CleanRow
  <2>5. QED
    BY <2>3, <2>4 DEF CleanRows
<1>5. ASSUME NEW h \in Handlers, NEW t \in Tokens, NEW s \in StoredStatus,
             NEW op \in {"review", "edit", "pay"}, NEW appends \in BOOLEAN,
             CheckedRead(h, op, t, s, appends)
      PROVE  CleanRows'
  <2>1. pd' = pd /\ db' = db /\ dirty \subseteq dirty'
    BY <1>5 DEF CheckedRead, BeginOnToken
  <2>2. OthersKeep(h) /\ req[h].step = "idle" /\ up
    BY <1>5, CheckedReadEffect
  <2>3. \A u \in Tokens : CleanRow(u)'
    BY <2>1, <2>2, <1>old
  <2>4. QED
    BY <2>3 DEF CleanRows
<1>6. ASSUME NEW h \in Handlers, NEW replied \in BOOLEAN, UpdateVetted(h, replied)
      PROVE  CleanRows'
  <2>1. db' = db /\ dirty \subseteq dirty' /\ up
    BY <1>6, <1>up DEF UpdateVetted
  <2>2. /\ OthersKeep(h) /\ req[h].step = "read" /\ req[h].op \in OnRowOp
        /\ \A u \in Tokens \ {req[h].token} : pd'[u] = pd[u]
    BY <1>6, UpdateVettedEffect DEF OnRowOp
  <2>3. \A u \in Tokens \ {req[h].token} : CleanRow(u)'
    BY <2>1, <2>2, <1>old
  <2>4. ASSUME NEW u \in Tokens, u = req[h].token
        PROVE  CleanRow(u)'
    <3>1. CASE ~req[h].appends
      <4>1. pd' = pd
        BY <1>6, <3>1 DEF UpdateVetted
      <4>2. QED
        BY <4>1, <2>1, <2>2, <1>old
    <3>2. CASE req[h].appends /\ ~replied
      <4>1. u \in dirty'
        BY <1>6, <2>4, <3>2 DEF UpdateVetted
      <4>2. QED
        BY <4>1 DEF CleanRow
    <3>3. CASE req[h].appends /\ replied
      <4>1. req'[h].step = "accepted" /\ req'[h].appends /\ req'[h].token = u
        BY <1>6, <2>4, <3>3, UpdateVettedEffect
      <4>2. h \in OnToken(u)'
        BY <4>1 DEF OnToken, InFlight
      <4>3. ~Settled(u)'
        BY <4>1, <4>2 DEF Settled
      <4>4. QED
        BY <4>3 DEF CleanRow
    <3>4. QED
      BY <3>1, <3>2, <3>3
  <2>5. QED
    BY <2>3, <2>4 DEF CleanRows
<1>7. ASSUME NEW h \in Handlers, UpdateInvoice(h)
      PROVE  CleanRows'
  <2>1. pd' = pd
    BY <1>7 DEF UpdateInvoice
  <2>2. /\ OthersKeep(h) /\ req[h].step = "accepted" /\ req[h].op \in OnRowOp
        /\ req[h].token \in Tokens /\ db'[req[h].token].status = req[h].to
        /\ db'[req[h].token].live = db[req[h].token].live
        /\ \A u \in Tokens \ {req[h].token} : db'[u] = db[u]
    BY <1>7, UpdateInvoiceEffect DEF OnRowOp
  <2>3. dirty' = IF req[h].appends /\ h \notin contended THEN dirty \ {req[h].token} ELSE dirty
    BY <1>7 DEF UpdateInvoice
  <2>4. up
    BY <2>2, <1>up
  <2>5. ASSUME NEW u \in Tokens \ {req[h].token}
        PROVE  CleanRow(u)'
    <3>1. Settled(u)' => Settled(u)
      BY <2>2, SettledBefore
    <3>2. CleanRow(u)
      BY <2>4 DEF CleanRows
    <3>3. db'[u] = db[u] /\ (u \in dirty => u \in dirty')
      BY <2>2, <2>3
    <3>4. QED
      BY <2>1, <3>1, <3>2, <3>3 DEF CleanRow
  <2>6. AloneOrDirty(h) /\ SoloHandler(h) /\ RequestChecked(h)
    BY DEF Contention, SoloHandlers, RequestsChecked
  <2>7. ASSUME NEW u \in Tokens, u = req[h].token
        PROVE  CleanRow(u)'
    <3>1. CASE h \in contended
      <4>1. u \in dirty'
        BY <2>2, <2>3, <2>6, <2>7, <3>1 DEF AloneOrDirty, OnRowOp
      <4>2. QED
        BY <4>1 DEF CleanRow
    <3>2. CASE h \notin contended /\ req[h].appends
      <4>1. req[h].to = LastStatus(pd[u].changes)
        BY <2>2, <2>6, <2>7, <3>2 DEF SoloHandler, OnRowOp
      <4>2. QED
        BY <2>1, <2>2, <2>7, <4>1 DEF CleanRow
    <3>3. CASE h \notin contended /\ ~req[h].appends
      <4>1. req[h].to = req[h].seen
        BY <2>2, <2>6, <3>3 DEF RequestChecked, OnRowOp
      <4>2. db[u].status = req[h].to
        BY <2>2, <2>6, <2>7, <3>3, <4>1 DEF SoloHandler, OnRowOp
      <4>3. Settled(u)' => Settled(u)
        BY <2>2, <3>3, SettledBefore
      <4>4. CleanRow(u) /\ dirty' = dirty
        BY <2>3, <2>4, <3>3 DEF CleanRows
      <4>5. QED
        BY <2>1, <2>2, <2>7, <4>1, <4>2, <4>3, <4>4 DEF CleanRow
    <3>4. QED
      BY <3>1, <3>2, <3>3
  <2>8. QED
    BY <2>5, <2>7 DEF CleanRows
<1>8. ASSUME NEW h \in Handlers, ReturnError(h)
      PROVE  CleanRows'
  <2>1. pd' = pd /\ db' = db /\ dirty \subseteq dirty' /\ up
    BY <1>8, <1>up DEF ReturnError, InFlight
  <2>2. OthersKeep(h)
    BY <1>8, ReturnErrorEffect
  <2>3. ASSUME NEW u \in Tokens
        PROVE  CleanRow(u)'
    <3>1. CASE req[h].token = u /\ req[h].step = "accepted" /\ req[h].appends
      <4>1. CASE req[h].op = "submit"
        <5>1. ~db[u].live
          BY <3>1, <4>1 DEF SubmissionOwns
        <5>2. QED
          BY <2>1, <5>1 DEF CleanRow
      <4>2. CASE req[h].op # "submit"
        <5>1. u \in dirty'
          BY <1>8, <3>1, <4>2 DEF ReturnError
        <5>2. QED
          BY <5>1 DEF CleanRow
      <4>3. QED
        BY <4>1, <4>2
    <3>2. CASE ~(req[h].token = u /\ req[h].step = "accepted" /\ req[h].appends)
      BY <2>1, <2>2, <3>2, <1>old
    <3>3. QED
      BY <3>1, <3>2
  <2>4. QED
    BY <2>3 DEF CleanRows
<1>9. ASSUME Crash
      PROVE  CleanRows'
  BY <1>9 DEF Crash, CleanRows
<1>10. ASSUME LoadInventory
      PROVE  CleanRows'
  <2>1. pd' = pd
    BY <1>10 DEF LoadInventory
  <2>2. \A u \in Tokens : db'[u].status = LastStatus(pd[u].changes)
    BY <1>10, LoadInventoryEffect
  <2>3. \A u \in Tokens : CleanRow(u)'
    BY <2>1, <2>2 DEF CleanRow
  <2>4. QED
    BY <2>3 DEF CleanRows
<1>11. ASSUME UNCHANGED vars
      PROVE  CleanRows'
  BY <1>11 DEF vars, CleanRows, CleanRow, Settled, OnToken, InFlight
<1>12. QED
  BY <1>1, <1>2, <1>3, <1>4, <1>5, <1>6, <1>7, <1>8, <1>9, <1>10, <1>11, StepCases

\* A step keeps the decisions that were durable before it.
LEMMA OldDecisions ==
    ASSUME IndInv, [Next]_vars, NEW a \in acked
    PROVE  /\ \E c \in Range(pd'[a[1]].changes) : c.stamp = a[2]
           /\ up' => \E c \in db'[a[1]].changes : c.stamp = a[2]
<1>1. a[1] \in Tokens
  BY DEF IndInv, TypeOK
<1>2. PICK c \in Range(pd[a[1]].changes) : c.stamp = a[2]
  BY DEF IndInv, DecisionsDurable
<1>3. c \in Range(pd'[a[1]].changes)
  BY <1>1, <1>2, StreamsGrow
<1>4. CASE up /\ up'
  <2>1. db[a[1]].changes \subseteq db'[a[1]].changes
    BY <1>1, <1>4, RowsGrow
  <2>2. PICK d \in db[a[1]].changes : d.stamp = a[2]
    BY <1>4 DEF IndInv, DecisionsDurable
  <2>3. d \in db'[a[1]].changes
    BY <2>1, <2>2
  <2>4. QED
    BY <1>2, <1>3, <2>2, <2>3
<1>5. CASE ~up'
  BY <1>2, <1>3, <1>5
<1>6. CASE ~up /\ up'
  <2>1. LoadInventory
    BY <1>6, StepCases, CheckedReadKeeps
    DEF SubmitRead, NewRecord, SetUnvettedStatus, CreateInvoice, UpdateVetted,
        UpdateInvoice, ReturnError, Crash, vars
  <2>2. db'[a[1]].changes = Range(pd[a[1]].changes)
    BY <1>1, <2>1, LoadInventoryEffect
  <2>3. QED
    BY <1>2, <1>3, <2>2
<1>7. QED
  BY <1>4, <1>5, <1>6

\* Only the two handlers that write a row complete a decision.
LEMMA NewDecisions ==
    ASSUME IndInv, [Next]_vars
    PROVE  \/ acked' = acked
           \/ \E h \in Handlers :
                 /\ CreateInvoice(h) \/ (UpdateInvoice(h) /\ req[h].appends)
                 /\ acked' = acked \cup {<<req[h].token, req[h].stamp>>}
<1>1. \/ acked' = acked
      \/ \E h \in Handlers : CreateInvoice(h)
      \/ \E h \in Handlers : UpdateInvoice(h)
  BY StepCases, CheckedReadKeeps DEF SubmitRead, NewRecord, SetUnvettedStatus, UpdateVetted, ReturnError, Crash, LoadInventory, vars
<1>2. ASSUME NEW h \in Handlers, CreateInvoice(h)
      PROVE  acked' = acked \cup {<<req[h].token, req[h].stamp>>}
  BY <1>2 DEF CreateInvoice
<1>3. ASSUME NEW h \in Handlers, UpdateInvoice(h)
      PROVE  acked' = IF req[h].appends THEN acked \cup {<<req[h].token, req[h].stamp>>}
                                        ELSE acked
  BY <1>3 DEF UpdateInvoice
<1>4. QED
  BY <1>1, <1>2, <1>3

\* Completed decisions are durable.
LEMMA DecisionsStep == IndInv /\ [Next]_vars => DecisionsDurable'
<1> SUFFICES ASSUME IndInv, [Next]_vars PROVE DecisionsDurable'
  OBVIOUS
<1>1. ASSUME NEW a \in acked
      PROVE  /\ \E c \in Range(pd'[a[1]].changes) : c.stamp = a[2]
             /\ up' => \E c \in db'[a[1]].changes : c.stamp = a[2]
  BY OldDecisions
<1>2. CASE acked' = acked
  BY <1>1, <1>2 DEF DecisionsDurable
<1>3. ASSUME NEW h \in Handlers,
             CreateInvoice(h) \/ (UpdateInvoice(h) /\ req[h].appends),
             acked' = acked \cup {<<req[h].token, req[h].stamp>>}
      PROVE  DecisionsDurable'
  <2> DEFINE T == req[h].token
             n == req[h].stamp
  <2>1. PICK c : c \in Range(pd'[T].changes) /\ c \in db'[T].changes /\ c.stamp = n
    <3>1. CASE CreateInvoice(h)
      <4>1. pd' = pd /\ n \in Nat
        BY <3>1 DEF CreateInvoice, IndInv, TypeOK, Request
      <4>2. /\ NewChange("notReviewed", n) \in Range(pd[T].changes)
            /\ NewChange("notReviewed", n) \in db'[T].changes
        BY <3>1, CreateInvoiceEffect
      <4>3. NewChange("notReviewed", n).stamp = n
        BY <4>1, ChangeFacts DEF StoredStatus
      <4>4. QED
        BY <4>1, <4>2, <4>3
    <3>2. CASE UpdateInvoice(h) /\ req[h].appends
      <4>1. pd' = pd
        BY <3>2 DEF UpdateInvoice
      <4>2. /\ NewChange(req[h].to, n) \in db'[T].changes
            /\ req[h].to \in StoredStatus /\ n \in Nat /\ req[h].step = "accepted"
        BY <3>2, UpdateInvoiceEffect
      <4>3. NewChange(req[h].to, n) \in Range(pd[T].changes)
        BY <3>2, <4>2 DEF IndInv, RequestsBehind, RequestBehind
      <4>4. NewChange(req[h].to, n).stamp = n
        BY <4>2, ChangeFacts
      <4>5. QED
        BY <4>1, <4>2, <4>3, <4>4
    <3>3. QED
      BY <1>3, <3>1, <3>2
  <2>2. ASSUME NEW a \in acked'
        PROVE  /\ \E d \in Range(pd'[a[1]].changes) : d.stamp = a[2]
               /\ up' => \E d \in db'[a[1]].changes : d.stamp = a[2]
    <3>1. CASE a \in acked
      BY <1>1, <3>1
    <3>2. CASE a = <<T, n>>
      <4>1. a[1] = T /\ a[2] = n
        BY <3>2
      <4>2. QED
        BY <2>1, <4>1
    <3>3. QED
      BY <1>3, <3>1, <3>2
  <2>3. QED
    BY <2>2 DEF DecisionsDurable
<1>4. QED
  BY <1>2, <1>3, NewDecisions

\* A month without races has one invoice.
LEMMA CleanPeriodsStep == IndInv /\ [Next]_vars => CleanPeriods'
<1> SUFFICES ASSUME IndInv, TypeOK', [Next]_vars PROVE CleanPeriods'
  BY TypeStep
<1> USE DEF IndInv
<1>none. ASSUME NEW p \in Periods \ Exposed, NEW h \in Submitting(p), req[h].step = "read"
         PROVE  Filed(p) = {}
  BY <1>none DEF CleanPeriods, CleanPeriod
<1>same. ASSUME NEW p \in Periods \ Exposed,
                Submitting(p)' = Submitting(p), Filed(p)' = Filed(p),
                \A h \in Submitting(p) : req'[h] = req[h],
                \A t \in Tokens : db[t].live => db'[t].live /\ db'[t].period = db[t].period,
                up' => up
         PROVE  CleanPeriod(p)'
  BY <1>same DEF CleanPeriods, CleanPeriod, Filed
<1>sub. ASSUME NEW h \in Handlers, OthersKeep(h), NEW p \in Periods,
               req[h].op = "submit" /\ req[h].period = p
                  <=> req'[h].op = "submit" /\ req'[h].period = p
        PROVE  Submitting(p)' = Submitting(p)
  BY <1>sub DEF Submitting, OthersKeep
<1>filed. ASSUME \A t \in Tokens : pd'[t].period = pd[t].period
                     /\ (pd'[t].phase = "none" <=> pd[t].phase = "none")
          PROVE  \A p \in Periods : Filed(p)' = Filed(p)
  BY <1>filed DEF Filed
<1>up. \A g \in Handlers : req[g].step # "idle" => up
  BY DEF DownIsIdle, InFlight
<1>1. ASSUME NEW h \in Handlers, NEW p \in Periods, SubmitRead(h, p)
      PROVE  CleanPeriods'
  <2>1. pd' = pd /\ db' = db /\ up' = up
    BY <1>1 DEF SubmitRead
  <2>2. /\ OthersKeep(h) /\ up /\ req[h].op # "submit"
        /\ req'[h].op = "submit" /\ req'[h].step = "read" /\ req'[h].period = p
        /\ \A t \in Tokens : ~(db[t].live /\ db[t].period = p)
    BY <1>1, SubmitReadEffect
  <2>3. Exposed' = IF Submitting(p) = {} THEN Exposed ELSE Exposed \cup {p}
    BY <1>1 DEF SubmitRead, Exposed
  <2>4. ASSUME NEW r \in Periods \ Exposed', r # p
        PROVE  CleanPeriod(r)'
    <3>1. Submitting(r)' = Submitting(r) /\ Filed(r)' = Filed(r)
      BY <2>1, <2>2, <2>4, <1>sub, <1>filed
    <3>2. \A g \in Submitting(r) : req'[g] = req[g]
      BY <2>2 DEF Submitting, OthersKeep
    <3>3. r \notin Exposed
      BY <2>3, <2>4
    <3>4. QED
      BY <2>1, <2>2, <3>1, <3>2, <3>3, <1>same
  <2>5. ASSUME p \notin Exposed'
        PROVE  CleanPeriod(p)'
    <3>1. Submitting(p) = {} /\ p \notin Exposed
      BY <2>3, <2>5
    <3>2. Filed(p) = {}
      <4>1. SUFFICES ASSUME NEW t \in Filed(p) PROVE FALSE
        OBVIOUS
      <4>2. db[t].live
        BY <2>2, <3>1 DEF CleanPeriods, CleanPeriod
      <4>3. db[t].period = p
        BY <2>2, <3>1 DEF CleanPeriods, CleanPeriod
      <4>4. QED
        BY <2>2, <4>2, <4>3 DEF Filed
    <3>3. Submitting(p)' = {h}
      BY <2>2, <3>1 DEF Submitting, OthersKeep
    <3>4. Filed(p)' = {}
      BY <2>1, <3>2, <1>filed
    <3>5. QED
      BY <3>3, <3>4 DEF CleanPeriod
  <2>6. QED
    BY <2>4, <2>5 DEF CleanPeriods
<1>2. ASSUME NEW h \in Handlers, NEW t \in Tokens, NEW replied \in BOOLEAN,
             NewRecord(h, t, replied)
      PROVE  CleanPeriods'
  <2>0. PICK p \in Periods : p = req[h].period
    BY <1>2, NewRecordEffect
  <2>1. db' = db /\ up' = up
    BY <2>0, <1>2 DEF NewRecord
  <2>2. /\ OthersKeep(h) /\ req[h].op = "submit" /\ req[h].step = "read" /\ p \in Periods
        /\ pd[t].phase = "none" /\ pd'[t].phase = "unvetted" /\ pd'[t].period = p
        /\ \A u \in Tokens \ {t} : pd'[u] = pd[u]
    BY <2>0, <1>2, NewRecordEffect
  <2>3. Exposed' = IF replied THEN Exposed ELSE Exposed \cup {p}
    BY <2>0, <1>2 DEF NewRecord, Exposed
  <2>4. ASSUME NEW r \in Periods \ Exposed', r # p
        PROVE  CleanPeriod(r)'
    <3>1. req'[h].op = "submit" => req'[h].period = p
      BY <2>0, <1>2, NewRecordEffect DEF IdleRequest
    <3>2. Submitting(r)' = Submitting(r)
      BY <2>0, <2>2, <2>4, <3>1, <1>sub
    <3>3. Filed(r)' = Filed(r)
      BY <2>0, <2>2, <2>4 DEF Filed
    <3>4. \A g \in Submitting(r) : req'[g] = req[g]
      BY <2>0, <2>2, <2>4 DEF Submitting, OthersKeep
    <3>5. r \notin Exposed
      BY <2>0, <2>3, <2>4
    <3>6. QED
      BY <2>0, <2>1, <3>2, <3>3, <3>4, <3>5, <1>same
  <2>5. ASSUME p \notin Exposed'
        PROVE  CleanPeriod(p)'
    <3>1. replied /\ p \notin Exposed
      BY <2>0, <2>3, <2>5
    <3>2. /\ req'[h].op = "submit" /\ req'[h].step = "filed"
          /\ req'[h].token = t /\ req'[h].period = p
      BY <2>0, <1>2, <3>1, NewRecordEffect
    <3>3. h \in Submitting(p) /\ Filed(p) = {}
      BY <2>0, <2>2, <3>1, <1>none DEF Submitting
    <3>4. Submitting(p)' = {h}
      BY <2>0, <2>2, <3>1, <3>2, <3>3 DEF CleanPeriods, CleanPeriod, Submitting, OthersKeep
    <3>5. Filed(p)' = {t}
      BY <2>0, <2>2, <3>3 DEF Filed
    <3>6. QED
      BY <2>0, <3>2, <3>4, <3>5 DEF CleanPeriod
  <2>6. QED
    BY <2>0, <2>4, <2>5 DEF CleanPeriods
<1>3. ASSUME NEW h \in Handlers, NEW replied \in BOOLEAN, SetUnvettedStatus(h, replied)
      PROVE  CleanPeriods'
  <2>0. PICK p \in Periods : p = req[h].period
    BY <1>3, SetUnvettedEffect
  <2>1. db' = db /\ up' = up /\ Exposed' = IF replied THEN Exposed ELSE Exposed \cup {p}
    BY <2>0, <1>3 DEF SetUnvettedStatus, Exposed
  <2>2. /\ OthersKeep(h) /\ req[h].op = "submit" /\ p \in Periods
        /\ req'[h].op = "submit" => req'[h].period = p
        /\ replied => /\ req'[h].op = "submit" /\ req'[h].step = "accepted"
                      /\ req'[h].token = req[h].token
    BY <2>0, <1>3, SetUnvettedEffect DEF IdleRequest
  <2>3. \A u \in Tokens : pd'[u].period = pd[u].period
                            /\ (pd'[u].phase = "none" <=> pd[u].phase = "none")
    BY <2>0, <1>3, SetUnvettedEffect
  <2>4. ASSUME NEW r \in Periods \ Exposed', r # p
        PROVE  CleanPeriod(r)'
    <3>1. Submitting(r)' = Submitting(r) /\ Filed(r)' = Filed(r)
      BY <2>0, <2>2, <2>3, <2>4, <1>sub, <1>filed
    <3>2. \A g \in Submitting(r) : req'[g] = req[g]
      BY <2>0, <2>2, <2>4 DEF Submitting, OthersKeep
    <3>3. r \notin Exposed
      BY <2>0, <2>1, <2>4
    <3>4. QED
      BY <2>0, <2>1, <3>1, <3>2, <3>3, <1>same
  <2>5. ASSUME p \notin Exposed'
        PROVE  CleanPeriod(p)'
    <3>1. replied /\ p \notin Exposed
      BY <2>0, <2>1, <2>5
    <3>2. Submitting(p)' = Submitting(p) /\ Filed(p)' = Filed(p)
      BY <2>0, <2>2, <2>3, <3>1, <1>sub, <1>filed
    <3>3. /\ CleanPeriod(p) /\ h \in Submitting(p)
          /\ \A g \in Submitting(p) : g = h
      BY <2>0, <2>2, <3>1 DEF CleanPeriods, CleanPeriod, Submitting
    <3>4. \A g \in Submitting(p) : req'[g].token = req[g].token /\ req'[g].step = "accepted"
      BY <2>0, <2>2, <3>1, <3>3
    <3>5. QED
      BY <2>0, <2>1, <3>2, <3>3, <3>4 DEF CleanPeriod, Filed
  <2>6. QED
    BY <2>0, <2>4, <2>5 DEF CleanPeriods
<1>4. ASSUME NEW h \in Handlers, CreateInvoice(h)
      PROVE  CleanPeriods'
  <2>0. PICK p \in Periods : p = req[h].period
    BY <1>4, CreateInvoiceEffect
  <2>1. pd' = pd /\ up' = up /\ Exposed' = Exposed
    BY <2>0, <1>4 DEF CreateInvoice, Exposed
  <2>2. /\ OthersKeep(h) /\ IdleRequest(req'[h]) /\ req[h].op = "submit" /\ p \in Periods
        /\ req[h].token \in Tokens
        /\ \A u \in Tokens : db[u].live => db'[u].live /\ db'[u].period = db[u].period
        /\ db'[req[h].token].live /\ db'[req[h].token].period = p
    BY <2>0, <1>4, CreateInvoiceEffect
  <2>3. ASSUME NEW r \in Periods \ Exposed, r # p
        PROVE  CleanPeriod(r)'
    <3>1. Submitting(r)' = Submitting(r) /\ Filed(r)' = Filed(r)
      BY <2>0, <2>1, <2>2, <2>3, <1>sub, <1>filed DEF IdleRequest
    <3>2. \A g \in Submitting(r) : req'[g] = req[g]
      BY <2>0, <2>2, <2>3 DEF Submitting, OthersKeep
    <3>3. QED
      BY <2>0, <2>1, <2>2, <3>1, <3>2, <1>same
  <2>4. ASSUME p \notin Exposed
        PROVE  CleanPeriod(p)'
    <3>1. CleanPeriod(p) /\ Submitting(p) = {h}
      BY <2>0, <2>2, <2>4 DEF CleanPeriods, CleanPeriod, Submitting
    <3>2. Submitting(p)' = {}
      BY <2>0, <2>2, <3>1 DEF Submitting, OthersKeep, IdleRequest
    <3>3. Filed(p)' = Filed(p)
      BY <2>0, <2>1, <2>2, <1>filed
    <3>4. up => \A t \in Filed(p) : db'[t].live /\ db'[t].period = p
      BY <2>0, <2>2, <3>1 DEF CleanPeriod, Filed
    <3>5. QED
      BY <2>0, <2>1, <3>1, <3>2, <3>3, <3>4 DEF CleanPeriod
  <2>5. QED
    BY <2>0, <2>1, <2>3, <2>4 DEF CleanPeriods
<1>5. ASSUME NEW h \in Handlers, NEW t \in Tokens, NEW s \in StoredStatus,
             NEW op \in {"review", "edit", "pay"}, NEW appends \in BOOLEAN,
             CheckedRead(h, op, t, s, appends)
      PROVE  CleanPeriods'
  <2>1. Exposed' = Exposed /\ up' = up
    BY <1>5 DEF CheckedRead, BeginOnToken, Exposed
  <2>2. OthersKeep(h) /\ req[h].op # "submit" /\ req'[h].op # "submit"
    BY <1>5, CheckedReadEffect DEF IdleRequest
  <2>3. /\ \A u \in Tokens : pd'[u].period = pd[u].period /\ pd'[u].phase = pd[u].phase
        /\ \A u \in Tokens : db[u].live => db'[u].live /\ db'[u].period = db[u].period
    BY <1>5, CheckedReadEffect DEF CheckedRead, BeginOnToken
  <2>4. ASSUME NEW p \in Periods \ Exposed
        PROVE  CleanPeriod(p)'
    <3>1. Submitting(p)' = Submitting(p) /\ Filed(p)' = Filed(p)
      BY <2>2, <2>3, <1>sub, <1>filed
    <3>2. \A g \in Submitting(p) : req'[g] = req[g]
      BY <2>2 DEF Submitting, OthersKeep
    <3>3. QED
      BY <2>1, <2>3, <3>1, <3>2, <1>same
  <2>5. QED
    BY <2>1, <2>4 DEF CleanPeriods
<1>6. ASSUME NEW h \in Handlers, NEW replied \in BOOLEAN, UpdateVetted(h, replied)
      PROVE  CleanPeriods'
  <2>1. raced' = raced /\ up' = up /\ db' = db
    BY <1>6 DEF UpdateVetted
  <2>2. OthersKeep(h) /\ req[h].op # "submit" /\ req'[h].op # "submit"
    BY <1>6, UpdateVettedEffect DEF IdleRequest
  <2>3. /\ \A t \in Tokens : /\ pd'[t].phase = pd[t].phase
                             /\ pd'[t].period = pd[t].period \/ pd'[t].period \in taken'
        /\ taken \subseteq taken'
    BY <1>6, UpdateVettedEffect
  <2>4. ASSUME NEW p \in Periods \ Exposed'
        PROVE  CleanPeriod(p)'
    <3>1. Submitting(p)' = Submitting(p)
      BY <2>2, <1>sub
    <3>2. \A t \in Filed(p)' : t \in Filed(p)
      BY <2>3, <2>4 DEF Filed, Exposed
    <3>3. \A g \in Submitting(p) : req'[g] = req[g]
      BY <2>2 DEF Submitting, OthersKeep
    <3>4. CleanPeriod(p)
      BY <2>1, <2>3, <2>4 DEF CleanPeriods, Exposed
    <3>5. QED
      BY <2>1, <3>1, <3>2, <3>3, <3>4 DEF CleanPeriod
  <2>5. QED
    BY <2>4 DEF CleanPeriods
<1>7. ASSUME NEW h \in Handlers, UpdateInvoice(h)
      PROVE  CleanPeriods'
  <2>1. Exposed' = Exposed /\ up' = up
    BY <1>7 DEF UpdateInvoice, Exposed
  <2>2. OthersKeep(h) /\ req[h].op # "submit" /\ req'[h].op # "submit"
    BY <1>7, UpdateInvoiceEffect DEF IdleRequest
  <2>3. /\ \A t \in Tokens : pd'[t].period = pd[t].period /\ pd'[t].phase = pd[t].phase
        /\ \A t \in Tokens : db[t].live => db'[t].live /\ db'[t].period = db[t].period
    BY <1>7, UpdateInvoiceEffect DEF UpdateInvoice
  <2>4. ASSUME NEW p \in Periods \ Exposed
        PROVE  CleanPeriod(p)'
    <3>1. Submitting(p)' = Submitting(p) /\ Filed(p)' = Filed(p)
      BY <2>2, <2>3, <1>sub, <1>filed
    <3>2. \A g \in Submitting(p) : req'[g] = req[g]
      BY <2>2 DEF Submitting, OthersKeep
    <3>3. QED
      BY <2>1, <2>3, <3>1, <3>2, <1>same
  <2>5. QED
    BY <2>1, <2>4 DEF CleanPeriods
<1>8. ASSUME NEW h \in Handlers, ReturnError(h)
      PROVE  CleanPeriods'
  <2>0. PICK p : p = req[h].period
    OBVIOUS
  <2>1. pd' = pd /\ db' = db /\ up' = up
    BY <2>0, <1>8 DEF ReturnError
  <2>2. Exposed' = IF req[h].op = "submit" /\ req[h].step \in {"filed", "accepted"}
                 THEN Exposed \cup {p} ELSE Exposed
    BY <2>0, <1>8 DEF ReturnError, Exposed
  <2>3. OthersKeep(h) /\ IdleRequest(req'[h])
    BY <2>0, <1>8, ReturnErrorEffect
  <2>4. ASSUME NEW r \in Periods \ Exposed', ~(req[h].op = "submit" /\ r = p)
        PROVE  CleanPeriod(r)'
    <3>1. Submitting(r)' = Submitting(r) /\ Filed(r)' = Filed(r)
      BY <2>0, <2>1, <2>3, <2>4, <1>sub, <1>filed DEF IdleRequest
    <3>2. \A g \in Submitting(r) : req'[g] = req[g]
      BY <2>0, <2>3, <2>4 DEF Submitting, OthersKeep
    <3>3. r \notin Exposed
      BY <2>0, <2>2, <2>4
    <3>4. QED
      BY <2>0, <2>1, <3>1, <3>2, <3>3, <1>same
  <2>5. ASSUME req[h].op = "submit", p \in Periods \ Exposed'
        PROVE  CleanPeriod(p)'
    <3>1. req[h].step = "read" /\ p \notin Exposed
      BY <2>0, <2>2, <2>5 DEF RequestShape, TypeOK, Request
    <3>2. h \in Submitting(p) /\ Filed(p) = {} /\ \A g \in Submitting(p) : g = h
      BY <2>0, <2>5, <3>1, <1>none DEF Submitting, CleanPeriods, CleanPeriod
    <3>3. Submitting(p)' = {}
      BY <2>0, <2>3, <3>2 DEF Submitting, OthersKeep, IdleRequest
    <3>4. Filed(p)' = {}
      BY <2>0, <2>1, <2>5, <3>2, <1>filed
    <3>5. QED
      BY <2>0, <3>3, <3>4 DEF CleanPeriod
  <2>6. QED
    BY <2>0, <2>4, <2>5 DEF CleanPeriods
<1>9. ASSUME Crash
      PROVE  CleanPeriods'
  <2>1. pd' = pd /\ ~up' /\ Exposed' = Exposed /\ \A h \in Handlers : req'[h].op = "none"
    BY <1>9 DEF Crash, Idle, Exposed
  <2>2. ASSUME NEW p \in Periods \ Exposed
        PROVE  CleanPeriod(p)'
    <3>1. Submitting(p)' = {}
      BY <2>1 DEF Submitting
    <3>2. Filed(p)' = Filed(p) /\ CleanPeriod(p)
      BY <2>1, <1>filed DEF CleanPeriods
    <3>3. QED
      BY <2>1, <3>1, <3>2 DEF CleanPeriod
  <2>3. QED
    BY <2>1, <2>2 DEF CleanPeriods
<1>10. ASSUME LoadInventory
      PROVE  CleanPeriods'
  <2>1. /\ pd' = pd /\ req' = req
        /\ Exposed' = {p \in Exposed : \E t, u \in Filed(p) : t # u}
    BY <1>10 DEF LoadInventory, Exposed
  <2>2. /\ \A h \in Handlers : req[h].op = "none"
        /\ \A t \in Tokens : (db'[t].live <=> pd[t].phase # "none") /\ db'[t].period = pd[t].period
    BY <1>10, LoadInventoryEffect
  <2>3. ASSUME NEW p \in Periods \ Exposed'
        PROVE  CleanPeriod(p)'
    <3>1. Submitting(p)' = {}
      BY <2>1, <2>2 DEF Submitting
    <3>2. \A t, u \in Filed(p) : t = u
      BY <2>1, <2>3 DEF CleanPeriods, CleanPeriod
    <3>3. Filed(p)' = Filed(p)
      BY <2>1, <1>filed
    <3>4. \A t \in Filed(p) : db'[t].live /\ db'[t].period = p
      BY <2>2 DEF Filed
    <3>5. QED
      BY <3>1, <3>2, <3>3, <3>4 DEF CleanPeriod
  <2>4. QED
    BY <2>3 DEF CleanPeriods
<1>11. ASSUME UNCHANGED vars
      PROVE  CleanPeriods'
  <2>1. /\ pd' = pd /\ db' = db /\ req' = req /\ up' = up /\ Exposed' = Exposed
    BY <1>11 DEF vars, Exposed
  <2>2. ASSUME NEW p \in Periods \ Exposed
        PROVE  CleanPeriod(p)'
    <3>1. Submitting(p)' = Submitting(p) /\ Filed(p)' = Filed(p)
      BY <2>1 DEF Submitting, Filed
    <3>2. QED
      BY <2>1, <3>1, <1>same
  <2>3. QED
    BY <2>1, <2>2 DEF CleanPeriods
<1>12. QED
  BY <1>1, <1>2, <1>3, <1>4, <1>5, <1>6, <1>7, <1>8, <1>9, <1>10, <1>11, StepCases

-----------------------------------------------------------------------------
(* The invariant *)

LEMMA InitIndInv == Init => IndInv
<1> SUFFICES ASSUME Init PROVE IndInv
  OBVIOUS
<1> USE ConstantsAssumption
<1>1. /\ \A t \in Tokens : /\ pd[t].phase = "none" /\ pd[t].period = NoPeriod
                           /\ pd[t].changes = <<>>
      /\ \A h \in Handlers : req[h] = Idle
  BY DEF Init, NoRecord
<1>2. \A t \in Tokens : /\ ~db[t].live /\ db[t].status = "invalid" /\ db[t].changes = {}
  <2>1. /\ NoRecord.phase = "none" /\ NoRecord.changes = <<>>
    BY DEF NoRecord
  <2>2. \A t \in Tokens : db[t] = convertRecordToDatabaseInvoice(NoRecord)
    BY DEF Init
  <2>3. QED
    BY <2>1, <2>2, RowFields, EmptyFacts
<1>3. Idle.op = "none" /\ Idle.step = "idle" /\ Idle.token = NoToken
  BY DEF Idle
<1>4. TypeOK
  <2>1. NoRecord \in Record
    BY EmptyFacts DEF NoRecord, Record
  <2>2. convertRecordToDatabaseInvoice(NoRecord) \in Row
    BY <2>1, ConvertFacts
  <2>3. Idle \in Request
    BY DEF Idle, Request, RowStatus
  <2>4. QED
    BY <2>1, <2>2, <2>3 DEF Init, TypeOK
<1>5. RequestShape /\ DownIsIdle /\ SubmissionOwns
  BY <1>1, <1>3 DEF RequestShape, DownIsIdle, InFlight, SubmissionOwns
<1>6. RecordShape
  BY <1>1, <1>2 DEF RecordShape, Periods
<1>7. StampsPast
  <2>1. \A t \in Tokens : DOMAIN pd[t].changes = {}
    BY <1>1
  <2>2. QED
    BY <2>1 DEF StampsPast
<1>8. RowsBehind
  BY <1>2 DEF RowsBehind
<1>9. RequestsBehind /\ Contention /\ SoloHandlers /\ RequestsChecked
  BY <1>1, <1>3 DEF RequestsBehind, RequestBehind, Contention, AloneOrDirty,
     SoloHandlers, SoloHandler, RequestsChecked, RequestChecked
<1>10. CleanRows
  BY <1>2 DEF CleanRows, CleanRow
<1>11. CleanPeriods
  BY <1>1, <1>3 DEF CleanPeriods, CleanPeriod, Submitting, Filed, Exposed
<1>12. DecisionsDurable
  BY DEF Init, DecisionsDurable
<1>13. QED
  BY <1>4, <1>5, <1>6, <1>7, <1>8, <1>9, <1>10, <1>11, <1>12 DEF IndInv

LEMMA NextIndInv == IndInv /\ [Next]_vars => IndInv'
BY TypeStep, ShapeStep, DownStep, RecordStep, SubmissionStep, StampsStep, RowsBehindStep,
   RequestsBehindStep, ContentionStep, SoloStep, CheckedStep, CleanRowsStep,
   CleanPeriodsStep, DecisionsStep
DEF IndInv

\* The inductive invariant holds of every behaviour.
THEOREM Invariance == Spec => []IndInv
<1>1. Init => IndInv
  BY InitIndInv
<1>2. IndInv /\ [Next]_vars => IndInv'
  BY NextIndInv
<1>3. QED
  BY <1>1, <1>2, PTL DEF Spec

-----------------------------------------------------------------------------
(* The theorems *)

\* Every variable keeps its type, however many handlers, tokens and months.
THEOREM TypeCorrect == Spec => []TypeOK
<1>1. IndInv => TypeOK
  BY DEF IndInv
<1>2. QED
  BY <1>1, Invariance, PTL

\* The cache is coherent: HandleSetInvoiceStatus, HandleEditInvoice and
\* updateInvoicePayment leave the row with the status politeiad's record
\* ends in, unless requests overlapped or failed half way.
THEOREM Coherence == Spec => []CacheCoherent
<1>1. IndInv => CacheCoherent
  BY DEF IndInv, CleanRows, CleanRow, CacheCoherent
<1>2. QED
  BY <1>1, Invariance, PTL

\* Every decision that a handler completed stays in politeiad and, while the
\* server is up, among the rows of invoice_changes.
THEOREM Durability == Spec => []DecisionsDurable
<1>1. IndInv => DecisionsDurable
  BY DEF IndInv
<1>2. QED
  BY <1>1, Invariance, PTL

\* One invoice for a contractor's month, unless its submissions overlapped,
\* one of them failed half way, or the contractor edited somebody else's
\* invoice of the month (HandleEditInvoice makes its record the editor's).
THEOREM OneInvoice == Spec => []OneInvoicePerPeriod
<1>1. IndInv => OneInvoicePerPeriod
  BY DEF IndInv, CleanPeriods, CleanPeriod, Exposed, OneInvoicePerPeriod
<1>2. QED
  BY <1>1, Invariance, PTL

\* The step of ReviewsLegal, with its name.
ReviewStep ==
    \A h \in Handlers :
        (/\ req[h].op = "review"
         /\ h \notin contended
         /\ req[h].token \notin dirty
         /\ pd'[req[h].token].changes # pd[req[h].token].changes)
        => validateStatusTransition(LastStatus(pd[req[h].token].changes),
                                    LastStatus(pd'[req[h].token].changes))

\* Only an accepting call changes the stream of a vetted record.
LEMMA StreamChange ==
    ASSUME IndInv, [Next]_vars, NEW t \in Tokens, db[t].live,
           pd'[t].changes # pd[t].changes
    PROVE  \E h \in Handlers, replied \in BOOLEAN :
               /\ UpdateVetted(h, replied) /\ req[h].token = t /\ req[h].appends
<1>1. CASE pd' = pd
  BY <1>1
<1>2. ASSUME NEW h \in Handlers, NEW u \in Tokens, NEW replied \in BOOLEAN,
             NewRecord(h, u, replied)
      PROVE  FALSE
  BY <1>2, NewRecordEffect
<1>3. ASSUME NEW h \in Handlers, NEW replied \in BOOLEAN, SetUnvettedStatus(h, replied)
      PROVE  FALSE
  BY <1>3, SetUnvettedEffect
<1>4. ASSUME NEW h \in Handlers, NEW replied \in BOOLEAN, UpdateVetted(h, replied)
      PROVE  req[h].token = t /\ req[h].appends
  BY <1>4, UpdateVettedEffect
<1>5. pd' = pd \/ (\E h \in Handlers, u \in Tokens, replied \in BOOLEAN : NewRecord(h, u, replied))
      \/ (\E h \in Handlers, replied \in BOOLEAN : SetUnvettedStatus(h, replied))
      \/ (\E h \in Handlers, replied \in BOOLEAN : UpdateVetted(h, replied))
  BY StepCases, CheckedReadKeeps DEF SubmitRead, CreateInvoice, UpdateInvoice,
     ReturnError, Crash, LoadInventory, vars
<1>6. QED
  BY <1>1, <1>2, <1>3, <1>4, <1>5

LEMMA ReviewStepHolds == IndInv /\ [Next]_vars => ReviewStep
<1> SUFFICES ASSUME IndInv, [Next]_vars, NEW h \in Handlers,
                    req[h].op = "review", h \notin contended, req[h].token \notin dirty,
                    pd'[req[h].token].changes # pd[req[h].token].changes
             PROVE  validateStatusTransition(LastStatus(pd[req[h].token].changes),
                                             LastStatus(pd'[req[h].token].changes))
  BY DEF ReviewStep
<1> DEFINE T == req[h].token
<1>1. T \in Tokens /\ db[T].live /\ InFlight(h) /\ req[h].op \in OnRowOp
  BY RowHandlers DEF OnRowOp
<1>2. PICK g \in Handlers, replied \in BOOLEAN :
          UpdateVetted(g, replied) /\ req[g].token = T /\ req[g].appends
  BY <1>1, StreamChange
<1>3. req[g].op \in OnRowOp /\ req[g].step = "read"
  BY <1>2, UpdateVettedEffect DEF OnRowOp
<1>4. InFlight(g)
  BY <1>3, RowHandlers
<1>5. g = h
  BY <1>1, <1>2, <1>4, Alone
<1>6. req[h].seen = db[T].status
  BY <1>1 DEF IndInv, SoloHandlers, SoloHandler, OnRowOp
<1>7. Settled(T)
  <2>1. \A f \in OnToken(T) : f = h
    BY <1>1 DEF IndInv, Contention, AloneOrDirty, OnRowOp
  <2>2. QED
    BY <2>1, <1>3, <1>5 DEF Settled
<1>8. up
  BY <1>1 DEF IndInv, DownIsIdle
<1>9. db[T].status = LastStatus(pd[T].changes)
  BY <1>1, <1>7, <1>8 DEF IndInv, CleanRows, CleanRow
<1>10. LastStatus(pd'[T].changes) = req[h].to
  <2>1. /\ pd'[T].changes = Append(pd[T].changes, NewChange(req[h].to, clock))
        /\ req[h].to \in StoredStatus
    BY <1>2, <1>5, UpdateVettedEffect
  <2>2. clock \in Nat
    BY ConstantsAssumption DEF IndInv, TypeOK
  <2>3. /\ NewChange(req[h].to, clock) \in Change
        /\ NewChange(req[h].to, clock).status = req[h].to
        /\ pd[T].changes \in Seq(Change)
    BY <1>1, <2>1, <2>2, ChangeFacts, StreamTypes DEF IndInv
  <2>4. QED
    BY <2>1, <2>3, AppendFacts
<1>11. validateStatusTransition(req[h].seen, req[h].to)
  BY DEF IndInv, RequestsChecked, RequestChecked
<1>12. QED
  BY <1>6, <1>9, <1>10, <1>11

\* An uncontended review of a clean invoice follows validStatusTransitions in
\* politeiad's own history.
THEOREM LegalReviews == Spec => ReviewsLegal
<1>1. IndInv /\ [Next]_vars => [ReviewStep]_vars
  BY ReviewStepHolds
<1>2. Spec => [][ReviewStep]_vars
  BY <1>1, Invariance, PTL DEF Spec
<1>3. QED
  BY <1>2 DEF ReviewsLegal, ReviewStep
=============================================================================
