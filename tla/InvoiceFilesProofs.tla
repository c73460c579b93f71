------------------------- MODULE InvoiceFilesProofs -------------------------
(***************************************************************************)
(* Proofs about InvoiceFiles, for any number of requests, invoices and     *)
(* files.                                                                  *)
(***************************************************************************)
EXTENDS InvoiceFiles, TLAPS

-----------------------------------------------------------------------------
(* The inductive invariant, in named parts *)

\* What a request works on.
Of(q) == ({q.token} \ {NoToken}) \cup q.queue \cup DOMAIN q.list

\* Requests for one invoice.
Single == {"submit", "edit", "decide", "record", "payOne", "payExtra"}

\* Which parts of a request an operation uses.
WellFormed(q) ==
    /\ q.step = "idle" <=> q.op = "none"
    /\ q.op = "none" => q.token = NoToken
    /\ q.op \in Single => q.token \in Tokens /\ q.step \in {"read", "accepted"}
    /\ q.op = "review" => q.token = NoToken /\ q.step = "listed"
    /\ q.op = "payAll" => IF q.step = "listed" THEN q.token = NoToken ELSE q.token \in Tokens
    /\ q.op # "payAll" => q.queue = {}
    /\ q.op # "review" => DOMAIN q.list = {}
    /\ q.op = "submit" => q.step = "accepted" /\ q.file = NoFile
    /\ q.op = "edit" /\ q.step = "read" => q.new \in Files
    /\ q.op \in {"decide"} \cup Pays /\ q.token # NoToken => q.status # "none"

\* A copy's file that comes, once it is fetched, to the file in use.
Sound(f, t) == InUse(t) = IF f # NoFile THEN f ELSE pdFile[t]

\* Whoever pays t bills the file that was approved.
ApprovedAsIs(t) == approved[t] = InUse(t)

\* Requests that save t as approved, or list it as such.
Approving(q) ==
    \/ q.op = "payAll"
    \/ q.op \in {"payOne", "payExtra"} /\ q.status = "approved"
    \/ q.op = "decide" /\ q.step = "accepted" /\ q.status = "approved"

\* politeiad has the edit of q, the row does not.
Halfway(q) == q.op = "edit" /\ q.step = "accepted"

\* What a request has in hand of an invoice agrees with the tables and with
\* politeiad.
FitsAt(q, t) ==
    /\ pdFile[t] # NoFile
    /\ q.op = "submit" => status[t] = "none" /\ pdFile[t] = q.new
    /\ q.op # "submit" => status[t] # "none"
    /\ t \notin disturbed =>
           /\ t = q.token /\ q.op # "edit" => Sound(q.file, t)
           /\ Halfway(q) => pdStatus[t] # "approved" /\ shown[t] = NoFile
           /\ t = q.token /\ Approving(q) => ApprovedAsIs(t)
           /\ t \in DOMAIN q.list => Sound(q.list[t], t)
           /\ t \in q.queue => ApprovedAsIs(t)

Fits(q) == \A t \in Of(q) : FitsAt(q, t)

\* Only one request works on an invoice that is submitted, or that is not
\* disturbed and whose edit politeiad has and the row has not.
Apart(p, q) ==
    \A t \in Of(p) \cap Of(q) : p.op # "submit" /\ (Halfway(p) => t \in disturbed)

HalfEdited(t) == \E h \in Handlers : Halfway(req[h]) /\ req[h].token = t

\* The row of an invoice and its record.
Row(t) ==
    /\ pdFile[t] = NoFile <=> pdStatus[t] = "none"
    /\ status[t] # "none" => pdFile[t] # NoFile
    /\ status[t] = "none" => rowFile[t] = NoFile
    /\ billed[t] # "none" => status[t] # "none"
    /\ pdBilled[t] # "none" => pdFile[t] # NoFile
    /\ shown[t] # NoFile => shown[t] = InUse(t) /\ t \notin disturbed
    /\ t \notin disturbed =>
           /\ pdStatus[t] = "approved" => ApprovedAsIs(t)
           /\ status[t] = "approved" /\ ~HalfEdited(t) => ApprovedAsIs(t)

IndInv ==
    /\ TypeOK
    /\ \A h \in Handlers : WellFormed(req[h]) /\ Fits(req[h])
    /\ \A g, h \in Handlers : g # h => Apart(req[g], req[h])
    /\ \A t \in Tokens : Row(t)
-----------------------------------------------------------------------------
(* Requests *)

\* The invoices that a handler works on are invoices.
LEMMA OfTokens ==
    ASSUME NEW q \in Request
    PROVE  Of(q) \subseteq Tokens
<1>1. q.token \in Tokens \cup {NoToken} /\ q.queue \subseteq Tokens
  BY DEF Request
<1>2. PICK S \in SUBSET Tokens : q.list \in [S -> FileOrNone]
  BY DEF Request
<1>3. DOMAIN q.list \subseteq Tokens
  BY <1>2
<1> QED
  BY <1>1, <1>3 DEF Of

LEMMA IdleFacts ==
    /\ Idle \in Request /\ WellFormed(Idle) /\ Of(Idle) = {} /\ Fits(Idle)
    /\ Idle.op = "none" /\ Idle.step = "idle" /\ Idle.token = NoToken /\ Idle.queue = {} 
    /\ DOMAIN Idle.list = {}
<1>1. DOMAIN Idle.list = {} /\ Idle.list \in [{} -> FileOrNone]
  BY DEF Idle
<1>2. Idle \in Request
  BY <1>1 DEF Idle, Request, Statuses, FileOrNone, Bills
<1>3. Of(Idle) = {}
  BY <1>1 DEF Idle, Of
<1>4. WellFormed(Idle)
  BY <1>1 DEF Idle, WellFormed, Single, Pays
<1>5. Fits(Idle)
  BY <1>1, <1>3, FilesAssumption DEF Fits, FitsAt, Idle, Of
<1> QED
  BY <1>1, <1>2, <1>3, <1>4, <1>5 DEF Idle

\* A handler that is not in flight works on nothing.
LEMMA NotInFlight ==
    ASSUME IndInv, NEW h \in Handlers, ~InFlight(h)
    PROVE  Of(req[h]) = {} /\ req[h].op = "none" /\ req[h].token = NoToken
<1>1. WellFormed(req[h]) /\ req[h].step = "idle"
  BY DEF IndInv, InFlight
<1> QED
  BY <1>1 DEF WellFormed, Of

\* What a request reads of an invoice.
LEMMA ReadFacts ==
    ASSUME TypeOK, NEW t \in Tokens, NEW op \in {"edit", "decide", "record"} \cup Pays,
           NEW q, q = GetInvoiceByToken(op, t)
    PROVE  /\ q \in Request /\ q.op = op /\ q.step = "read" /\ q.token = t
           /\ q.file = rowFile[t] /\ q.status = status[t] /\ q.new = NoFile
           /\ q.queue = {} /\ DOMAIN q.list = {} /\ Of(q) = {t}
           /\ q.billed = billed[t]
<1>1. DOMAIN Idle.list = {} /\ Idle.list \in [{} -> FileOrNone] /\ Idle \in Request
  BY IdleFacts DEF Idle
<1>2. rowFile[t] \in FileOrNone /\ status[t] \in Statuses /\ billed[t] \in Bills
  BY DEF TypeOK
<1>3. q = [op |-> op, step |-> "read", token |-> t, file |-> rowFile[t], new |-> NoFile,
           status |-> status[t], billed |-> billed[t], queue |-> {}, list |-> Idle.list]
  BY DEF GetInvoiceByToken, Idle
<1>4. q \in Request
  BY <1>1, <1>2, <1>3 DEF Request, FileOrNone, Pays
<1>5. Of(q) = {t}
  BY <1>1, <1>3, FilesAssumption DEF Of
<1>6. /\ q.op = op /\ q.step = "read" /\ q.token = t
      /\ q.file = rowFile[t] /\ q.status = status[t] /\ q.new = NoFile
      /\ q.queue = {} /\ q.list = Idle.list
  BY ONLY <1>3
<1>7. q.billed = billed[t]
  BY ONLY <1>3
<1> QED
  BY <1>1, <1>4, <1>5, <1>6, <1>7

-----------------------------------------------------------------------------
(* Steps that only change what a handler has in hand *)

\* The tables and the records stay as they are; invoices may be disturbed.
Calm ==
    /\ UNCHANGED <<pdVars, rowVars>>
    /\ disturbed \subseteq disturbed' /\ disturbed' \subseteq Tokens
    /\ approved' \in [Tokens -> FileOrNone] /\ shown' \in [Tokens -> FileOrNone]
    /\ \A t \in Tokens \ disturbed' : approved'[t] = approved[t]
    /\ \A t \in Tokens :
           shown'[t] # NoFile => shown'[t] = shown[t] /\ (t \in disturbed' => t \in disturbed)

LEMMA CalmFacts ==
    ASSUME Calm
    PROVE  /\ pdFile' = pdFile /\ pdStatus' = pdStatus /\ pdBilled' = pdBilled
           /\ rowFile' = rowFile /\ status' = status /\ billed' = billed
           /\ disturbed \subseteq disturbed' /\ disturbed' \subseteq Tokens
           /\ approved' \in [Tokens -> FileOrNone] /\ shown' \in [Tokens -> FileOrNone]
           /\ \A t \in Tokens \ disturbed' : approved'[t] = approved[t]
           /\ \A t \in Tokens :
                  shown'[t] # NoFile => shown'[t] = shown[t] /\ (t \in disturbed' => t \in disturbed)
  BY DEF Calm, pdVars, rowVars

LEMMA DisturbIsCalm ==
    ASSUME TypeOK, NEW S \in SUBSET Tokens, Disturb(S), UNCHANGED <<pdVars, rowVars>>
    PROVE  Calm /\ S \subseteq disturbed'
  BY DEF TypeOK, Disturb, Calm, FileOrNone

LEMMA UnchangedIsCalm ==
    ASSUME TypeOK, UNCHANGED <<pdVars, rowVars, history>>
    PROVE  Calm
  BY DEF TypeOK, Calm, history

LEMMA EditedIsHalf ==
    ASSUME NEW S \in SUBSET Tokens
    PROVE  /\ Edited(S) \in SUBSET Tokens
           /\ \A t \in S : HalfEdited(t) => t \in Edited(S)
  BY DEF Edited, HalfEdited, Halfway

\* A handler that does nothing keeps what it has in hand.
LEMMA CalmFits ==
    ASSUME IndInv, Calm, NEW g \in Handlers, req'[g] = req[g]
    PROVE  Fits(req[g])'
<1> SUFFICES ASSUME NEW t \in Of(req[g]) PROVE FitsAt(req[g], t)'
  BY DEF Fits, Of
<1>1. FitsAt(req[g], t) /\ t \in Tokens
  BY OfTokens DEF IndInv, TypeOK, Fits
<1> QED
  BY <1>1, CalmFacts DEF FitsAt, ApprovedAsIs, Sound, InUse, Approving, Halfway

\* Other handlers than h keep what is disturbed of theirs.
Kept(h) == \A g \in Handlers \ {h} : Of(req[g]) \cap disturbed \subseteq disturbed'

\* Handlers stay apart when the one that takes a step is from all others.
LEMMA ApartPreserved ==
    ASSUME IndInv, NEW h \in Handlers, NEW q \in Request, req' = [req EXCEPT ![h] = q],
           Kept(h),
           \A g \in Handlers \ {h} : Apart(req[g], req[h])' /\ Apart(req[h], req[g])'
    PROVE  \A f, g \in Handlers : f # g => Apart(req[f], req[g])'
<1> SUFFICES ASSUME NEW f \in Handlers, NEW g \in Handlers, f # g PROVE Apart(req[f], req[g])'
  OBVIOUS
<1>1. CASE f = h \/ g = h
  BY <1>1
<1>2. CASE f # h /\ g # h
  <2>1. Apart(req[f], req[g])
    BY DEF IndInv
  <2>2. req'[f] = req[f] /\ req'[g] = req[g]
    BY <1>2 DEF IndInv, TypeOK
  <2> QED
    BY <1>2, <2>1, <2>2 DEF Apart, Of, Halfway, Kept
<1> QED
  BY <1>1, <1>2

\* A request that goes on, or ends, without taking up another invoice.
LEMMA GoesOnApart ==
    ASSUME IndInv, NEW h \in Handlers, NEW q \in Request, req' = [req EXCEPT ![h] = q],
           Kept(h), Of(q) \subseteq Of(req[h]), q.op \notin {"submit", "edit"}
    PROVE  \A g \in Handlers \ {h} : Apart(req[g], req[h])' /\ Apart(req[h], req[g])'
<1> SUFFICES ASSUME NEW g \in Handlers \ {h} PROVE Apart(req[g], req[h])' /\ Apart(req[h], req[g])'
  OBVIOUS
<1>1. req'[g] = req[g] /\ req'[h] = q
  BY DEF IndInv, TypeOK
<1>2. Apart(req[g], req[h]) /\ Apart(req[h], req[g])
  BY DEF IndInv
<1> QED
  BY <1>1, <1>2 DEF Apart, Of, Halfway, Kept

LEMMA CalmKeeps ==
    ASSUME Calm, NEW h \in Handlers
    PROVE  Kept(h)
  BY CalmFacts DEF Kept

LEMMA CalmPreserves ==
    ASSUME IndInv, Calm, NEW h \in Handlers, NEW q \in Request,
           req' = [req EXCEPT ![h] = q],
           WellFormed(q), Fits(req[h])',
           \A g \in Handlers \ {h} : Apart(req[g], req[h])' /\ Apart(req[h], req[g])',
           Halfway(req[h]) => req[h].token \in disturbed'
    PROVE  IndInv'
<1>1. TypeOK
  BY DEF IndInv
<1>2. /\ req' \in [Handlers -> Request] /\ req'[h] = q
      /\ \A g \in Handlers \ {h} : req'[g] = req[g]
  BY <1>1 DEF TypeOK
<1>3. TypeOK'
  BY <1>1, <1>2, CalmFacts DEF TypeOK
<1>4. \A g \in Handlers : WellFormed(req'[g]) /\ Fits(req[g])'
  <2> SUFFICES ASSUME NEW g \in Handlers PROVE WellFormed(req'[g]) /\ Fits(req[g])'
    OBVIOUS
  <2>1. CASE g = h
    BY <2>1, <1>2
  <2>2. CASE g # h
    BY <1>2, <2>2, CalmFits DEF IndInv
  <2> QED
    BY <2>1, <2>2
<1>5. \A f, g \in Handlers : f # g => Apart(req[f], req[g])'
  BY CalmKeeps, ApartPreserved
<1>6. \A t \in Tokens : Row(t)'
  <2> SUFFICES ASSUME NEW t \in Tokens PROVE Row(t)'
    OBVIOUS
  <2>1. Row(t)
    BY DEF IndInv
  <2>2. t \notin disturbed' /\ HalfEdited(t) => HalfEdited(t)'
    BY <1>2 DEF HalfEdited, Halfway
  <2> QED
    BY <2>1, <2>2, CalmFacts DEF Row, InUse, ApprovedAsIs
<1> QED
  BY <1>3, <1>4, <1>5, <1>6 DEF IndInv

\* Another handler's edit of an invoice that a request takes up disturbs it.
LEMMA BeginsApart ==
    ASSUME IndInv, Calm, NEW h \in Handlers, NEW q \in Request, req' = [req EXCEPT ![h] = q],
           q.op # "submit", ~Halfway(q),
           \A t \in Of(q) : status[t] # "none" /\ (HalfEdited(t) => t \in disturbed')
    PROVE  \A g \in Handlers \ {h} : Apart(req[g], req[h])' /\ Apart(req[h], req[g])'
<1> SUFFICES ASSUME NEW g \in Handlers \ {h} PROVE Apart(req[g], req[h])' /\ Apart(req[h], req[g])'
  OBVIOUS
<1>1. req'[g] = req[g] /\ req'[h] = q
  BY DEF IndInv, TypeOK
<1>2. Fits(req[g]) /\ WellFormed(req[g])
  BY DEF IndInv
<1>3. ASSUME NEW t \in Of(req[g]), req[g].op = "edit"
      PROVE  t = req[g].token
  BY <1>2, <1>3 DEF WellFormed, Of, Single
<1>4. ASSUME NEW t \in Of(req[g]) \cap Of(q)
      PROVE  req[g].op # "submit" /\ (Halfway(req[g]) => t \in disturbed')
  BY <1>2, <1>3, <1>4 DEF Fits, FitsAt, HalfEdited, Halfway, Of
<1>5. Apart(req[g], req[h])'
  BY <1>1, <1>4 DEF Apart, Of, Halfway
<1>6. Apart(req[h], req[g])'
  <2>1. q.op # "submit" /\ ~(q.op = "edit" /\ q.step = "accepted")
    BY DEF Halfway
  <2> QED
    BY <1>1, <2>1 DEF Apart, Of, Halfway
<1> QED
  BY <1>5, <1>6

\* A request that reads one invoice.
LEMMA ReadPreserves ==
    ASSUME IndInv, NEW h \in Handlers, NEW t \in Tokens, NEW q \in Request,
           UNCHANGED <<pdVars, rowVars>>, Disturb(Edited({t})),
           req' = [req EXCEPT ![h] = q],
           status[t] # "none", req[h].op \in {"none", "payAll"},
           q.op \in {"edit", "decide", "record"} \cup Pays, q.step = "read", q.token = t,
           q.file = rowFile[t], DOMAIN q.list = {},
           q.op = "edit" => q.new \in Files,
           q.queue \subseteq req[h].queue, q.op # "payAll" => q.queue = {},
           q.op \in {"decide"} \cup Pays => q.status # "none",
           q.op = "payAll" => t \in req[h].queue,
           q.op \in {"payOne", "payExtra"} => q.status = status[t]
    PROVE  IndInv'
<1>1. TypeOK /\ Fits(req[h]) /\ WellFormed(req[h]) /\ Row(t)
  BY DEF IndInv
<1>2. Calm /\ (HalfEdited(t) => t \in disturbed')
  BY <1>1, DisturbIsCalm, EditedIsHalf
<1>3. req'[h] = q
  BY <1>1 DEF TypeOK
<1>4. Of(q) = {t} \cup q.queue
  BY FilesAssumption DEF Of
<1>5. WellFormed(q)
  BY FilesAssumption DEF WellFormed, Single, Pays
<1>6. q.queue \subseteq Of(req[h]) /\ req[h].op # "submit" /\ Of(req[h]) \subseteq Tokens
  BY <1>1, OfTokens DEF Of, TypeOK
<1>7. \A u \in q.queue : pdFile[u] # NoFile /\ status[u] # "none"
  BY <1>1, <1>6 DEF Fits, FitsAt, Of
<1>8. t \notin disturbed' => ~HalfEdited(t) /\ t \notin disturbed
  BY <1>2, CalmFacts
<1>9. t \notin disturbed' /\ Approving(q) => ApprovedAsIs(t)
  <2>1. CASE q.op = "payAll"
    BY <2>1, <1>1, <1>8 DEF Fits, FitsAt, Of
  <2>2. CASE q.op # "payAll"
    BY <2>2, <1>1, <1>8 DEF Approving, Row
  <2> QED
    BY <2>1, <2>2
<1>10. \A u \in q.queue \ disturbed' : ApprovedAsIs(u)
  BY <1>1, <1>2, CalmFacts DEF Fits, FitsAt, Of
<1>11. \A u \in Of(q) \ disturbed' : ApprovedAsIs(u) => ApprovedAsIs(u)'
  BY <1>2, <1>4, <1>6, CalmFacts DEF ApprovedAsIs, InUse
<1>12. Fits(req[h])'
  <2>1. \A u \in Of(q) : pdFile[u] # NoFile /\ status[u] # "none"
    BY <1>1, <1>4, <1>7 DEF Row
  <2>2. Sound(q.file, t)'
    BY <1>2, CalmFacts DEF Sound, InUse
  <2> SUFFICES ASSUME NEW u \in Of(q) PROVE FitsAt(req[h], u)'
    BY <1>3 DEF Fits, Of
  <2> QED
    BY <1>2, <1>3, <1>4, <1>9, <1>10, <1>11, <2>1, <2>2, CalmFacts, FilesAssumption
    DEF FitsAt, Approving, Halfway, Pays
<1>13. \A u \in q.queue : HalfEdited(u) => u \in disturbed
  <2> SUFFICES ASSUME NEW u \in q.queue, NEW g \in Handlers, Halfway(req[g]), req[g].token = u
               PROVE  u \in disturbed
    BY DEF HalfEdited
  <2>1. g # h /\ u \in Of(req[h]) /\ u \in Tokens
    BY <1>6 DEF Halfway
  <2>2. u \in Of(req[g])
    BY <2>1, FilesAssumption DEF Of
  <2>3. Apart(req[g], req[h])
    BY <2>1 DEF IndInv
  <2> QED
    BY <2>1, <2>2, <2>3 DEF Apart
<1>14. \A g \in Handlers \ {h} : Apart(req[g], req[h])' /\ Apart(req[h], req[g])'
  <2>1. \A u \in Of(q) : status[u] # "none" /\ (HalfEdited(u) => u \in disturbed')
    BY <1>2, <1>4, <1>7, <1>13, CalmFacts
  <2>2. q.op # "submit" /\ ~Halfway(q)
    BY DEF Halfway, Pays
  <2> QED
    BY <1>2, <2>1, <2>2, BeginsApart
<1>15. ~Halfway(req[h])
  BY DEF Halfway
<1> QED
  BY <1>2, <1>5, <1>12, <1>14, <1>15, CalmPreserves

LEMMA EditReadPreserves ==
    ASSUME IndInv, NEW h \in Handlers, NEW t \in Tokens, NEW f \in Files, EditRead(h, t, f)
    PROVE  IndInv'
<1> DEFINE r == GetInvoiceByToken("edit", t)
           q == [r EXCEPT !.new = f, !.status = "none", !.billed = "none"]
<1>1. TypeOK
  BY DEF IndInv
<1>2. /\ r \in Request /\ r.op = "edit" /\ r.step = "read" /\ r.token = t
      /\ r.file = rowFile[t] /\ r.queue = {} /\ DOMAIN r.list = {}
  BY <1>1, ReadFacts
<1>3. req' = [req EXCEPT ![h] = q]
  BY DEF EditRead
<1> HIDE DEF r
<1>4. /\ q \in Request /\ q.op = "edit" /\ q.step = "read" /\ q.token = t /\ q.new = f
      /\ q.file = rowFile[t] /\ q.queue = {} /\ DOMAIN q.list = {}
  BY <1>2 DEF Request, FileOrNone, Statuses, Bills
<1> HIDE DEF q
<1>5. req[h].op = "none"
  BY NotInFlight DEF EditRead
<1>6. UNCHANGED <<pdVars, rowVars>> /\ Disturb(Edited({t})) /\ status[t] # "none"
  BY DEF EditRead
<1> QED
  BY <1>3, <1>4, <1>5, <1>6, ReadPreserves DEF Pays

LEMMA DecideReadPreserves ==
    ASSUME IndInv, NEW h \in Handlers, NEW t \in Tokens, NEW s \in Statuses, DecideRead(h, t, s)
    PROVE  IndInv'
<1> DEFINE r == GetInvoiceByToken("decide", t)
           q == [r EXCEPT !.status = s, !.billed = "none"]
<1>1. TypeOK
  BY DEF IndInv
<1>2. status[t] \in Statuses /\ s \in validStatusTransitions[status[t]]
  BY <1>1 DEF TypeOK, DecideRead
<1>3. status[t] # "none" /\ s # "none"
  BY <1>2 DEF validStatusTransitions, Unreviewed, Statuses
<1>4. /\ r \in Request /\ r.op = "decide" /\ r.step = "read" /\ r.token = t
      /\ r.file = rowFile[t] /\ r.queue = {} /\ DOMAIN r.list = {}
  BY <1>1, ReadFacts
<1>5. req' = [req EXCEPT ![h] = q]
  BY DEF DecideRead
<1> HIDE DEF r
<1>6. /\ q \in Request /\ q.op = "decide" /\ q.step = "read" /\ q.token = t /\ q.status = s
      /\ q.file = rowFile[t] /\ q.queue = {} /\ DOMAIN q.list = {}
  BY <1>4 DEF Request, Bills
<1> HIDE DEF q
<1>7. req[h].op = "none"
  BY NotInFlight DEF DecideRead
<1>8. UNCHANGED <<pdVars, rowVars>> /\ Disturb(Edited({t}))
  BY DEF DecideRead
<1> QED
  BY <1>3, <1>5, <1>6, <1>7, <1>8, ReadPreserves DEF Pays

LEMMA RecordReadPreserves ==
    ASSUME IndInv, NEW h \in Handlers, NEW t \in Tokens, RecordRead(h, t)
    PROVE  IndInv'
<1> DEFINE q == GetInvoiceByToken("record", t)
<1>1. TypeOK /\ Row(t)
  BY DEF IndInv
<1>2. status[t] # "none"
  BY <1>1 DEF RecordRead, Row
<1>3. /\ q \in Request /\ q.op = "record" /\ q.step = "read" /\ q.token = t
      /\ q.file = rowFile[t] /\ q.queue = {} /\ DOMAIN q.list = {}
  BY <1>1, ReadFacts
<1>4. req' = [req EXCEPT ![h] = q]
  BY DEF RecordRead
<1> HIDE DEF q
<1>5. req[h].op = "none"
  BY NotInFlight DEF RecordRead
<1>6. UNCHANGED <<pdVars, rowVars>> /\ Disturb(Edited({t}))
  BY DEF RecordRead
<1> QED
  BY <1>2, <1>3, <1>4, <1>5, <1>6, ReadPreserves DEF Pays

LEMMA PayReadPreserves ==
    ASSUME IndInv, NEW h \in Handlers, NEW t \in Tokens, PayRead(h, t)
    PROVE  IndInv'
<1> PICK op \in {"payOne", "payExtra"} : req' = [req EXCEPT ![h] = GetInvoiceByToken(op, t)]
  BY DEF PayRead
<1> DEFINE q == GetInvoiceByToken(op, t)
<1>1. TypeOK
  BY DEF IndInv
<1>2. status[t] # "none"
  BY DEF PayRead
<1>3. /\ q \in Request /\ q.op = op /\ q.step = "read" /\ q.token = t /\ q.status = status[t]
      /\ q.file = rowFile[t] /\ q.queue = {} /\ DOMAIN q.list = {}
  BY <1>1, ReadFacts DEF Pays
<1>4. req' = [req EXCEPT ![h] = q]
  OBVIOUS
<1> HIDE DEF q
<1>5. req[h].op = "none"
  BY NotInFlight DEF PayRead
<1>6. UNCHANGED <<pdVars, rowVars>> /\ Disturb(Edited({t}))
  BY DEF PayRead
<1> QED
  BY <1>2, <1>3, <1>4, <1>5, <1>6, ReadPreserves DEF Pays

LEMMA PayNextPreserves ==
    ASSUME IndInv, NEW h \in Handlers, NEW t \in Tokens, PayNext(h, t)
    PROVE  IndInv'
<1> DEFINE r == GetInvoiceByToken("payAll", t)
           q == [r EXCEPT !.queue = req[h].queue \ {t}]
<1>1. TypeOK /\ Fits(req[h]) /\ req[h] \in Request
  BY DEF IndInv, TypeOK
<1>2. req[h].op = "payAll" /\ t \in req[h].queue
  BY DEF PayNext
<1>3. status[t] # "none"
  BY <1>1, <1>2 DEF Fits, FitsAt, Of
<1>4. /\ r \in Request /\ r.op = "payAll" /\ r.step = "read" /\ r.token = t /\ r.status = status[t]
      /\ r.file = rowFile[t] /\ DOMAIN r.list = {}
  BY <1>1, ReadFacts DEF Pays
<1>5. req' = [req EXCEPT ![h] = q]
  BY DEF PayNext
<1> HIDE DEF r
<1>6. /\ q \in Request /\ q.op = "payAll" /\ q.step = "read" /\ q.token = t /\ q.status = status[t]
      /\ q.file = rowFile[t] /\ q.queue = req[h].queue \ {t} /\ DOMAIN q.list = {}
  BY <1>1, <1>4 DEF Request
<1> HIDE DEF q
<1>7. UNCHANGED <<pdVars, rowVars>> /\ Disturb(Edited({t}))
  BY DEF PayNext
<1> QED
  BY <1>2, <1>3, <1>5, <1>6, <1>7, ReadPreserves DEF Pays

LEMMA ReviewListPreserves ==
    ASSUME IndInv, NEW h \in Handlers, ReviewList(h)
    PROVE  IndInv'
<1> DEFINE listed == {t \in Tokens : status[t] \in Unreviewed}
           q == [Idle EXCEPT !.op = "review", !.step = "listed", !.list = [t \in listed |-> rowFile[t]]]
<1>1. TypeOK
  BY DEF IndInv
<1>2. Calm /\ (\A t \in listed : HalfEdited(t) => t \in disturbed')
  BY <1>1, DisturbIsCalm, EditedIsHalf DEF ReviewList
<1>3. /\ q \in Request /\ q.op = "review" /\ q.step = "listed" /\ q.token = NoToken
      /\ q.queue = {} /\ q.list = [t \in listed |-> rowFile[t]]
  <2>1. [t \in listed |-> rowFile[t]] \in [listed -> FileOrNone] /\ listed \in SUBSET Tokens
    BY <1>1 DEF TypeOK
  <2>2. [t \in listed |-> rowFile[t]] \in UNION {[S -> FileOrNone] : S \in SUBSET Tokens}
    BY <2>1
  <2> DEFINE l == [t \in listed |-> rowFile[t]]
  <2>3. q = [Idle EXCEPT !.op = "review", !.step = "listed", !.list = l]
    OBVIOUS
  <2> HIDE DEF l, q, listed
  <2>4. q \in Request /\ q.op = "review" /\ q.step = "listed" /\ q.list = l
    BY <2>2, <2>3, IdleFacts DEF Request, l
  <2>5. q.token = Idle.token /\ q.queue = Idle.queue
    BY <2>3, IdleFacts DEF Request
  <2> QED
    BY <2>4, <2>5, IdleFacts DEF l
<1>4. req' = [req EXCEPT ![h] = q]
  BY DEF ReviewList
<1>5. \A t \in listed : HalfEdited(t) => t \in disturbed'
  BY <1>2
<1> HIDE DEF q
<1>6. req'[h] = q
  BY <1>1, <1>4 DEF TypeOK
<1>7. Of(q) = listed
  BY <1>3 DEF Of
<1>8. \A t \in listed : status[t] # "none" /\ pdFile[t] # NoFile
  BY DEF IndInv, Row, Unreviewed
<1>9. DOMAIN q.list = listed /\ \A t \in listed : q.list[t] = rowFile[t]
  BY <1>3
<1> HIDE DEF listed
<1>10. WellFormed(q)
  BY <1>3 DEF WellFormed, Single, Pays
<1>11. Fits(req[h])'
  BY <1>2, <1>3, <1>6, <1>7, <1>8, <1>9, CalmFacts, OfTokens, FilesAssumption DEF Fits, FitsAt, Sound, InUse, Approving, Halfway, Of
<1>12. \A g \in Handlers \ {h} : Apart(req[g], req[h])' /\ Apart(req[h], req[g])'
  <2>1. \A t \in Of(q) : status[t] # "none" /\ (HalfEdited(t) => t \in disturbed')
    BY <1>5, <1>7, <1>8
  <2> QED
    BY <1>2, <1>3, <1>4, <2>1, BeginsApart DEF Halfway
<1>13. req[h].op = "none"
  BY NotInFlight DEF ReviewList
<1> QED
  BY <1>2, <1>3, <1>4, <1>10, <1>11, <1>12, <1>13, CalmPreserves DEF Halfway

LEMMA ReviewFetchPreserves ==
    ASSUME IndInv, NEW h \in Handlers, NEW t \in Tokens, ReviewFetch(h, t)
    PROVE  IndInv'
<1> DEFINE p == req[h]
           q == [p EXCEPT !.list[t] = pdFile[t]]
<1>1. TypeOK /\ p \in Request /\ WellFormed(p) /\ Fits(p)
  BY DEF IndInv, TypeOK
<1>2. p.op = "review" /\ t \in DOMAIN p.list /\ p.list[t] = NoFile
  BY DEF ReviewFetch
<1>3. Calm
  BY <1>1, UnchangedIsCalm DEF ReviewFetch
<1>4. req' = [req EXCEPT ![h] = q]
  BY DEF ReviewFetch
<1>5. PICK S \in SUBSET Tokens : p.list \in [S -> FileOrNone]
  BY <1>1 DEF Request
<1>6. pdFile[t] \in FileOrNone
  BY <1>1 DEF TypeOK
<1>7. [p.list EXCEPT ![t] = pdFile[t]] \in [S -> FileOrNone]
  BY <1>5, <1>6
<1>8. /\ q \in Request /\ q.op = p.op /\ q.step = p.step /\ q.token = p.token /\ q.queue = p.queue
      /\ q.file = p.file /\ q.new = p.new /\ q.status = p.status /\ q.list = [p.list EXCEPT ![t] = pdFile[t]]
  BY <1>1, <1>7 DEF Request
<1>9. req'[h] = q
  BY <1>1, <1>4 DEF TypeOK
<1> HIDE DEF q
<1>10. /\ DOMAIN q.list = DOMAIN p.list /\ q.list[t] = pdFile[t]
       /\ \A u \in DOMAIN p.list : u # t => q.list[u] = p.list[u]
  BY <1>2, <1>5, <1>8
<1>11. WellFormed(q)
  BY <1>1, <1>8, <1>10 DEF WellFormed, Single, Pays
<1>12. Of(q) = Of(p)
  BY <1>8, <1>10 DEF Of
<1>13. \A u \in DOMAIN q.list \ disturbed : Sound(q.list[u], u)
  <2>1. t \notin disturbed => Sound(NoFile, t)
    BY <1>1, <1>2 DEF Fits, FitsAt, Of
  <2>2. t \notin disturbed => Sound(pdFile[t], t)
    BY <2>1 DEF Sound, InUse
  <2> QED
    BY <1>1, <1>10, <2>2 DEF Fits, FitsAt, Of
<1>14. p.token = NoToken /\ p.queue = {}
  BY <1>1, <1>2 DEF WellFormed
<1>15. Fits(req[h])'
  BY <1>1, <1>2, <1>3, <1>8, <1>9, <1>12, <1>13, <1>14, CalmFacts, OfTokens, FilesAssumption DEF Fits, FitsAt, Sound, InUse, Approving, Halfway, Of
<1>16. \A g \in Handlers \ {h} : Apart(req[g], req[h])' /\ Apart(req[h], req[g])'
  BY <1>2, <1>3, <1>4, <1>8, <1>12, CalmKeeps, GoesOnApart
<1> QED
  BY <1>2, <1>3, <1>4, <1>8, <1>11, <1>15, <1>16, CalmPreserves DEF Halfway

LEMMA PayListPreserves ==
    ASSUME IndInv, NEW h \in Handlers, PayList(h)
    PROVE  IndInv'
<1> DEFINE listed == {t \in Tokens : status[t] = "approved"}
           q == [Idle EXCEPT !.op = "payAll", !.step = "listed", !.queue = listed]
<1>1. TypeOK
  BY DEF IndInv
<1>2. Calm /\ (\A t \in listed : HalfEdited(t) => t \in disturbed')
  BY <1>1, DisturbIsCalm, EditedIsHalf DEF PayList
<1>3. /\ q \in Request /\ q.op = "payAll" /\ q.step = "listed" /\ q.token = NoToken
      /\ q.queue = listed /\ DOMAIN q.list = {}
  BY IdleFacts DEF Request, Idle, Pays
<1>4. req' = [req EXCEPT ![h] = q]
  BY DEF PayList
<1>5. \A t \in listed : HalfEdited(t) => t \in disturbed'
  BY <1>2
<1> HIDE DEF q
<1>6. req'[h] = q
  BY <1>1, <1>4 DEF TypeOK
<1>7. Of(q) = listed
  BY <1>3 DEF Of
<1>8. \A t \in listed : status[t] # "none" /\ pdFile[t] # NoFile
  BY DEF IndInv, Row
<1>9. \A t \in listed \ disturbed' : ApprovedAsIs(t)
  BY <1>2, <1>5, CalmFacts DEF IndInv, Row
<1> HIDE DEF listed
<1>10. WellFormed(q)
  BY <1>3, FilesAssumption DEF WellFormed, Single, Pays
<1>11. Fits(req[h])'
  BY <1>2, <1>3, <1>6, <1>7, <1>8, <1>9, CalmFacts, OfTokens, FilesAssumption DEF Fits, FitsAt, ApprovedAsIs, InUse, Halfway, Of
<1>12. \A g \in Handlers \ {h} : Apart(req[g], req[h])' /\ Apart(req[h], req[g])'
  <2>1. \A t \in Of(q) : status[t] # "none" /\ (HalfEdited(t) => t \in disturbed')
    BY <1>5, <1>7, <1>8
  <2> QED
    BY <1>2, <1>3, <1>4, <2>1, BeginsApart DEF Halfway
<1>13. req[h].op = "none"
  BY NotInFlight DEF PayList
<1> QED
  BY <1>2, <1>3, <1>4, <1>10, <1>11, <1>12, <1>13, CalmPreserves DEF Halfway

LEMMA PayFetchPreserves ==
    ASSUME IndInv, NEW h \in Handlers, PayFetch(h)
    PROVE  IndInv'
<1> DEFINE p == req[h]
           q == [p EXCEPT !.file = pdFile[p.token]]
<1>1. TypeOK /\ p \in Request /\ WellFormed(p) /\ Fits(p)
  BY DEF IndInv, TypeOK
<1>2. p.op \in Pays /\ p.step = "read" /\ p.file = NoFile
  BY DEF PayFetch, Paying
<1>3. Calm
  BY <1>1, UnchangedIsCalm DEF PayFetch
<1>4. req' = [req EXCEPT ![h] = q]
  BY DEF PayFetch
<1>5. p.token \in Tokens
  BY <1>1, <1>2 DEF WellFormed, Single, Pays
<1>6. pdFile[p.token] \in FileOrNone
  BY <1>1, <1>5 DEF TypeOK
<1>7. /\ q \in Request /\ q.op = p.op /\ q.step = p.step /\ q.token = p.token /\ q.queue = p.queue
      /\ q.file = pdFile[p.token] /\ q.new = p.new /\ q.status = p.status /\ q.list = p.list
  BY <1>1, <1>6 DEF Request
<1>8. req'[h] = q
  BY <1>1, <1>4 DEF TypeOK
<1> HIDE DEF q
<1>9. WellFormed(q)
  BY <1>1, <1>2, <1>7 DEF WellFormed, Single, Pays
<1>10. Of(q) = Of(p)
  BY <1>7 DEF Of
<1>11. p.token \notin disturbed => Sound(pdFile[p.token], p.token)
  BY <1>1, <1>2, <1>5, FilesAssumption DEF Fits, FitsAt, Sound, InUse, Pays, Of
<1>12. Fits(req[h])'
  <2> SUFFICES ASSUME NEW u \in Of(p) PROVE FitsAt(req[h], u)'
    BY <1>8, <1>10 DEF Fits, Of
  <2>1. FitsAt(p, u) /\ u \in Tokens
    BY <1>1, OfTokens DEF Fits
  <2>2. p.op \notin {"submit", "edit"} /\ p.step # "accepted"
    BY <1>2 DEF Pays
  <2>3. u = p.token /\ u \notin disturbed => InUse(u)' = IF q.file # NoFile THEN q.file ELSE pdFile[u]
    BY <1>3, <1>7, <1>11, CalmFacts DEF Sound, InUse
  <2>4. u \notin disturbed' => (ApprovedAsIs(u) => ApprovedAsIs(u)')
    BY <1>3, <2>1, CalmFacts DEF ApprovedAsIs, InUse
  <2>5. DOMAIN p.list = {}
    BY <1>1, <1>2 DEF WellFormed, Pays
  <2> QED
    BY <1>3, <1>7, <1>8, <2>1, <2>2, <2>3, <2>4, <2>5, CalmFacts DEF FitsAt, Approving, Halfway, Sound
<1>13. \A g \in Handlers \ {h} : Apart(req[g], req[h])' /\ Apart(req[h], req[g])'
  BY <1>2, <1>3, <1>4, <1>7, <1>10, CalmKeeps, GoesOnApart DEF Pays
<1> QED
  BY <1>2, <1>3, <1>4, <1>7, <1>9, <1>12, <1>13, CalmPreserves DEF Halfway, Pays

LEMMA FailPreserves ==
    ASSUME IndInv, NEW h \in Handlers, Fail(h)
    PROVE  IndInv'
<1> DEFINE S == IF req[h].op = "edit" /\ req[h].step = "accepted" THEN {req[h].token} ELSE {}
<1>1. TypeOK /\ req[h] \in Request /\ WellFormed(req[h])
  BY DEF IndInv, TypeOK
<1>2. S \in SUBSET Tokens /\ (Halfway(req[h]) => req[h].token \in S)
  BY <1>1 DEF WellFormed, Single, Halfway
<1>3. Disturb(S) /\ UNCHANGED <<pdVars, rowVars>>
  BY DEF Fail
<1> HIDE DEF S
<1>4. Calm /\ S \subseteq disturbed'
  BY <1>1, <1>2, <1>3, DisturbIsCalm
<1>5. req' = [req EXCEPT ![h] = Idle] /\ req'[h] = Idle
  BY <1>1 DEF TypeOK, Fail
<1>6. Fits(req[h])'
  BY <1>5, IdleFacts, FilesAssumption DEF Fits, FitsAt, Of
<1>7. \A g \in Handlers \ {h} : Apart(req[g], req[h])' /\ Apart(req[h], req[g])'
  BY <1>4, <1>5, IdleFacts, CalmKeeps, GoesOnApart
<1> QED
  BY <1>2, <1>4, <1>5, <1>6, <1>7, IdleFacts, CalmPreserves

-----------------------------------------------------------------------------
(* Steps that change one invoice *)

OnlyAt(t) ==
    \A u \in Tokens \ {t} :
        /\ pdFile'[u] = pdFile[u] /\ pdStatus'[u] = pdStatus[u] /\ pdBilled'[u] = pdBilled[u]
        /\ rowFile'[u] = rowFile[u] /\ status'[u] = status[u] /\ billed'[u] = billed[u]
        /\ approved'[u] = approved[u] /\ shown'[u] = shown[u]
        /\ u \in disturbed' <=> u \in disturbed

\* It is enough to look at the handler that takes the step, and at the invoice.
LEMMA InvoicePreserves ==
    ASSUME IndInv, NEW h \in Handlers, NEW t \in Tokens, NEW q \in Request,
           req' = [req EXCEPT ![h] = q], WellFormed(q), TypeOK', OnlyAt(t), Kept(h),
           Fits(req[h])', Row(t)',
           \A g \in Handlers \ {h} : Apart(req[g], req[h])' /\ Apart(req[h], req[g])',
           \A g \in Handlers \ {h} : t \in Of(req[g]) => FitsAt(req[g], t)',
           req[h].op = "edit" => req[h].token = t
    PROVE  IndInv'
<1>1. TypeOK
  BY DEF IndInv
<1>2. /\ req'[h] = q
      /\ \A g \in Handlers \ {h} : req'[g] = req[g]
  BY <1>1 DEF TypeOK
<1>3. \A g \in Handlers : WellFormed(req'[g])
  BY <1>2 DEF IndInv
<1>4. \A g \in Handlers : Fits(req[g])'
  <2> SUFFICES ASSUME NEW g \in Handlers \ {h}, NEW u \in Of(req[g])
               PROVE  FitsAt(req[g], u)'
    BY <1>2 DEF Fits, Of
  <2>1. CASE u = t
    BY <2>1
  <2>2. CASE u # t
    <3>1. FitsAt(req[g], u) /\ u \in Tokens
      BY <1>1, OfTokens DEF IndInv, Fits, TypeOK
    <3> QED
      BY <1>2, <2>2, <3>1 DEF OnlyAt, FitsAt, Sound, InUse, ApprovedAsIs, Approving, Halfway
  <2> QED
    BY <2>1, <2>2
<1>5. \A f, g \in Handlers : f # g => Apart(req[f], req[g])'
  BY ApartPreserved
<1>6. \A u \in Tokens : Row(u)'
  <2> SUFFICES ASSUME NEW u \in Tokens, u # t PROVE Row(u)'
    OBVIOUS
  <2>1. Row(u)
    BY DEF IndInv
  <2>2. HalfEdited(u) => HalfEdited(u)'
    BY <1>2 DEF HalfEdited, Halfway
  <2> QED
    BY <2>1, <2>2 DEF OnlyAt, Row, InUse, ApprovedAsIs
<1> QED
  BY <1>2, <1>3, <1>4, <1>5, <1>6 DEF IndInv

\* A copy is saved: the file in use stays the same, unless it is disturbed.
LEMMA StorePreserves ==
    ASSUME IndInv, NEW h \in Handlers, NEW t \in Tokens, NEW q \in Request, NEW s \in Statuses,
           req' = [req EXCEPT ![h] = q],
           t = req[h].token, req[h].op \in {"decide", "record"} \cup Pays,
           rowFile' = [rowFile EXCEPT ![t] = req[h].file],
           status' = [status EXCEPT ![t] = s],
           s # "none", s = "approved" => Approving(req[h]),
           billed' \in [Tokens -> Bills], \A u \in Tokens \ {t} : billed'[u] = billed[u],
           UNCHANGED <<pdVars, history>>,
           WellFormed(q), q.token = NoToken, q.op \in {"none", "payAll"}, DOMAIN q.list = {},
           q.queue \subseteq req[h].queue
    PROVE  IndInv'
<1> DEFINE p == req[h]
<1>1. /\ TypeOK /\ p \in Request /\ WellFormed(p) /\ Fits(p) /\ Row(t) /\ t \in Of(p)
      /\ Of(p) \subseteq Tokens
  BY OfTokens, FilesAssumption DEF IndInv, TypeOK, Of
<1>2. /\ pdFile' = pdFile /\ pdStatus' = pdStatus /\ pdBilled' = pdBilled
      /\ approved' = approved /\ shown' = shown /\ disturbed' = disturbed
  BY DEF pdVars, history
<1>3. p.file \in FileOrNone
  BY <1>1 DEF Request
<1>4. /\ req'[h] = q /\ req' \in [Handlers -> Request]
      /\ \A g \in Handlers \ {h} : req'[g] = req[g]
  BY <1>1 DEF TypeOK
<1>5. /\ rowFile' \in [Tokens -> FileOrNone] /\ status' \in [Tokens -> Statuses]
      /\ rowFile'[t] = p.file /\ status'[t] = s
      /\ \A u \in Tokens \ {t} : rowFile'[u] = rowFile[u] /\ status'[u] = status[u]
  BY <1>1, <1>3 DEF TypeOK
<1>6. TypeOK'
  BY <1>1, <1>2, <1>4, <1>5 DEF TypeOK
<1>7. OnlyAt(t) /\ Kept(h)
  BY <1>2, <1>5 DEF OnlyAt, Kept
<1>8. FitsAt(p, t) /\ p.op \notin {"edit", "submit"}
  BY <1>1 DEF Fits, Pays
<1>9. t \notin disturbed => InUse(t)' = InUse(t)
  BY <1>2, <1>5, <1>8 DEF FitsAt, Sound, InUse
<1>10. q.queue \subseteq Of(p) /\ Of(q) = q.queue
  BY DEF Of
<1>11. \A u \in Tokens \ disturbed : InUse(u)' = InUse(u)
  BY <1>2, <1>5, <1>9 DEF InUse
<1>12. Fits(req[h])'
  <2> SUFFICES ASSUME NEW u \in q.queue PROVE FitsAt(req[h], u)'
    BY <1>4, <1>10 DEF Fits, Of
  <2>1. FitsAt(p, u) /\ u \in Tokens /\ u \in p.queue
    BY <1>1, <1>10 DEF Fits
  <2>2. status'[u] # "none" /\ u # NoToken
    BY <1>5, <1>8, <2>1, FilesAssumption DEF FitsAt
  <2>3. u \notin disturbed => ApprovedAsIs(u)'
    BY <1>2, <1>11, <2>1 DEF FitsAt, ApprovedAsIs
  <2> QED
    BY <1>2, <1>4, <2>1, <2>2, <2>3 DEF FitsAt, Halfway
<1>13. Row(t)'
  <2>1. t \notin disturbed /\ s = "approved" => ApprovedAsIs(t)
    BY <1>8 DEF FitsAt
  <2> QED
    BY <1>1, <1>2, <1>5, <1>9, <2>1, <1>8 DEF Row, ApprovedAsIs, FitsAt
<1>14. \A g \in Handlers \ {h} : Apart(req[g], req[h])' /\ Apart(req[h], req[g])'
  BY <1>7, <1>10, GoesOnApart
<1>15. ASSUME NEW g \in Handlers \ {h}, t \in Of(req[g])
       PROVE  FitsAt(req[g], t)'
  <2>1. FitsAt(req[g], t) /\ Apart(req[g], p)
    BY <1>15 DEF IndInv, Fits
  <2>2. req[g].op # "submit"
    BY <1>1, <1>15, <2>1 DEF Apart
  <2>3. req'[g] = req[g]
    BY <1>4
  <2>4. t \notin disturbed => \A f : Sound(f, t) => InUse(t)' = IF f # NoFile THEN f ELSE pdFile'[t]
    BY <1>2, <1>9 DEF Sound
  <2>5. t \notin disturbed /\ ApprovedAsIs(t) => ApprovedAsIs(t)'
    BY <1>2, <1>9 DEF ApprovedAsIs
  <2>6. ASSUME t \notin disturbed
        PROVE  /\ t = req'[g].token /\ req'[g].op # "edit" => Sound(req[g].file, t)'
               /\ t \in DOMAIN req'[g].list => Sound(req[g].list[t], t)'
    BY <2>1, <2>3, <2>4, <2>6 DEF FitsAt, Sound
  <2> QED
    BY <1>2, <1>5, <2>1, <2>2, <2>3, <2>5, <2>6 DEF FitsAt, Approving, Halfway
<1> QED
  BY <1>6, <1>7, <1>8, <1>12, <1>13, <1>14, <1>15, InvoicePreserves

LEMMA DecideStorePreserves ==
    ASSUME IndInv, NEW h \in Handlers, DecideStore(h)
    PROVE  IndInv'
<1>1. req[h] \in Request /\ WellFormed(req[h])
  BY DEF IndInv, TypeOK
<1>2. req[h].op = "decide" /\ req[h].step = "accepted"
  BY DEF DecideStore
<1>3. /\ req[h].token \in Tokens /\ req[h].status \in Statuses /\ req[h].status # "none"
      /\ req[h].status = "approved" => Approving(req[h])
  BY <1>1, <1>2, FilesAssumption DEF Request, WellFormed, Single, Approving
<1>4. /\ req' = [req EXCEPT ![h] = Idle]
      /\ rowFile' = [rowFile EXCEPT ![req[h].token] = req[h].file]
      /\ status' = [status EXCEPT ![req[h].token] = req[h].status]
      /\ billed' = billed /\ billed \in [Tokens -> Bills] /\ UNCHANGED <<pdVars, history>>
  BY DEF DecideStore, IndInv, TypeOK
<1> QED
  BY <1>2, <1>3, <1>4, IdleFacts, StorePreserves

LEMMA RecordStorePreserves ==
    ASSUME IndInv, NEW h \in Handlers, RecordStore(h)
    PROVE  IndInv'
<1>1. req[h] \in Request /\ WellFormed(req[h])
  BY DEF IndInv, TypeOK
<1>2. req[h].op = "record" /\ req[h].step = "accepted"
  BY DEF RecordStore
<1>3. req[h].token \in Tokens /\ "paid" \in Statuses
  BY <1>1, <1>2 DEF WellFormed, Single, Statuses
<1>4. /\ req' = [req EXCEPT ![h] = Idle]
      /\ rowFile' = [rowFile EXCEPT ![req[h].token] = req[h].file]
      /\ status' = [status EXCEPT ![req[h].token] = "paid"]
      /\ billed' = billed /\ billed \in [Tokens -> Bills] /\ UNCHANGED <<pdVars, history>>
  BY DEF RecordStore, IndInv, TypeOK
<1> QED
  BY <1>2, <1>3, <1>4, IdleFacts, StorePreserves

LEMMA PayStorePreserves ==
    ASSUME IndInv, NEW h \in Handlers, PayStore(h)
    PROVE  IndInv'
<1> DEFINE p == req[h]
           q == IF p.queue = {} THEN Idle
                ELSE [Idle EXCEPT !.op = "payAll", !.step = "listed", !.queue = p.queue]
<1>1. TypeOK /\ p \in Request /\ WellFormed(p) /\ Fits(p) /\ p.queue \subseteq Tokens
  BY DEF IndInv, TypeOK, Request
<1>2. p.op \in Pays /\ p.step = "accepted"
  BY DEF PayStore
<1>3. /\ p.token \in Tokens /\ p.status \in Statuses /\ p.status # "none"
      /\ p.status = "approved" => Approving(p)
  BY <1>1, <1>2, FilesAssumption DEF Request, WellFormed, Single, Approving, Pays
<1>4. req' = [req EXCEPT ![h] = q]
  BY DEF PayStore
<1>5. /\ q \in Request /\ q.token = NoToken /\ DOMAIN q.list = {} /\ q.queue \subseteq p.queue
      /\ q.op \in {"none", "payAll"} /\ q.queue \subseteq Of(p)
      /\ q.op = "payAll" => q.step = "listed"
      /\ q.op = "none" => q.queue = {} /\ q.step = "idle"
  <2>1. CASE p.queue = {}
    BY <2>1, IdleFacts
  <2>2. CASE p.queue # {}
    <3>1. q = [Idle EXCEPT !.op = "payAll", !.step = "listed", !.queue = p.queue]
      BY <2>2
    <3> HIDE DEF q
    <3>2. /\ q \in Request /\ q.op = "payAll" /\ q.step = "listed" /\ q.queue = p.queue
          /\ q.token = Idle.token /\ q.list = Idle.list
      BY <1>1, <3>1, IdleFacts DEF Request, Pays
    <3> QED
      BY <3>2, IdleFacts DEF Of
  <2> QED
    BY <2>1, <2>2
<1> HIDE DEF q
<1>6. WellFormed(q)
  BY <1>5, FilesAssumption DEF WellFormed, Single, Pays
<1>7. UNCHANGED <<pdVars, history>>
  BY DEF PayStore
<1>8. CASE ~(Kind(p.op) = "total" /\ p.billed = "total")
  <2>1. /\ rowFile' = [rowFile EXCEPT ![p.token] = p.file]
        /\ status' = [status EXCEPT ![p.token] = p.status]
        /\ billed' = [billed EXCEPT ![p.token] = With(@, p.op)]
    BY <1>8 DEF PayStore
  <2>2. With(billed[p.token], p.op) \in Bills
    BY <1>1, <1>3 DEF TypeOK, With, Kind, Bills
  <2>3. billed' \in [Tokens -> Bills] /\ \A u \in Tokens \ {p.token} : billed'[u] = billed[u]
    BY <1>1, <1>3, <2>1, <2>2 DEF TypeOK
  <2> QED
    BY <1>2, <1>3, <1>4, <1>5, <1>6, <1>7, <2>1, <2>3, StorePreserves
<1>9. CASE Kind(p.op) = "total" /\ p.billed = "total"
  <2>1. UNCHANGED rowVars
    BY <1>9 DEF PayStore
  <2>2. Calm
    BY <1>1, <1>7, <2>1, UnchangedIsCalm DEF pdVars, rowVars
  <2>3. Of(q) \subseteq Of(p) /\ Of(q) = q.queue
    BY <1>5 DEF Of
  <2>4. \A g \in Handlers \ {h} : Apart(req[g], req[h])' /\ Apart(req[h], req[g])'
    BY <1>4, <1>5, <2>2, <2>3, CalmKeeps, GoesOnApart
  <2>5. req'[h] = q
    BY <1>1, <1>4 DEF TypeOK
  <2>6. Fits(req[h])'
    <3> SUFFICES ASSUME NEW u \in q.queue PROVE FitsAt(req[h], u)'
      BY <2>3, <2>5 DEF Fits, Of
    <3>1. FitsAt(p, u) /\ u \in Tokens /\ u # NoToken /\ u \in p.queue
      BY <1>1, <1>5, FilesAssumption DEF Fits
    <3> QED
      BY <1>2, <1>5, <2>2, <2>5, <3>1, CalmFacts DEF FitsAt, ApprovedAsIs, InUse, Halfway, Pays
  <2> QED
    BY <1>2, <1>4, <1>5, <1>6, <2>2, <2>4, <2>6, CalmPreserves DEF Halfway, Pays
<1> QED
  BY <1>8, <1>9

-----------------------------------------------------------------------------
(* politeiad accepts a decision, a transaction or a payment *)

\* politeiad's record of an invoice changes, but not its file.  An invoice
\* that is disturbed no more is in no other hand.
LEMMA AcceptPreserves ==
    ASSUME IndInv, NEW h \in Handlers, NEW t \in Tokens, NEW q \in Request,
           req' = [req EXCEPT ![h] = q],
           t = req[h].token, req[h].op \in {"decide", "record"} \cup Pays,
           UNCHANGED <<pdFile, rowVars, shown>>,
           pdStatus' \in [Tokens -> Statuses], approved' \in [Tokens -> FileOrNone],
           pdBilled' \in [Tokens -> Bills], disturbed' \in {disturbed, disturbed \ {t}},
           \A u \in Tokens \ {t} : /\ pdStatus'[u] = pdStatus[u] /\ approved'[u] = approved[u]
                                   /\ pdBilled'[u] = pdBilled[u],
           t \in disturbed \ disturbed' =>
               Settles(h) /\ approved'[t] = InUse(t),
           pdStatus'[t] # "none",
           pdStatus'[t] = "approved" /\ t \notin disturbed' => approved'[t] = InUse(t),
           approved'[t] \in {approved[t], InUse(t)},
           q.op = req[h].op, q.step = "accepted", q.token = t, q.file = req[h].file,
           q.queue = req[h].queue, q.list = req[h].list,
           q.op # "record" => q.status = req[h].status,
           q.op = "decide" /\ q.status = "approved" /\ t \notin disturbed' =>
               approved'[t] = InUse(t)
    PROVE  IndInv'
<1> DEFINE p == req[h]
<1>1. /\ TypeOK /\ p \in Request /\ WellFormed(p) /\ Fits(p) /\ Row(t) /\ t \in Of(p)
      /\ Of(p) \subseteq Tokens /\ p.op \notin {"submit", "edit", "review"}
  BY OfTokens, FilesAssumption DEF IndInv, TypeOK, Of, Pays
<1>2. /\ pdFile' = pdFile /\ rowFile' = rowFile /\ status' = status /\ billed' = billed
      /\ shown' = shown
  BY DEF rowVars
<1>3. /\ req'[h] = q /\ req' \in [Handlers -> Request]
      /\ \A g \in Handlers \ {h} : req'[g] = req[g]
  BY <1>1 DEF TypeOK
<1>4. TypeOK'
  BY <1>1, <1>2, <1>3 DEF TypeOK
<1>5. OnlyAt(t)
  BY <1>2 DEF OnlyAt
<1>6. t \in disturbed \ disturbed' => \A g \in Handlers \ {h} : t \notin Of(req[g])
  BY DEF Settles, Alone, Concerns, Of
<1>7. Kept(h)
  BY <1>6 DEF Kept
<1>8. /\ \A u : InUse(u)' = InUse(u)
      /\ \A u : ApprovedAsIs(u) => ApprovedAsIs(u)' \/ u \notin Tokens
  BY <1>2 DEF InUse, ApprovedAsIs
<1>9. WellFormed(q)
  BY <1>1 DEF WellFormed, Single, Pays
<1>10. Of(q) = Of(p) /\ FitsAt(p, t)
  BY <1>1 DEF Of, Fits
<1>11. t \notin disturbed' => Sound(p.file, t)
  BY <1>1, <1>10 DEF FitsAt, Settles, Sound, InUse
<1>12. t \notin disturbed' /\ Approving(q) => ApprovedAsIs(t)'
  <2>1. CASE t \in disturbed
    BY <1>8, <2>1 DEF ApprovedAsIs
  <2>2. CASE t \notin disturbed /\ q.op = "decide"
    BY <1>8, <2>2 DEF Approving, ApprovedAsIs
  <2>3. CASE t \notin disturbed /\ q.op # "decide"
    <3>1. Approving(q) => Approving(p)
      BY <1>1, <2>3 DEF Approving
    <3> QED
      BY <1>8, <1>10, <2>3, <3>1 DEF FitsAt
  <2> QED
    BY <2>1, <2>2, <2>3
<1>13. t \notin disturbed' /\ t \in p.queue => ApprovedAsIs(t)'
  BY <1>8, <1>10 DEF FitsAt, ApprovedAsIs
<1>14. DOMAIN p.list = {}
  BY <1>1 DEF WellFormed
<1>15. Fits(req[h])'
  <2> SUFFICES ASSUME NEW u \in Of(p) PROVE FitsAt(req[h], u)'
    BY <1>3, <1>10 DEF Fits, Of
  <2>1. FitsAt(p, u) /\ u \in Tokens
    BY <1>1 DEF Fits
  <2>2. CASE u = t
    BY <1>1, <1>2, <1>3, <1>11, <1>12, <1>13, <1>14, <2>1, <2>2 DEF FitsAt, Sound, InUse, Halfway
  <2>3. CASE u # t
    BY <1>1, <1>2, <1>3, <1>8, <1>14, <2>1, <2>3 DEF FitsAt, Halfway
  <2> QED
    BY <2>2, <2>3
<1>16. Row(t)'
  <2>1. HalfEdited(t) => HalfEdited(t)'
    BY <1>1, <1>3 DEF HalfEdited, Halfway
  <2>2. pdFile[t] # NoFile
    BY <1>10 DEF FitsAt
  <2>3. pdStatus'[t] = "approved" /\ t \notin disturbed' => ApprovedAsIs(t)'
    BY <1>8 DEF ApprovedAsIs
  <2>4. status[t] = "approved" /\ ~HalfEdited(t) /\ t \notin disturbed' => ApprovedAsIs(t)'
    BY <1>1, <1>8 DEF Row, ApprovedAsIs
  <2>5. shown[t] # NoFile => shown[t] = InUse(t)' /\ t \notin disturbed'
    BY <1>1, <1>8 DEF Row
  <2> QED
    BY <1>1, <1>2, <2>1, <2>2, <2>3, <2>4, <2>5 DEF Row
<1>17. \A g \in Handlers \ {h} : Apart(req[g], req[h])' /\ Apart(req[h], req[g])'
  BY <1>1, <1>7, <1>10, GoesOnApart
<1>18. ASSUME NEW g \in Handlers \ {h}, t \in Of(req[g])
       PROVE  FitsAt(req[g], t)'
  <2>1. FitsAt(req[g], t) /\ Apart(req[g], p)
    BY <1>18 DEF IndInv, Fits
  <2>2. disturbed' = disturbed
    BY <1>6, <1>18
  <2>3. t \in disturbed \/ ~Halfway(req[g])
    BY <1>1, <1>18, <2>1 DEF Apart
  <2> QED
    BY <1>2, <1>3, <1>8, <2>1, <2>2, <2>3 DEF FitsAt, Sound, InUse, Approving, Halfway
<1> QED
  BY <1>1, <1>4, <1>5, <1>7, <1>9, <1>15, <1>16, <1>17, <1>18, InvoicePreserves

LEMMA DecideAcceptPreserves ==
    ASSUME IndInv, NEW h \in Handlers, DecideAccept(h)
    PROVE  IndInv'
<1> DEFINE p == req[h]
           q == [p EXCEPT !.step = "accepted"]
<1>1. TypeOK /\ p \in Request /\ WellFormed(p)
  BY DEF IndInv, TypeOK
<1>2. p.op = "decide" /\ p.step = "read"
  BY DEF DecideAccept
<1> PICK t \in Tokens : t = p.token
  BY <1>1, <1>2 DEF WellFormed, Single
<1>3. p.status \in Statuses /\ p.status # "none" /\ InUse(t) \in FileOrNone
  BY <1>1, <1>2, FilesAssumption DEF WellFormed, Request, TypeOK, InUse
<1>4. /\ pdStatus' = [pdStatus EXCEPT ![t] = p.status]
      /\ pdBilled' = pdBilled /\ UNCHANGED <<pdFile, rowVars, shown>>
      /\ req' = [req EXCEPT ![h] = q]
  BY DEF DecideAccept
<1>5. \/ /\ p.status = "approved" /\ (t \in disturbed => Settles(h))
         /\ approved' = [approved EXCEPT ![t] = InUse(t)]
         /\ disturbed' = disturbed \ {t}
      \/ /\ p.status # "approved" \/ t \in disturbed
         /\ approved' = approved /\ disturbed' = disturbed
  BY DEF DecideAccept
<1>6. /\ pdStatus' \in [Tokens -> Statuses] /\ pdBilled' \in [Tokens -> Bills]
      /\ pdStatus'[t] = p.status
      /\ \A u \in Tokens \ {t} : pdStatus'[u] = pdStatus[u] /\ pdBilled'[u] = pdBilled[u]
  BY <1>1, <1>3, <1>4 DEF TypeOK
<1>7. /\ approved' \in [Tokens -> FileOrNone] /\ approved'[t] \in {approved[t], InUse(t)}
      /\ \A u \in Tokens \ {t} : approved'[u] = approved[u]
      /\ p.status = "approved" /\ t \notin disturbed' => approved'[t] = InUse(t)
      /\ t \in disturbed \ disturbed' => Settles(h) /\ approved'[t] = InUse(t)
      /\ disturbed' \in {disturbed, disturbed \ {t}}
  BY <1>1, <1>3, <1>5 DEF TypeOK
<1>8. /\ q \in Request /\ q.op = p.op /\ q.step = "accepted" /\ q.token = p.token
      /\ q.file = p.file /\ q.queue = p.queue /\ q.list = p.list /\ q.status = p.status
  BY <1>1 DEF Request
<1> HIDE DEF q
<1> QED
  BY <1>2, <1>3, <1>4, <1>6, <1>7, <1>8, AcceptPreserves

LEMMA RecordAcceptPreserves ==
    ASSUME IndInv, NEW h \in Handlers, RecordAccept(h)
    PROVE  IndInv'
<1> DEFINE p == req[h]
           q == [p EXCEPT !.step = "accepted", !.status = "none", !.billed = "none"]
<1>1. TypeOK /\ p \in Request /\ WellFormed(p) /\ Fits(p)
  BY DEF IndInv, TypeOK
<1>2. p.op = "record" /\ p.step = "read"
  BY DEF RecordAccept
<1> PICK t \in Tokens : t = p.token
  BY <1>1, <1>2 DEF WellFormed, Single
<1>3. t \in Of(p) /\ p.billed \in Bills
  BY <1>1, FilesAssumption DEF Of, Request
<1>4. /\ pdStatus' = IF p.status = "paid" THEN pdStatus ELSE [pdStatus EXCEPT ![t] = "paid"]
      /\ pdBilled' = [pdBilled EXCEPT ![t] = p.billed]
      /\ UNCHANGED <<pdFile, rowVars, shown>>
      /\ approved' = approved /\ disturbed' = disturbed
      /\ req' = [req EXCEPT ![h] = q]
  BY DEF RecordAccept, history
<1>5. Row(t) /\ pdFile[t] # NoFile
  BY <1>1, <1>3 DEF IndInv, Fits, FitsAt
<1>6. /\ pdStatus' \in [Tokens -> Statuses] /\ pdBilled' \in [Tokens -> Bills]
      /\ pdStatus'[t] \in {pdStatus[t], "paid"}
      /\ \A u \in Tokens \ {t} : pdStatus'[u] = pdStatus[u] /\ pdBilled'[u] = pdBilled[u]
  BY <1>1, <1>3, <1>4 DEF TypeOK, Statuses
<1>7. /\ pdStatus'[t] # "none"
      /\ pdStatus'[t] = "approved" /\ t \notin disturbed' => approved'[t] = InUse(t)
  BY <1>4, <1>5, <1>6 DEF Row, ApprovedAsIs
<1>8. approved' \in [Tokens -> FileOrNone]
  BY <1>1, <1>4 DEF TypeOK
<1>9. /\ q \in Request /\ q.op = p.op /\ q.step = "accepted" /\ q.token = p.token
      /\ q.file = p.file /\ q.queue = p.queue /\ q.list = p.list
  BY <1>1 DEF Request, Statuses, Bills
<1>10. q.op \notin {"decide"} \cup Pays
  BY <1>2, <1>9 DEF Pays
<1>11. approved'[t] = approved[t] /\ \A u \in Tokens \ {t} : approved'[u] = approved[u]
  BY <1>4
<1> HIDE DEF q
<1> QED
  BY <1>2, <1>4, <1>6, <1>7, <1>8, <1>9, <1>10, <1>11, AcceptPreserves

LEMMA PayAcceptPreserves ==
    ASSUME IndInv, NEW h \in Handlers, PayAccept(h)
    PROVE  IndInv'
<1> DEFINE p == req[h]
           q == [p EXCEPT !.step = "accepted"]
<1>1. TypeOK /\ p \in Request /\ WellFormed(p) /\ Fits(p)
  BY DEF IndInv, TypeOK
<1>2. p.op \in Pays /\ p.step = "read"
  BY DEF PayAccept, Paying
<1> PICK t \in Tokens : t = p.token
  BY <1>1, <1>2 DEF WellFormed, Single, Pays
<1>3. t \in Of(p) /\ With(p.billed, p.op) \in Bills
  BY <1>1, FilesAssumption DEF Of, Request, With, Kind, Bills
<1>4. /\ pdStatus' = pdStatus /\ approved' = approved /\ disturbed' = disturbed
      /\ pdBilled' = [pdBilled EXCEPT ![t] = With(p.billed, p.op)]
      /\ UNCHANGED <<pdFile, rowVars, shown>>
      /\ req' = [req EXCEPT ![h] = q]
  BY DEF PayAccept, history
<1>5. Row(t) /\ pdFile[t] # NoFile
  BY <1>1, <1>3 DEF IndInv, Fits, FitsAt
<1>6. /\ pdStatus'[t] # "none"
      /\ pdStatus'[t] = "approved" /\ t \notin disturbed' => approved'[t] = InUse(t)
  BY <1>4, <1>5 DEF Row, ApprovedAsIs
<1>7. /\ approved' \in [Tokens -> FileOrNone] /\ pdStatus' \in [Tokens -> Statuses]
      /\ pdBilled' \in [Tokens -> Bills] /\ \A u \in Tokens \ {t} : pdBilled'[u] = pdBilled[u]
  BY <1>1, <1>3, <1>4 DEF TypeOK
<1>8. /\ q \in Request /\ q.op = p.op /\ q.step = "accepted" /\ q.token = p.token
      /\ q.file = p.file /\ q.queue = p.queue /\ q.list = p.list /\ q.status = p.status
  BY <1>1 DEF Request
<1>9. q.op # "decide"
  BY <1>2, <1>8 DEF Pays
<1> HIDE DEF q
<1> QED
  BY <1>2, <1>4, <1>6, <1>7, <1>8, <1>9, AcceptPreserves

-----------------------------------------------------------------------------
(* The contractor's submissions and edits *)

LEMMA SubmitAcceptPreserves ==
    ASSUME IndInv, NEW h \in Handlers, NEW t \in Tokens, NEW f \in Files, SubmitAccept(h, t, f)
    PROVE  IndInv'
<1> DEFINE q == [Idle EXCEPT !.op = "submit", !.step = "accepted", !.token = t, !.new = f]
<1>1. TypeOK /\ Row(t)
  BY DEF IndInv
<1>2. /\ ~InFlight(h) /\ pdFile[t] = NoFile
      /\ pdFile' = [pdFile EXCEPT ![t] = f]
      /\ pdStatus' = [pdStatus EXCEPT ![t] = "notReviewed"]
      /\ pdBilled' = pdBilled /\ rowFile' = rowFile /\ status' = status /\ billed' = billed
      /\ approved' = approved /\ shown' = shown /\ disturbed' = disturbed
      /\ req' = [req EXCEPT ![h] = q]
  BY DEF SubmitAccept, rowVars, history
<1>3. /\ q \in Request /\ q.op = "submit" /\ q.step = "accepted" /\ q.token = t /\ q.new = f
      /\ q.file = NoFile /\ q.queue = {} /\ DOMAIN q.list = {}
  <2>1. Idle.file = NoFile
    BY DEF Idle
  <2> HIDE DEF q
  <2>2. q = [Idle EXCEPT !.op = "submit", !.step = "accepted", !.token = t, !.new = f]
    BY DEF q
  <2>3. /\ q \in Request /\ q.op = "submit" /\ q.step = "accepted" /\ q.token = t /\ q.new = f
        /\ q.file = Idle.file /\ q.queue = Idle.queue /\ q.list = Idle.list
    BY <2>2, IdleFacts DEF Request, FileOrNone
  <2> QED
    BY <2>1, <2>3, IdleFacts
<1> HIDE DEF q
<1>4. f # NoFile /\ f \in FileOrNone /\ t # NoToken
  BY FilesAssumption DEF FileOrNone
<1>5. status[t] = "none" /\ rowFile[t] = NoFile /\ billed[t] = "none" /\ pdBilled[t] = "none"
  BY <1>1, <1>2 DEF Row
<1>6. /\ pdFile' \in [Tokens -> FileOrNone] /\ pdStatus' \in [Tokens -> Statuses]
      /\ pdFile'[t] = f /\ pdStatus'[t] = "notReviewed"
      /\ \A u \in Tokens \ {t} : pdFile'[u] = pdFile[u] /\ pdStatus'[u] = pdStatus[u]
  BY <1>1, <1>2, <1>4 DEF TypeOK, Statuses
<1>7. /\ req'[h] = q /\ req' \in [Handlers -> Request]
      /\ \A g \in Handlers \ {h} : req'[g] = req[g]
  BY <1>1, <1>2, <1>3 DEF TypeOK
<1>8. TypeOK'
  BY <1>1, <1>2, <1>6, <1>7 DEF TypeOK
<1>9. OnlyAt(t) /\ Kept(h)
  BY <1>2, <1>6 DEF OnlyAt, Kept
<1>10. WellFormed(q)
  BY <1>3 DEF WellFormed, Single, Pays
<1>11. Of(q) = {t}
  BY <1>3, <1>4 DEF Of
<1>12. Fits(req[h])'
  BY <1>2, <1>3, <1>4, <1>5, <1>6, <1>7, <1>11 DEF Fits, FitsAt, Sound, InUse, Approving, Halfway, Of
<1>13. Row(t)'
  BY <1>1, <1>2, <1>4, <1>5, <1>6 DEF Row, InUse, ApprovedAsIs
<1>14. \A g \in Handlers : t \notin Of(req[g])
  BY <1>2 DEF IndInv, Fits, FitsAt
<1>15. \A g \in Handlers \ {h} : Apart(req[g], req[h])' /\ Apart(req[h], req[g])'
  BY <1>7, <1>11, <1>14 DEF Apart, Halfway, Of
<1>16. req[h].op = "none"
  BY <1>2, NotInFlight
<1> QED
  BY <1>2, <1>3, <1>8, <1>9, <1>10, <1>12, <1>13, <1>14, <1>15, <1>16, InvoicePreserves

LEMMA SubmitStorePreserves ==
    ASSUME IndInv, NEW h \in Handlers, SubmitStore(h)
    PROVE  IndInv'
<1> DEFINE p == req[h]
<1>1. TypeOK /\ p \in Request /\ WellFormed(p) /\ Fits(p)
  BY DEF IndInv, TypeOK
<1> PICK t \in Tokens : t = p.token
  BY <1>1 DEF SubmitStore, WellFormed, Single
<1>2. /\ p.op = "submit" /\ p.step = "accepted"
      /\ rowFile' = [rowFile EXCEPT ![t] = p.new]
      /\ status' = [status EXCEPT ![t] = "notReviewed"]
      /\ req' = [req EXCEPT ![h] = Idle]
      /\ pdFile' = pdFile /\ pdStatus' = pdStatus /\ pdBilled' = pdBilled /\ billed' = billed
      /\ approved' = approved /\ shown' = shown /\ disturbed' = disturbed
  BY DEF SubmitStore, pdVars, history
<1>3. t \in Tokens /\ t \in Of(p) /\ p.new \in FileOrNone
  BY <1>1, <1>2, FilesAssumption DEF WellFormed, Single, Of, Request
<1>4. FitsAt(p, t) /\ Row(t)
  BY <1>1, <1>3 DEF IndInv, Fits
<1>5. /\ status[t] = "none" /\ rowFile[t] = NoFile /\ pdFile[t] = p.new /\ p.new # NoFile
  BY <1>2, <1>4 DEF Row, FitsAt
<1>6. /\ rowFile' \in [Tokens -> FileOrNone] /\ status' \in [Tokens -> Statuses]
      /\ rowFile'[t] = p.new /\ status'[t] = "notReviewed"
      /\ \A u \in Tokens \ {t} : rowFile'[u] = rowFile[u] /\ status'[u] = status[u]
  BY <1>1, <1>2, <1>3 DEF TypeOK, Statuses
<1>7. /\ req'[h] = Idle /\ req' \in [Handlers -> Request]
      /\ \A g \in Handlers \ {h} : req'[g] = req[g]
  BY <1>1, <1>2, IdleFacts DEF TypeOK
<1>8. TypeOK'
  BY <1>1, <1>2, <1>6, <1>7 DEF TypeOK
<1>9. OnlyAt(t) /\ Kept(h)
  BY <1>2, <1>6 DEF OnlyAt, Kept
<1>10. Fits(req[h])'
  BY <1>7, IdleFacts DEF Fits, Of
<1>11. Row(t)'
  BY <1>2, <1>4, <1>5, <1>6 DEF Row, InUse, ApprovedAsIs
<1>12. \A g \in Handlers \ {h} : Apart(req[g], req[h])' /\ Apart(req[h], req[g])'
  BY <1>2, <1>9, IdleFacts, GoesOnApart
<1>13. \A g \in Handlers \ {h} : t \notin Of(req[g])
  BY <1>2, <1>3 DEF IndInv, Apart
<1> QED
  BY <1>2, <1>3, <1>8, <1>9, <1>10, <1>11, <1>12, <1>13, IdleFacts, InvoicePreserves

LEMMA EditAcceptPreserves ==
    ASSUME IndInv, NEW h \in Handlers, EditAccept(h)
    PROVE  IndInv'
<1> DEFINE p == req[h]
           q == [p EXCEPT !.step = "accepted", !.new = NoFile]
<1>1. TypeOK /\ p \in Request /\ WellFormed(p) /\ Fits(p)
  BY DEF IndInv, TypeOK
<1> PICK t \in Tokens : t = p.token
  BY <1>1 DEF EditAccept, WellFormed, Single
<1>2. /\ p.op = "edit" /\ p.step = "read"
      /\ pdFile' = [pdFile EXCEPT ![t] = p.new]
      /\ pdStatus' = [pdStatus EXCEPT ![t] = "unreviewedChanges"]
      /\ approved' = [approved EXCEPT ![t] = NoFile]
      /\ shown' = [shown EXCEPT ![t] = NoFile]
      /\ req' = [req EXCEPT ![h] = q]
      /\ pdBilled' = pdBilled /\ rowFile' = rowFile /\ status' = status /\ billed' = billed
      /\ disturbed' = IF Alone(h, t) THEN disturbed ELSE disturbed \cup {t}
  BY DEF EditAccept, rowVars
<1>3. t \in Tokens /\ t \in Of(p) /\ p.new \in Files /\ p.new # NoFile /\ p.new \in FileOrNone
  BY <1>1, <1>2, FilesAssumption DEF WellFormed, Single, Of, FileOrNone
<1>4. FitsAt(p, t) /\ Row(t)
  BY <1>1, <1>3 DEF IndInv, Fits
<1>5. NoFile \in FileOrNone
  BY DEF FileOrNone
<1>6. /\ q \in Request /\ q.op = "edit" /\ q.step = "accepted" /\ q.token = t
      /\ q.file = p.file /\ q.queue = p.queue /\ q.list = p.list
  BY <1>1, <1>2, <1>5 DEF Request
<1> HIDE DEF q
<1>7. /\ pdFile' \in [Tokens -> FileOrNone] /\ pdStatus' \in [Tokens -> Statuses]
      /\ approved' \in [Tokens -> FileOrNone] /\ shown' \in [Tokens -> FileOrNone]
      /\ disturbed' \subseteq Tokens
  BY <1>1, <1>2, <1>3, <1>5 DEF TypeOK, Statuses
<1>8. /\ pdFile'[t] = p.new /\ pdStatus'[t] = "unreviewedChanges" /\ shown'[t] = NoFile
      /\ \A g \in Handlers \ {h} : t \in Of(req[g]) => t \in disturbed'
  BY <1>1, <1>2, <1>3 DEF TypeOK, Alone, Concerns, Of
<1>9. /\ req'[h] = q /\ req' \in [Handlers -> Request]
      /\ \A g \in Handlers \ {h} : req'[g] = req[g]
  BY <1>1, <1>2, <1>6 DEF TypeOK
<1>10. TypeOK'
  BY <1>1, <1>2, <1>7, <1>9 DEF TypeOK
<1>11. OnlyAt(t) /\ Kept(h)
  BY <1>1, <1>2 DEF OnlyAt, Kept, TypeOK
<1>12. WellFormed(q)
  BY <1>1, <1>2, <1>6 DEF WellFormed, Single, Pays
<1>13. Of(p) = {t} /\ Of(q) = Of(p)
  BY <1>1, <1>2, <1>3, <1>6, FilesAssumption DEF WellFormed, Of
<1>14. Fits(req[h])'
  BY <1>2, <1>3, <1>4, <1>6, <1>8, <1>9, <1>13, <1>1 DEF Fits, FitsAt, Approving, Halfway, Of, WellFormed
<1>15. Row(t)'
  <2>1. HalfEdited(t)'
    BY <1>6, <1>9 DEF HalfEdited, Halfway
  <2> QED
    BY <1>2, <1>3, <1>4, <1>8, <2>1 DEF Row, FitsAt
<1>16. \A g \in Handlers \ {h} : Apart(req[g], req[h])' /\ Apart(req[h], req[g])'
  <2> SUFFICES ASSUME NEW g \in Handlers \ {h}
               PROVE  Apart(req[g], req[h])' /\ Apart(req[h], req[g])'
    OBVIOUS
  <2>1. Apart(req[g], p)
    BY DEF IndInv
  <2> QED
    BY <1>6, <1>8, <1>9, <1>13, <2>1 DEF Apart, Halfway, Of
<1>17. ASSUME NEW g \in Handlers \ {h}, t \in Of(req[g])
       PROVE  FitsAt(req[g], t)'
  <2>1. FitsAt(req[g], t) /\ Apart(req[g], p)
    BY <1>17 DEF IndInv, Fits
  <2>2. t \in disturbed' /\ req[g].op # "submit"
    BY <1>3, <1>8, <1>17, <2>1 DEF Apart
  <2> QED
    BY <1>2, <1>3, <1>8, <1>9, <2>1, <2>2 DEF FitsAt
<1> QED
  BY <1>2, <1>3, <1>6, <1>10, <1>11, <1>12, <1>14, <1>15, <1>16, <1>17, InvoicePreserves

LEMMA EditStorePreserves ==
    ASSUME IndInv, NEW h \in Handlers, EditStore(h)
    PROVE  IndInv'
<1> DEFINE p == req[h]
<1>1. TypeOK /\ p \in Request /\ WellFormed(p) /\ Fits(p)
  BY DEF IndInv, TypeOK
<1> PICK t \in Tokens : t = p.token
  BY <1>1 DEF EditStore, WellFormed, Single
<1>2. /\ p.op = "edit" /\ p.step = "accepted"
      /\ rowFile' = [rowFile EXCEPT ![t] = p.file]
      /\ status' = [status EXCEPT ![t] = "unreviewedChanges"]
      /\ req' = [req EXCEPT ![h] = Idle]
      /\ pdFile' = pdFile /\ pdStatus' = pdStatus /\ pdBilled' = pdBilled /\ billed' = billed
      /\ approved' = approved /\ shown' = shown /\ disturbed' = disturbed
  BY DEF EditStore, pdVars, history
<1>3. t \in Tokens /\ t \in Of(p) /\ p.file \in FileOrNone
  BY <1>1, <1>2, FilesAssumption DEF WellFormed, Single, Of, Request
<1>4. FitsAt(p, t) /\ Row(t)
  BY <1>1, <1>3 DEF IndInv, Fits
<1>5. /\ rowFile' \in [Tokens -> FileOrNone] /\ status' \in [Tokens -> Statuses]
      /\ rowFile'[t] = p.file /\ status'[t] = "unreviewedChanges"
      /\ \A u \in Tokens \ {t} : rowFile'[u] = rowFile[u] /\ status'[u] = status[u]
  BY <1>1, <1>2, <1>3 DEF TypeOK, Statuses
<1>6. /\ req'[h] = Idle /\ req' \in [Handlers -> Request]
      /\ \A g \in Handlers \ {h} : req'[g] = req[g]
  BY <1>1, <1>2, IdleFacts DEF TypeOK
<1>7. TypeOK'
  BY <1>1, <1>2, <1>5, <1>6 DEF TypeOK
<1>8. OnlyAt(t) /\ Kept(h)
  BY <1>2, <1>5 DEF OnlyAt, Kept
<1>9. Fits(req[h])'
  BY <1>6, IdleFacts DEF Fits, Of
<1>10. shown[t] = NoFile /\ (t \notin disturbed => pdStatus[t] # "approved")
  BY <1>2, <1>4 DEF FitsAt, Row, Halfway
<1>11. Row(t)'
  BY <1>2, <1>4, <1>5, <1>10 DEF Row, FitsAt
<1>12. \A g \in Handlers \ {h} : Apart(req[g], req[h])' /\ Apart(req[h], req[g])'
  BY <1>2, <1>8, IdleFacts, GoesOnApart
<1>13. ASSUME NEW g \in Handlers \ {h}, t \in Of(req[g])
       PROVE  FitsAt(req[g], t)'
  <2>1. FitsAt(req[g], t) /\ Apart(req[g], p) /\ Apart(p, req[g])
    BY <1>13 DEF IndInv, Fits
  <2>2. t \in disturbed /\ req[g].op # "submit"
    BY <1>2, <1>3, <1>13, <2>1 DEF Apart, Halfway
  <2> QED
    BY <1>2, <1>5, <1>6, <2>1, <2>2 DEF FitsAt
<1> QED
  BY <1>2, <1>3, <1>7, <1>8, <1>9, <1>11, <1>12, <1>13, IdleFacts, InvoicePreserves

-----------------------------------------------------------------------------
(* The review list and restarts *)

LEMMA ReviewReplyPreserves ==
    ASSUME IndInv, NEW h \in Handlers, ReviewReply(h)
    PROVE  IndInv'
<1> DEFINE p == req[h]
<1>1. TypeOK /\ p \in Request /\ Fits(p) /\ Of(p) \subseteq Tokens
  BY OfTokens DEF IndInv, TypeOK
<1>2. /\ p.op = "review"
      /\ req' = [req EXCEPT ![h] = Idle]
      /\ shown' = [t \in Tokens |-> IF t \in DOMAIN p.list \ disturbed THEN p.list[t] ELSE shown[t]]
      /\ pdFile' = pdFile /\ pdStatus' = pdStatus /\ pdBilled' = pdBilled
      /\ rowFile' = rowFile /\ status' = status /\ billed' = billed
      /\ approved' = approved /\ disturbed' = disturbed
  BY DEF ReviewReply, pdVars, rowVars
<1>3. \A t \in DOMAIN p.list : p.list[t] \in FileOrNone
  <2>1. PICK S \in SUBSET Tokens : p.list \in [S -> FileOrNone]
    BY <1>1 DEF Request
  <2> QED
    BY <2>1
<1>4. shown' \in [Tokens -> FileOrNone]
  BY <1>1, <1>2, <1>3 DEF TypeOK
<1>5. /\ req'[h] = Idle /\ req' \in [Handlers -> Request]
      /\ \A g \in Handlers \ {h} : req'[g] = req[g]
  BY <1>1, <1>2, IdleFacts DEF TypeOK
<1>6. TypeOK'
  BY <1>1, <1>2, <1>4, <1>5 DEF TypeOK
<1>10. Kept(h)
  BY <1>2 DEF Kept
<1>7. \A g \in Handlers : WellFormed(req'[g]) /\ Fits(req[g])'
  <2> SUFFICES ASSUME NEW g \in Handlers PROVE WellFormed(req'[g]) /\ Fits(req[g])'
    OBVIOUS
  <2>1. CASE g = h
    BY <1>5, <2>1, IdleFacts DEF Fits, Of
  <2>2. CASE g # h
    <3>1. WellFormed(req[g]) /\ Fits(req[g])
      BY DEF IndInv
    <3>2. Apart(req[g], p)
      BY <2>2 DEF IndInv
    <3> SUFFICES ASSUME NEW t \in Of(req[g]) PROVE FitsAt(req[g], t)'
      BY <1>5, <2>2, <3>1 DEF Fits, Of
    <3>3. FitsAt(req[g], t) /\ t \in Tokens
      BY <3>1, OfTokens DEF IndInv, TypeOK, Fits
    <3>4. Halfway(req[g]) /\ t \notin disturbed => shown'[t] = shown[t]
      BY <1>2, <3>2, <3>3 DEF Apart, Of
    <3> QED
      BY <1>2, <1>5, <2>2, <3>3, <3>4 DEF FitsAt, Sound, InUse, ApprovedAsIs, Approving, Halfway
  <2> QED
    BY <2>1, <2>2
<1>8. \A f, g \in Handlers : f # g => Apart(req[f], req[g])'
  <2>1. \A g \in Handlers \ {h} : Apart(req[g], req[h])' /\ Apart(req[h], req[g])'
    BY <1>2, <1>10, IdleFacts, GoesOnApart
  <2> QED
    BY <1>2, <1>10, <2>1, IdleFacts, ApartPreserved
<1>9. \A t \in Tokens : Row(t)'
  <2> SUFFICES ASSUME NEW t \in Tokens PROVE Row(t)'
    OBVIOUS
  <2>1. Row(t)
    BY DEF IndInv
  <2>2. HalfEdited(t) => HalfEdited(t)'
    BY <1>2, <1>5 DEF HalfEdited, Halfway
  <2>4. p.list[t] # NoFile \/ t \notin DOMAIN p.list
    BY DEF ReviewReply
  <2>3. t \notin disturbed /\ t \in DOMAIN p.list => Sound(p.list[t], t)
    BY <1>1 DEF Fits, FitsAt, Of
  <2> QED
    BY <1>2, <2>1, <2>2, <2>3, <2>4 DEF Row, Sound, InUse, ApprovedAsIs
<1> QED
  BY <1>6, <1>7, <1>8, <1>9 DEF IndInv

LEMMA RestartPreserves ==
    ASSUME IndInv, Restart
    PROVE  IndInv'
<1> DEFINE S == {t \in Tokens : InUse(t) # pdFile[t]}
<1>1. TypeOK
  BY DEF IndInv
<1>2. /\ rowFile' = [t \in Tokens |-> NoFile] /\ status' = pdStatus /\ billed' = pdBilled
      /\ req' = [h \in Handlers |-> Idle]
      /\ pdFile' = pdFile /\ pdStatus' = pdStatus /\ pdBilled' = pdBilled
      /\ disturbed' = disturbed \cup S
      /\ approved' = [t \in Tokens |-> IF t \in S THEN NoFile ELSE approved[t]]
      /\ shown' = [t \in Tokens |-> IF t \in S THEN NoFile ELSE shown[t]]
  BY DEF Restart, Disturb, pdVars
<1>3. TypeOK'
  BY <1>1, <1>2, IdleFacts DEF TypeOK, FileOrNone
<1>4. \A h \in Handlers : WellFormed(req'[h]) /\ Fits(req[h])'
  BY <1>2, IdleFacts DEF Fits, Of
<1>5. \A g, h \in Handlers : Apart(req[g], req[h])'
  BY <1>2, IdleFacts DEF Apart, Of
<1>6. \A t \in Tokens : Row(t)'
  <2> SUFFICES ASSUME NEW t \in Tokens PROVE Row(t)'
    OBVIOUS
  <2>1. Row(t) /\ InUse(t)' = pdFile[t]
    BY <1>2 DEF IndInv, InUse
  <2>2. shown'[t] # NoFile => shown'[t] = pdFile[t] /\ t \notin disturbed'
    BY <1>2, <2>1 DEF Row
  <2>3. pdStatus[t] = "approved" /\ t \notin disturbed' => ApprovedAsIs(t)'
    BY <1>2, <2>1 DEF Row, ApprovedAsIs
  <2> QED
    BY <1>2, <2>1, <2>2, <2>3 DEF Row
<1> QED
  BY <1>3, <1>4, <1>5, <1>6 DEF IndInv

-----------------------------------------------------------------------------
(* The theorems *)

LEMMA InitIndInv == Init => IndInv
<1> SUFFICES ASSUME Init PROVE IndInv
  OBVIOUS
<1>1. TypeOK
  BY IdleFacts DEF Init, TypeOK, FileOrNone, Statuses, Bills
<1>2. \A h \in Handlers : req[h] = Idle
  BY DEF Init
<1>3. \A h \in Handlers : WellFormed(req[h]) /\ Fits(req[h])
  BY <1>2, IdleFacts
<1>4. \A g, h \in Handlers : Apart(req[g], req[h])
  BY <1>2, IdleFacts DEF Apart
<1>5. \A t \in Tokens : Row(t)
  BY DEF Init, Row
<1> QED
  BY <1>1, <1>3, <1>4, <1>5 DEF IndInv

LEMMA StutterPreserves ==
    ASSUME IndInv, UNCHANGED vars
    PROVE  IndInv'
<1>1. /\ pdFile' = pdFile /\ pdStatus' = pdStatus /\ pdBilled' = pdBilled
      /\ rowFile' = rowFile /\ status' = status /\ billed' = billed /\ req' = req
      /\ approved' = approved /\ shown' = shown /\ disturbed' = disturbed
  BY DEF vars, pdVars, rowVars, history
<1>2. TypeOK'
  BY <1>1 DEF IndInv, TypeOK
<1>3. \A h \in Handlers : WellFormed(req'[h]) /\ Fits(req[h])'
  BY <1>1 DEF IndInv, Fits, FitsAt, Of, Sound, InUse, ApprovedAsIs, Approving, Halfway
<1>4. \A g, h \in Handlers : g # h => Apart(req[g], req[h])'
  BY <1>1 DEF IndInv, Apart, Of, Halfway
<1>5. \A t \in Tokens : Row(t)'
  BY <1>1 DEF IndInv, Row, HalfEdited, Halfway, InUse, ApprovedAsIs
<1> QED
  BY <1>2, <1>3, <1>4, <1>5 DEF IndInv

\* A step of one handler.
HandlerStep ==
    \/ \E h \in Handlers : SubmitStore(h) \/ EditAccept(h) \/ EditStore(h)
    \/ \E h \in Handlers : DecideAccept(h) \/ DecideStore(h) \/ RecordAccept(h) \/ RecordStore(h)
    \/ \E h \in Handlers : ReviewList(h) \/ ReviewReply(h)
    \/ \E h \in Handlers : PayList(h) \/ PayFetch(h) \/ PayAccept(h) \/ PayStore(h) \/ Fail(h)

LEMMA StepIndInv == IndInv /\ [Next]_vars => IndInv'
<1> SUFFICES ASSUME IndInv, [Next]_vars PROVE IndInv'
  OBVIOUS
<1>1. ASSUME NEW h \in Handlers, NEW t \in Tokens, NEW f \in Files,
             SubmitAccept(h, t, f) \/ EditRead(h, t, f)
      PROVE  IndInv'
  BY <1>1, SubmitAcceptPreserves, EditReadPreserves
<1>2. ASSUME NEW h \in Handlers, NEW t \in Tokens, NEW s \in Statuses, DecideRead(h, t, s)
      PROVE  IndInv'
  BY <1>2, DecideReadPreserves
<1>3. ASSUME NEW h \in Handlers, NEW t \in Tokens,
             RecordRead(h, t) \/ ReviewFetch(h, t) \/ PayNext(h, t) \/ PayRead(h, t)
      PROVE  IndInv'
  BY <1>3, RecordReadPreserves, ReviewFetchPreserves, PayNextPreserves, PayReadPreserves
<1>4. CASE HandlerStep
  <2>1. ASSUME NEW h \in Handlers, SubmitStore(h) \/ EditAccept(h) \/ EditStore(h) PROVE IndInv'
    BY <2>1, SubmitStorePreserves, EditAcceptPreserves, EditStorePreserves
  <2>2. ASSUME NEW h \in Handlers,
               DecideAccept(h) \/ DecideStore(h) \/ RecordAccept(h) \/ RecordStore(h)
        PROVE  IndInv'
    BY <2>2, DecideAcceptPreserves, DecideStorePreserves, RecordAcceptPreserves, RecordStorePreserves
  <2>3. ASSUME NEW h \in Handlers, ReviewList(h) \/ ReviewReply(h) PROVE IndInv'
    BY <2>3, ReviewListPreserves, ReviewReplyPreserves
  <2>4. ASSUME NEW h \in Handlers,
               PayList(h) \/ PayFetch(h) \/ PayAccept(h) \/ PayStore(h) \/ Fail(h)
        PROVE  IndInv'
    BY <2>4, PayListPreserves, PayFetchPreserves, PayAcceptPreserves, PayStorePreserves, FailPreserves
  <2> QED
    BY <1>4, <2>1, <2>2, <2>3, <2>4 DEF HandlerStep
<1>5. CASE Restart
  BY <1>5, RestartPreserves
<1>6. CASE UNCHANGED vars
  BY <1>6, StutterPreserves
<1> QED
  BY <1>1, <1>2, <1>3, <1>4, <1>5, <1>6 DEF Next, HandlerStep

LEMMA Invariance == Spec => []IndInv
  BY InitIndInv, StepIndInv, PTL DEF Spec

\* The variables and the requests in flight have their types: what a request
\* holds of the invoices it works on, the files of a review list included,
\* are files of these invoices.
THEOREM TypeCorrect == Spec => []TypeOK
<1>1. IndInv => TypeOK
  BY DEF IndInv
<1> QED
  BY <1>1, Invariance, PTL

\* A batch of payments (HandlePayInvoices) bills the file that was in use when
\* politeiad accepted the approval, whatever payments, reviews, decisions and
\* restarts came between: unless an edit overlapped another request or was
\* left half done, or a restart found another file than the row had, and the
\* invoice was not approved anew since.
THEOREM BatchPaysApproved == Spec => PaidIsApproved
<1>1. ASSUME IndInv, NEW h \in Handlers, PayAccept(h), req[h].op = "payAll",
             req[h].token \notin disturbed
      PROVE  req[h].file = approved[req[h].token]
  <2> DEFINE p == req[h]
             t == p.token
  <2>1. WellFormed(p) /\ Fits(p) /\ p.step = "read" /\ p.file # NoFile
    BY <1>1 DEF IndInv, PayAccept, Paying
  <2>2. t \in Tokens /\ t \in Of(p)
    BY <1>1, <2>1, FilesAssumption DEF WellFormed, Of
  <2>3. FitsAt(p, t)
    BY <2>1, <2>2 DEF Fits
  <2>4. Sound(p.file, t) /\ ApprovedAsIs(t)
    BY <1>1, <2>3 DEF FitsAt, Approving
  <2> QED
    BY <2>1, <2>4 DEF Sound, ApprovedAsIs
<1>2. IndInv => \A h \in Handlers :
          PayAccept(h) /\ req[h].op = "payAll" =>
              \/ req[h].file = approved[req[h].token]
              \/ req[h].token \in disturbed
  BY <1>1
<1> QED
  BY <1>2, Invariance, PTL DEF PaidIsApproved

\* Alone or in a batch, an invoice is paid for what the review list showed of
\* it, if it did since the last edit, restarts or not: with the exceptions of
\* BatchPaysApproved.
THEOREM PaysAsShown == Spec => PaidAsShown
<1>1. ASSUME IndInv, NEW h \in Handlers, PayAccept(h), req[h].token \notin disturbed
      PROVE  shown[req[h].token] \in {NoFile, req[h].file}
  <2> DEFINE p == req[h]
             t == p.token
  <2>1. /\ WellFormed(p) /\ Fits(p) /\ p.op \in Pays
        /\ p.step = "read" /\ p.file # NoFile
    BY <1>1 DEF IndInv, PayAccept, Paying
  <2>2. t \in Tokens /\ t \in Of(p) /\ p.op # "edit"
    BY <1>1, <2>1, FilesAssumption DEF WellFormed, Single, Of, Pays
  <2>3. FitsAt(p, t) /\ Row(t)
    BY <1>1, <2>1, <2>2 DEF IndInv, Fits
  <2>4. Sound(p.file, t) /\ (shown[t] # NoFile => shown[t] = InUse(t))
    BY <1>1, <2>2, <2>3 DEF FitsAt, Row
  <2> QED
    BY <2>1, <2>4 DEF Sound
<1>2. IndInv => \A h \in Handlers :
          PayAccept(h) /\ Kind(req[h].op) = "total" =>
              \/ shown[req[h].token] \in {NoFile, req[h].file}
              \/ req[h].token \in disturbed
  BY <1>1
<1> QED
  BY <1>2, Invariance, PTL DEF PaidAsShown
=============================================================================
