------------------------------ MODULE RateCalc ------------------------------
(***************************************************************************)
(* The rate calculator: a goroutine that, at startup and then once per     *)
(* interval, fetches the candlesticks of two exchanges and appends them to *)
(* a file per month, and the average that is computed from a month's file. *)
(*                                                                         *)
(* Time is counted in intervals of 15 minutes; now is the interval in      *)
(* progress.  Months have one length.  A candlestick is its timestamp:     *)
(* prices only enter the average.  An exchange shows the intervals up to   *)
(* now except its gaps (outages).                                          *)
(***************************************************************************)
EXTENDS Integers, Sequences, FiniteSets, SequencesExt, FiniteSetsExt

CONSTANTS
    NumMonths,      \* bound on time
    MonthLength,    \* intervals per month
    Window,         \* intervals at the start of a month in which the previous
                    \* month is updated as well (the first four days)
    BatchSize,      \* a request to Binance ends this many intervals later (20)
    KrakenLimit,    \* Kraken answers with this many intervals, the latest
    GapChoices      \* bound: the gaps of the exchanges

ASSUME ConstantsAssumption ==
    /\ {NumMonths, MonthLength, Window, BatchSize, KrakenLimit} \subseteq Nat \ {0}
    /\ \A g \in GapChoices : g.dcr \subseteq Nat /\ g.usd \subseteq Nat

VARIABLES
    now,     \* the interval in progress
    gaps,    \* gaps.dcr, gaps.usd: intervals the exchange has no data of
    file,    \* file[m]: the records of month m's file, up to a torn line
    torn,    \* months whose file has a line that does not parse
    job,     \* what the updating goroutine is doing
    \* History variables: no guard reads them.
    settled, \* settled[m]: the interval up to which the last loop over m found
             \* nothing more, or -1
    gone     \* intervals that left Kraken's answers before they were recorded

vars == <<now, gaps, file, torn, job, settled, gone>>

Months    == 1..NumMonths
Intervals == 0..(NumMonths * MonthLength - 1)

\* firstDayOfMonth, and the last interval of a month.
FirstInterval(m) == (m - 1) * MonthLength
LastInterval(m)  == FirstInterval(m + 1) - 1
MonthOf(i) == i \div MonthLength + 1

Candlestick == Intervals
Record == [dcr : Candlestick, usd : Candlestick]

Idle == [step |-> "idle", month |-> 1, previous |-> FALSE, next |-> 0, dcr |-> <<>>, data |-> <<>>]

Job == [step     : {"idle", "read", "dcr", "usd", "write"},
        month    : Months,
        previous : BOOLEAN,            \* the previous month is updated first
        next     : Nat,                \* currIntervalTime
        dcr      : Seq(Candlestick),   \* Binance's answer
        data     : Seq(Record)]        \* what is to be written

Init ==
    /\ now = 0
    /\ gaps \in GapChoices
    /\ file = [m \in Months |-> <<>>]
    /\ torn = {}
    /\ job = Idle
    /\ settled = [m \in Months |-> -1]
    /\ gone = {}

-----------------------------------------------------------------------------
(* The exchanges *)

InOrder(S) ==
    [k \in 1..Cardinality(S) |-> CHOOSE i \in S : Cardinality({j \in S : j < i}) = k - 1]

\* getDCRBTCData: both ends of the range are included.
DCRBTCData(next) == InOrder({i \in next..(next + BatchSize) : i <= now} \ gaps.dcr)

\* getBTCUSDData: everything since next, as far back as the answer goes.
BTCUSDData(next) == InOrder({i \in next..now : i > now - KrakenLimit} \ gaps.usd)

-----------------------------------------------------------------------------
(* The loop over one month: updateCandlestickDataForMonth *)

\* getMostRecentIntervalFromDataFile and the interval to start with.
Recorded(m) == {file[m][k].dcr : k \in DOMAIN file[m]}

\* Mutant: the most recent interval is fetched again.
NextIntervalAgain(m) == IF file[m] = <<>> THEN FirstInterval(m) ELSE Last(file[m]).dcr

NextInterval(m) == IF file[m] = <<>> THEN FirstInterval(m) ELSE Last(file[m]).dcr + 1

\* Mutant: the end of the month is not looked at.
ShouldUpdateAlways(next, m) == next <= now + 1

\* shouldUpdateDataFile, which gets the next interval, not the most recent.
ShouldUpdate(next, m) == next < LastInterval(m) /\ next <= now + 1

\* Mutant: whether the previous month was updated is not asked.
LoopEndsOnward == [Idle EXCEPT !.step = "read", !.month = job.month + 1]

\* The loop over the month ends; after the previous month comes the current.
LoopEnds ==
    IF job.previous THEN [Idle EXCEPT !.step = "read", !.month = job.month + 1] ELSE Idle

\* Mutant: an error does not break the loop.
LoopGoesOn == [Idle EXCEPT !.step = "read", !.month = job.month, !.previous = job.previous]

LoopFails == LoopEnds

\* Nothing more is found: month m's file holds what there was up to interval i.
Settle(i) == settled' = [settled EXCEPT ![job.month] = i]

\* updateCandlestickData starts: at startup or on a tick.
StartUpdate ==
    /\ job.step = "idle"
    /\ LET m == MonthOf(now)
           previous == m > 1 /\ now < FirstInterval(m) + Window
       IN job' = [Idle EXCEPT !.step = "read", !.previous = previous,
                              !.month = IF previous THEN m - 1 ELSE m]
    /\ UNCHANGED <<now, gaps, file, torn, settled, gone>>

\* The file is read, unless it is torn.  The previous month's is only
\* continued, not started.
ReadFile ==
    LET m == job.month
        ignored == job.previous /\ file[m] = <<>>
    IN
    /\ job.step = "read" /\ m \notin torn
    /\ IF ~ignored /\ ShouldUpdate(NextInterval(m), m)
       THEN /\ job' = [job EXCEPT !.step = "dcr", !.next = NextInterval(m)]
            /\ UNCHANGED settled
       ELSE /\ job' = LoopEnds
            /\ IF ignored THEN UNCHANGED settled ELSE Settle(now)
    /\ UNCHANGED <<now, gaps, file, torn, gone>>

FetchDCRBTC ==
    /\ job.step = "dcr"
    /\ LET dcr == DCRBTCData(job.next) IN
       IF dcr = <<>>
       THEN job' = LoopEnds /\ Settle(now)
       ELSE job' = [job EXCEPT !.step = "usd", !.dcr = dcr] /\ UNCHANGED settled
    /\ UNCHANGED <<now, gaps, file, torn, gone>>

\* getDataIndices: the positions of the first timestamp that both have, not
\* before next.
DataIndices(next, dcr, usd) ==
    {p \in (DOMAIN dcr) \X (DOMAIN usd) :
        /\ dcr[p[1]] = usd[p[2]] /\ dcr[p[1]] >= next
        /\ \A k \in 1..(p[1] - 1) : dcr[k] < next \/ \A l \in DOMAIN usd : dcr[k] # usd[l]}

\* Mutant: the first common pair is skipped.
FetchedDataSkips(next, dcr, usd) ==
    IF DataIndices(next, dcr, usd) = {} THEN <<>>
    ELSE LET at == CHOOSE p \in DataIndices(next, dcr, usd) : TRUE
             n  == Min({Len(dcr) - at[1], Len(usd) - at[2]})
         IN [k \in 1..n |-> [dcr |-> dcr[at[1] + k], usd |-> usd[at[2] + k]]]

\* Mutant: the two series are paired from their beginnings.
FetchedDataUnaligned(next, dcr, usd) ==
    [k \in 1..Min({Len(dcr), Len(usd)}) |-> [dcr |-> dcr[k], usd |-> usd[k]]]

\* The rest of fetchData: from there on the two series are paired by position.
FetchedData(next, dcr, usd) ==
    IF DataIndices(next, dcr, usd) = {} THEN <<>>
    ELSE LET at == CHOOSE p \in DataIndices(next, dcr, usd) : TRUE
             n  == Min({Len(dcr) - at[1], Len(usd) - at[2]}) + 1
         IN [k \in 1..n |-> [dcr |-> dcr[at[1] + k - 1], usd |-> usd[at[2] + k - 1]]]

FetchBTCUSD ==
    /\ job.step = "usd"
    /\ LET data == FetchedData(job.next, job.dcr, BTCUSDData(job.next)) IN
       IF data = <<>>
       THEN job' = LoopEnds /\ Settle(Last(job.dcr))
       ELSE job' = [job EXCEPT !.step = "write", !.dcr = <<>>, !.data = data] /\ UNCHANGED settled
    /\ UNCHANGED <<now, gaps, file, torn, gone>>

\* addDataToFile; then the loop goes on, for what was fetched is not in the
\* future.
AddDataToFile ==
    /\ job.step = "write"
    /\ file' = [file EXCEPT ![job.month] = @ \o job.data]
    /\ job' = [job EXCEPT !.step = "read", !.next = 0, !.data = <<>>]
    /\ UNCHANGED <<now, gaps, torn, settled, gone>>

\* The buffered records are written when the file is closed, and nobody
\* looks at the error: some or all are lost, a line may be torn, and the loop
\* goes on.  (Left out: a line cut within its last field still parses, until
\* the next batch is appended to it.)
WritePartly ==
    /\ job.step = "write"
    /\ \E n \in 0..(Len(job.data) - 1) :
           file' = [file EXCEPT ![job.month] = @ \o SubSeq(job.data, 1, n)]
    /\ torn' \in {torn, torn \cup {job.month}}
    /\ job' = [job EXCEPT !.step = "read", !.next = 0, !.data = <<>>]
    /\ UNCHANGED <<now, gaps, settled, gone>>

\* A request or a file operation returns an error, reading a torn file too:
\* the loop is left.
Fail ==
    /\ job.step # "idle"
    /\ job' = LoopFails
    /\ UNCHANGED <<now, gaps, file, torn, settled, gone>>

\* The server stops; until the next StartUpdate it is down.
Crash ==
    /\ job.step # "idle"
    /\ job' = Idle
    /\ UNCHANGED <<now, gaps, file, torn, settled, gone>>

Tick ==
    /\ now + 1 \in Intervals
    /\ now' = now + 1
    /\ gone' = gone \cup {i \in {now' - KrakenLimit} \cap Intervals : i \notin Recorded(MonthOf(i))}
    /\ UNCHANGED <<gaps, file, torn, job, settled>>

UpdateStep == ReadFile \/ FetchDCRBTC \/ FetchBTCUSD \/ AddDataToFile \/ WritePartly \/ Fail

Next == StartUpdate \/ UpdateStep \/ Crash \/ Tick

Spec == Init /\ [][Next]_vars

\* The goroutine runs on, and a disk takes the records some time.  That it
\* is started, that time passes and that requests succeed is not assumed.
FairSpec == Spec /\ WF_vars(UpdateStep) /\ SF_vars(AddDataToFile)

-----------------------------------------------------------------------------
(* The average of a month: CalculateRateForMonth *)

\* monthStartTime - monthEndTime: the code's number is negative.
NumIntervalsInMonth(m) == FirstInterval(m) - FirstInterval(m + 1)

\* Mutant: the last record is compared with the next month's first interval.
IsDataMissingLate(m) ==
    LET n == Len(file[m]) IN
    \/ file[m][1].dcr > FirstInterval(m) + 1
    \/ n > 1 /\ file[m][n].dcr <= LastInterval(m)
    \/ n < NumIntervalsInMonth(m)

\* What the reply's IsDataMissing is, for a file that is neither empty nor torn.
IsDataMissing(m) ==
    LET n == Len(file[m]) IN
    \/ file[m][1].dcr > FirstInterval(m) + 1
    \/ n > 1 /\ file[m][n].dcr < LastInterval(m)
    \/ n < NumIntervalsInMonth(m)

\* The records the average of month m is taken over.
RateForMonth(m) == {file[m][k] : k \in DOMAIN file[m]}

-----------------------------------------------------------------------------
(* Properties *)

TypeOK ==
    /\ now \in Intervals
    /\ gaps \in GapChoices
    /\ file \in [Months -> Seq(Record)]
    /\ torn \subseteq Months
    /\ job \in Job
    /\ settled \in [Months -> Intervals \cup {-1}]
    /\ gone \subseteq Intervals

\* No interval enters an average twice, through failed, lost and torn writes,
\* crashes and the months' overlapping updates: a file's records ascend.
IntervalsAscend ==
    \A m \in Months : \A j, k \in DOMAIN file[m] : j < k => file[m][j].dcr < file[m][k].dcr

\* A month's average takes in what follows the month in its last batch (the
\* request is not cut at the month's end), but no more than that: the file
\* is never continued in the next month.
OneOvershoot ==
    \A m \in Months : \A r \in RateForMonth(m) : FirstInterval(m) <= r.dcr /\ r.dcr < LastInterval(m) + BatchSize

\* The two prices that are multiplied are of the same interval, unless an
\* exchange has a gap within the batch: the next batch is aligned again.
PairsAligned ==
    \A m \in Months : \A r \in RateForMonth(m) :
        r.dcr # r.usd =>
            \E g \in gaps.dcr \cup gaps.usd :
                Min({r.dcr, r.usd}) - BatchSize <= g /\ g < Max({r.dcr, r.usd})

\* Nothing between s and s + BatchSize can be had: the update is stuck there.
StuckAt(s) == s..(s + BatchSize) \subseteq gaps.dcr \cup gaps.usd \cup gone

\* When a loop over a month found nothing more to do, every interval of the
\* month that had begun is recorded, after a downtime too, except for the
\* month's last one, those with a gap, those that Kraken no longer had, and
\* what comes after so many of them that a batch is empty.
CaughtUp ==
    \A m \in Months : \A i \in FirstInterval(m)..(LastInterval(m) - 1) :
        (i <= settled[m] /\ i \notin gaps.dcr \cup gaps.usd \cup gone)
            => \/ i \in Recorded(m)
               \/ \E s \in FirstInterval(m)..i : StuckAt(s)

\* The reply says that data is missing only when an interval is missing.
\* (The converse fails: the number of intervals is negative, so a hole in
\* the middle, or a file of one record, goes unnoticed.)
MissingIsMissing ==
    \A m \in Months \ torn :
        file[m] # <<>> /\ IsDataMissing(m) => ~(FirstInterval(m)..LastInterval(m) \subseteq Recorded(m))

\* Every update ends, although it is repeated until nothing more is found:
\* each repetition moves on or breaks off.
UpdateEnds == (job.step # "idle") ~> (job.step = "idle")
=============================================================================
