--------------------------- MODULE RateCalcProofs ---------------------------
(***************************************************************************)
(* Proofs about RateCalc, for any number and length of months, any limits  *)
(* of the exchanges' answers and any gaps.                                 *)
(***************************************************************************)
EXTENDS RateCalc, FiniteSetTheorems, SequenceTheorems, TLAPS

-----------------------------------------------------------------------------
(* The inductive invariant *)

\* Intervals that need not be recorded.
Missed == gaps.dcr \cup gaps.usd \cup gone

\* What Kraken no longer has is recorded or known to be gone.
Followed == \A i \in Intervals : i <= now - KrakenLimit => i \in gone \cup Recorded(MonthOf(i))

Rising(records) == \A j, k \in DOMAIN records : j < k => records[j].dcr < records[k].dcr

\* The two intervals of a record are one, but for a gap close by.
Paired(r) ==
    r.dcr # r.usd =>
        \E g \in gaps.dcr \cup gaps.usd : Min({r.dcr, r.usd}) - BatchSize <= g /\ g < Max({r.dcr, r.usd})

\* Month m's file ascends, and has nothing left out before its end.
Sound(m) ==
    /\ Rising(file[m])
    /\ \A k \in DOMAIN file[m] :
           /\ FirstInterval(m) <= file[m][k].dcr
           /\ file[m][k].dcr < LastInterval(m) + BatchSize
           /\ Paired(file[m][k])
    /\ \A i \in FirstInterval(m)..LastInterval(m) :
           i < NextInterval(m) => i \in Recorded(m) \cup Missed

\* What Binance answered: dcr has what there was until interval n.
DCRBTCAt(next, n, dcr) ==
    dcr = InOrder({i \in next..(next + BatchSize) : i <= n} \ gaps.dcr)

\* The records of data continue month m's file from next.
Continues(m, next, data) ==
    /\ data # <<>>
    /\ Rising(data)
    /\ \A k \in DOMAIN data :
           next <= data[k].dcr /\ data[k].dcr <= next + BatchSize /\ Paired(data[k])
    /\ \A i \in FirstInterval(m)..LastInterval(m) :
           next <= i /\ i <= Last(data).dcr =>
               i \in {data[k].dcr : k \in DOMAIN data} \cup Recorded(m) \cup Missed

\* The updating goroutine.
Updating ==
    /\ job.previous => job.month + 1 \in Months
    /\ job.step \in {"dcr", "usd", "write"} =>
           /\ job.next = NextInterval(job.month)
           /\ job.next < LastInterval(job.month)
    /\ job.step = "usd" => job.dcr # <<>> /\ \E n \in 0..now : DCRBTCAt(job.next, n, job.dcr)
    /\ job.step = "write" => Continues(job.month, job.next, job.data)

\* What CaughtUp says of month m.
Caught(m) ==
    \A i \in FirstInterval(m)..(LastInterval(m) - 1) :
        (i <= settled[m] /\ i \notin Missed)
            => \/ i \in Recorded(m)
               \/ \E s \in FirstInterval(m)..i : StuckAt(s)

IndInv ==
    /\ TypeOK
    /\ Followed
    /\ \A m \in Months : Sound(m) /\ Caught(m)
    /\ Updating

-----------------------------------------------------------------------------
(* Months *)

\* A set of numbers has a least one.
LEMMA Least ==
    ASSUME NEW S \in SUBSET Nat, S # {}
    PROVE  \E n \in S : \A k \in S : n <= k
<1>1. PICK n \in S : \A k \in S : ~(<<k, n>> \in OpToRel(<, Nat))
  BY WFMin, NatLessThanWellFounded
<1>2. \A k \in S : ~(k < n)
  BY <1>1 DEF OpToRel
<1> QED
  BY <1>2

LEMMA Parameters ==
    /\ NumMonths \in Nat /\ NumMonths >= 1
    /\ MonthLength \in Nat /\ MonthLength >= 1
    /\ Window \in Nat /\ Window >= 1
    /\ BatchSize \in Nat /\ BatchSize >= 1
    /\ KrakenLimit \in Nat /\ KrakenLimit >= 1
  BY ConstantsAssumption

\* Months follow each other.
LEMMA MonthBounds ==
    ASSUME NEW m \in Nat, m >= 1
    PROVE  /\ FirstInterval(m) \in Nat
           /\ FirstInterval(m + 1) = FirstInterval(m) + MonthLength
           /\ LastInterval(m) = FirstInterval(m) + MonthLength - 1
           /\ LastInterval(m) \in Nat
           /\ FirstInterval(m) <= LastInterval(m)
<1>1. MonthLength \in Nat /\ MonthLength >= 1
  BY Parameters
<1>2. (m - 1) * MonthLength \in Nat
  BY <1>1
<1>3. ((m + 1) - 1) * MonthLength = (m - 1) * MonthLength + MonthLength
  BY <1>1
<1> QED
  BY <1>1, <1>2, <1>3 DEF FirstInterval, LastInterval

LEMMA MonthsEnd ==
    ASSUME NEW m \in Months
    PROVE  LastInterval(m) <= NumMonths * MonthLength - 1
<1>1. MonthLength \in Nat /\ NumMonths \in Nat /\ m \in Nat /\ 1 <= m /\ m <= NumMonths
  BY Parameters DEF Months
<1>2. m * MonthLength <= NumMonths * MonthLength
  BY <1>1
<1>3. FirstInterval(m + 1) = m * MonthLength
  BY <1>1 DEF FirstInterval
<1> QED
  BY <1>1, <1>2, <1>3 DEF LastInterval

LEMMA IntervalsAre ==
    /\ Intervals \subseteq Nat
    /\ 0 \in Intervals
    /\ \A i \in Intervals : \A j \in Nat : j <= i => j \in Intervals
<1>1. NumMonths * MonthLength \in Nat /\ NumMonths * MonthLength >= 1
  BY Parameters
<1> QED
  BY <1>1 DEF Intervals

\* The month of an interval.
LEMMA MonthIsOf ==
    ASSUME NEW i \in Intervals
    PROVE  /\ MonthOf(i) \in Months
           /\ FirstInterval(MonthOf(i)) <= i
           /\ i <= LastInterval(MonthOf(i))
  BY Parameters DEF Intervals, MonthOf, Months, FirstInterval, LastInterval

LEMMA MonthIs ==
    ASSUME NEW m \in Months, NEW i \in FirstInterval(m)..LastInterval(m)
    PROVE  i \in Intervals /\ MonthOf(i) = m
  BY Parameters DEF Intervals, MonthOf, Months, FirstInterval, LastInterval

-----------------------------------------------------------------------------
(* The candlesticks of an exchange, in order *)

Climbing(s) == \A j, k \in DOMAIN s : j < k => s[j] < s[k]

\* How many elements of S are less than i.
Rank(S, i) == Cardinality({j \in S : j < i})

LEMMA Ranks ==
    ASSUME NEW S \in SUBSET Nat, IsFiniteSet(S)
    PROVE  /\ Cardinality(S) \in Nat
           /\ \A i \in S : Rank(S, i) \in 0..(Cardinality(S) - 1)
           /\ \A i, j \in S : i < j => Rank(S, i) < Rank(S, j)
           /\ \A k \in 1..Cardinality(S) : \E i \in S : Rank(S, i) = k - 1
<1>1. Cardinality(S) \in Nat
  BY FS_CardinalityType
<1>2. ASSUME NEW i \in S PROVE Rank(S, i) \in 0..(Cardinality(S) - 1)
  <2> DEFINE L == {j \in S : j < i}
  <2>1. L \in SUBSET S /\ i \notin L
    OBVIOUS
  <2>2. IsFiniteSet(L) /\ Cardinality(L) <= Cardinality(S) /\ Cardinality(L) # Cardinality(S)
    BY <2>1, FS_Subset
  <2>3. Cardinality(L) \in Nat
    BY <2>2, FS_CardinalityType
  <2> QED
    BY <1>1, <2>2, <2>3 DEF Rank
<1>3. ASSUME NEW i \in S, NEW j \in S, i < j PROVE Rank(S, i) < Rank(S, j)
  <2> DEFINE L == {k \in S : k < i}
             M == {k \in S : k < j}
  <2>1. M \in SUBSET S
    OBVIOUS
  <2>2. IsFiniteSet(M)
    BY <2>1, FS_Subset
  <2>3. L \in SUBSET M /\ i \in M /\ i \notin L
    <3>1. \A k \in S : k \in Nat
      OBVIOUS
    <3>2. \A k \in S : k < i => k < j
      BY <1>3, <3>1
    <3>3. i \in M /\ i \notin L
      BY <1>3, <3>1
    <3> QED
      BY <3>2, <3>3
  <2>4. IsFiniteSet(L) /\ Cardinality(L) <= Cardinality(M) /\ Cardinality(L) # Cardinality(M)
    BY <2>2, <2>3, FS_Subset
  <2>5. Cardinality(L) \in Nat /\ Cardinality(M) \in Nat
    BY <2>2, <2>4, FS_CardinalityType
  <2> QED
    BY <2>4, <2>5 DEF Rank
<1>4. ASSUME NEW k \in 1..Cardinality(S) PROVE \E i \in S : Rank(S, i) = k - 1
  <2> DEFINE T == 0..(Cardinality(S) - 1)
             f == [i \in S |-> Rank(S, i)]
  <2>1. IsFiniteSet(T) /\ Cardinality(T) = Cardinality(S)
    <3>1. PICK b \in Int : b = Cardinality(S) - 1
      BY <1>1
    <3>2. IsFiniteSet(0..b) /\ Cardinality(0..b) = IF 0 > b THEN 0 ELSE b - 0 + 1
      BY ONLY FS_Interval, b \in Int
    <3>3. Cardinality(0..b) = b + 1
      BY <1>1, <3>1, <3>2
    <3> QED
      BY <1>1, <3>1, <3>2, <3>3
  <2>2. f \in [S -> T]
    BY <1>2
  <2>3. \A i, j \in S : f[i] = f[j] => i = j
    <3>1. ASSUME NEW i \in S, NEW j \in S, f[i] = f[j] PROVE i = j
      <4>1. Rank(S, i) = Rank(S, j) /\ Rank(S, i) \in Int
        BY <1>1, <1>2, <3>1
      <4>2. ~(i < j) /\ ~(j < i)
        BY <1>1, <1>2, <1>3, <4>1
      <4> QED
        BY <4>2
    <3> QED
      BY <3>1
  <2>4. f \in Injection(S, T)
    BY <2>2, <2>3 DEF Injection, IsInjective
  <2>5. f \in Surjection(S, T)
    BY ONLY <2>1, <2>4, FS_Injection
  <2>6. k - 1 \in T
    BY <1>1
  <2>7. PICK i \in S : f[i] = k - 1
    BY <2>5, <2>6 DEF Surjection
  <2> QED
    BY <2>7
<1> QED
  BY <1>1, <1>2, <1>3, <1>4

\* InOrder lists a set in ascending order.
LEMMA InOrderIs ==
    ASSUME NEW T, T \subseteq Nat, NEW S \in SUBSET T, IsFiniteSet(S)
    PROVE  /\ InOrder(S) \in Seq(T)
           /\ Climbing(InOrder(S))
           /\ \A k \in DOMAIN InOrder(S) : InOrder(S)[k] \in S
           /\ \A i \in S : \E k \in DOMAIN InOrder(S) : InOrder(S)[k] = i
<1> DEFINE n == Cardinality(S)
           s == InOrder(S)
<1>1. /\ n \in Nat
      /\ \A i \in S : Rank(S, i) \in 0..(n - 1)
      /\ \A i, j \in S : i < j => Rank(S, i) < Rank(S, j)
      /\ \A k \in 1..n : \E i \in S : Rank(S, i) = k - 1
  <2>1. S \in SUBSET Nat
    OBVIOUS
  <2> HIDE DEF n
  <2> QED
    BY <2>1, Ranks DEF n
<1>2. s = [k \in 1..n |-> CHOOSE i \in S : Rank(S, i) = k - 1]
  BY DEF InOrder, Rank
<1>3. DOMAIN s = 1..n
  BY <1>2
<1>4. ASSUME NEW k \in 1..n PROVE s[k] \in S /\ Rank(S, s[k]) = k - 1
  <2>1. s[k] = CHOOSE i \in S : Rank(S, i) = k - 1
    BY <1>2
  <2>2. \E i \in S : Rank(S, i) = k - 1
    BY <1>1
  <2> HIDE DEF s, n
  <2> QED
    BY <2>1, <2>2
<1> HIDE DEF s, n
<1>5. s \in Seq(T)
  <2>1. s \in [1..n -> T]
    BY <1>2, <1>4
  <2> QED
    BY <1>1, <2>1
<1>6. ASSUME NEW j \in 1..n, NEW k \in 1..n, j < k PROVE s[j] < s[k]
  <2>1. s[j] \in S /\ s[k] \in S /\ Rank(S, s[j]) = j - 1 /\ Rank(S, s[k]) = k - 1
    BY <1>4
  <2>2. s[j] \in Nat /\ s[k] \in Nat
    BY <2>1
  <2>3. ~(s[k] < s[j])
    <3>1. s[k] < s[j] => k - 1 < j - 1
      BY <1>1, <2>1
    <3> QED
      BY <1>6, <3>1
  <2>4. s[j] # s[k]
    BY <1>1, <1>6, <2>1
  <2> QED
    BY <2>2, <2>3, <2>4
<1>7. ASSUME NEW i \in S PROVE \E k \in 1..n : s[k] = i
  <2>1. PICK k \in 1..n : k = Rank(S, i) + 1
    BY <1>1
  <2>2. PICK j \in S : j = s[k] /\ Rank(S, j) = Rank(S, i)
    <3>1. s[k] \in S /\ Rank(S, s[k]) = k - 1
      BY <1>4
    <3>2. Rank(S, i) \in Nat
      BY <1>1
    <3>3. k - 1 = Rank(S, i)
      BY <2>1, <3>2
    <3> QED
      BY <3>1, <3>3
  <2>3. j \in Nat /\ i \in Nat
    OBVIOUS
  <2>4. Rank(S, i) \in Nat
    BY <1>1
  <2>5. ~(j < i)
    BY <1>1, <2>2, <2>4
  <2>6. ~(i < j)
    BY <1>1, <2>2, <2>4
  <2> QED
    BY <2>2, <2>3, <2>5, <2>6
<1> QED
  BY <1>3, <1>4, <1>5, <1>6, <1>7 DEF Climbing, s

-----------------------------------------------------------------------------
(* What the exchanges answer *)

\* Binance's answer for next, at interval n.
DCRShown(next, n, dcr) ==
    /\ dcr \in Seq(Candlestick)
    /\ Climbing(dcr)
    /\ \A k \in DOMAIN dcr : next <= dcr[k] /\ dcr[k] <= next + BatchSize /\ dcr[k] <= n
    /\ \A i \in Intervals :
           next <= i /\ i <= next + BatchSize /\ i <= n =>
               i \in gaps.dcr \/ \E k \in DOMAIN dcr : dcr[k] = i

\* Kraken's answer for next.
USDShown(next, usd) ==
    /\ usd \in Seq(Candlestick)
    /\ Climbing(usd)
    /\ \A k \in DOMAIN usd : next <= usd[k] /\ now - KrakenLimit < usd[k]
    /\ \A i \in Intervals :
           next <= i /\ now - KrakenLimit < i /\ i <= now =>
               i \in gaps.usd \/ \E k \in DOMAIN usd : usd[k] = i

LEMMA DCRAnswer ==
    ASSUME NEW next \in Nat, NEW n \in Intervals, NEW dcr, DCRBTCAt(next, n, dcr)
    PROVE  DCRShown(next, n, dcr)
<1> DEFINE S == {i \in next..(next + BatchSize) : i <= n} \ gaps.dcr
<1>1. BatchSize \in Nat /\ n \in Nat
  BY Parameters, IntervalsAre
<1>2. S \in SUBSET Intervals
  BY <1>1, IntervalsAre
<1>3. IsFiniteSet(S)
  <2>1. PICK b \in Int : b = next + BatchSize
    BY <1>1
  <2>2. IsFiniteSet(next..b)
    BY ONLY FS_Interval, b \in Int, next \in Nat
  <2>3. S \in SUBSET (next..b)
    BY <2>1
  <2> QED
    BY <2>2, <2>3, FS_Subset
<1>4. dcr = InOrder(S)
  BY DEF DCRBTCAt
<1>5. \A i \in S : next <= i /\ i <= next + BatchSize /\ i <= n
  BY <1>1
<1>6. \A i \in Intervals : next <= i /\ i <= next + BatchSize /\ i <= n => i \in gaps.dcr \/ i \in S
  BY <1>1, IntervalsAre
<1> HIDE DEF S
<1>7. /\ dcr \in Seq(Intervals)
      /\ Climbing(dcr)
      /\ \A k \in DOMAIN dcr : dcr[k] \in S
      /\ \A i \in S : \E k \in DOMAIN dcr : dcr[k] = i
  BY <1>2, <1>3, <1>4, IntervalsAre, InOrderIs
<1> QED
  BY <1>5, <1>6, <1>7 DEF DCRShown, Candlestick

LEMMA USDAnswer ==
    ASSUME NEW next \in Nat, now \in Intervals
    PROVE  USDShown(next, BTCUSDData(next))
<1> DEFINE S == {i \in next..now : i > now - KrakenLimit} \ gaps.usd
           usd == BTCUSDData(next)
<1>1. KrakenLimit \in Nat /\ now \in Nat
  BY Parameters, IntervalsAre
<1>2. S \in SUBSET Intervals
  BY <1>1, IntervalsAre
<1>3. IsFiniteSet(S)
  <2>1. IsFiniteSet(next..now)
    BY <1>1, FS_Interval
  <2>2. S \in SUBSET (next..now)
    OBVIOUS
  <2> QED
    BY <2>1, <2>2, FS_Subset
<1>4. usd = InOrder(S)
  BY DEF BTCUSDData
<1>5. \A i \in S : next <= i /\ now - KrakenLimit < i
  BY <1>1
<1>6. \A i \in Intervals : next <= i /\ now - KrakenLimit < i /\ i <= now => i \in gaps.usd \/ i \in S
  BY <1>1, IntervalsAre
<1> HIDE DEF S, usd
<1>7. /\ usd \in Seq(Intervals)
      /\ Climbing(usd)
      /\ \A k \in DOMAIN usd : usd[k] \in S
      /\ \A i \in S : \E k \in DOMAIN usd : usd[k] = i
  BY <1>2, <1>3, <1>4, IntervalsAre, InOrderIs
<1>8. USDShown(next, usd)
  BY <1>5, <1>6, <1>7 DEF USDShown, Candlestick
<1> QED
  BY <1>8 DEF usd

\* A sequence that climbs has nothing between two elements that follow each
\* other, and does not go down.
LEMMA Climbs ==
    ASSUME NEW s \in Seq(Candlestick), Climbing(s)
    PROVE  /\ \A k \in DOMAIN s : s[k] \in Nat /\ k \in Nat
           /\ \A j, k \in DOMAIN s : j <= k => s[j] <= s[k]
           /\ \A j, k \in DOMAIN s : s[j] < s[k] => j < k
           /\ \A i, j, k \in DOMAIN s : k = i + 1 => ~(s[i] < s[j] /\ s[j] < s[k])
<1>1. \A k \in DOMAIN s : s[k] \in Nat /\ k \in Nat
  <2>1. \A k \in DOMAIN s : s[k] \in Candlestick /\ k \in Nat
    OBVIOUS
  <2> QED
    BY <2>1, IntervalsAre DEF Candlestick
<1>2. ASSUME NEW j \in DOMAIN s, NEW k \in DOMAIN s, j <= k PROVE s[j] <= s[k]
  <2>1. CASE j = k
    BY <1>1, <2>1
  <2>2. CASE j < k
    BY <1>1, <2>2 DEF Climbing
  <2> QED
    BY <1>1, <1>2, <2>1, <2>2
<1>3. ASSUME NEW j \in DOMAIN s, NEW k \in DOMAIN s, s[j] < s[k] PROVE j < k
  <2>1. ~(k <= j)
    BY <1>1, <1>2, <1>3
  <2> QED
    BY <1>1, <2>1
<1>4. ASSUME NEW i \in DOMAIN s, NEW j \in DOMAIN s, NEW k \in DOMAIN s, k = i + 1,
             s[i] < s[j], s[j] < s[k]
      PROVE  FALSE
  BY <1>1, <1>3, <1>4
<1> QED
  BY <1>1, <1>2, <1>3, <1>4

LEMMA Between ==
    ASSUME NEW a \in Nat, NEW e \in Nat, NEW d \in Nat, d = e + 1,
           NEW l \in Nat, d <= l, NEW v \in Nat, 1 <= a, a + l <= v
    PROVE  a + e \in 1..v /\ a + d \in 1..v
  OBVIOUS

\* From a common interval on, the two answers have the same intervals, until
\* one of them has a gap.
LEMMA PairsAt ==
    ASSUME NEW next \in Nat, NEW n \in Intervals, now \in Intervals, n <= now,
           NEW dcr, DCRShown(next, n, dcr), NEW usd, USDShown(next, usd),
           NEW a \in DOMAIN dcr, NEW b \in DOMAIN usd, dcr[a] = usd[b],
           NEW l \in Nat, a + l \in DOMAIN dcr, b + l \in DOMAIN usd, dcr[a + l] # usd[b + l]
    PROVE  \E g \in gaps.dcr \cup gaps.usd : next <= g /\ g <= dcr[a + l] /\ g <= usd[b + l]
<1>1. /\ dcr \in Seq(Candlestick) /\ Climbing(dcr)
      /\ usd \in Seq(Candlestick) /\ Climbing(usd)
  BY DEF DCRShown, USDShown
<1>2. /\ \A k \in DOMAIN dcr : dcr[k] \in Intervals /\ dcr[k] \in Nat
      /\ \A k \in DOMAIN usd : usd[k] \in Intervals /\ usd[k] \in Nat
      /\ now \in Nat /\ n \in Nat /\ BatchSize \in Nat /\ KrakenLimit \in Nat
      /\ a \in Nat /\ b \in Nat
  <2>1. /\ \A k \in DOMAIN dcr : dcr[k] \in Candlestick
        /\ \A k \in DOMAIN usd : usd[k] \in Candlestick
        /\ a \in Nat /\ b \in Nat
    BY <1>1
  <2> QED
    BY <2>1, IntervalsAre, Parameters DEF Candlestick
<1>3. PICK d \in Nat :
          /\ d <= l /\ dcr[a + d] # usd[b + d]
          /\ \A k \in Nat : k < d => dcr[a + k] = usd[b + k]
  <2> DEFINE D == {k \in Nat : k <= l /\ dcr[a + k] # usd[b + k]}
  <2>1. D \in SUBSET Nat /\ D # {}
    <3>1. l \in D
      OBVIOUS
    <3> QED
      BY <3>1
  <2>2. PICK d \in D : \A k \in D : d <= k
    BY <2>1, Least
  <2>3. ASSUME NEW k \in Nat, k < d PROVE dcr[a + k] = usd[b + k]
    <3>1. k <= l /\ k \notin D
      BY <2>2, <2>3
    <3> QED
      BY <3>1
  <2> QED
    BY <2>3
<1>4. d # 0
  BY <1>2, <1>3
<1>5. PICK e \in Nat : d = e + 1
  BY <1>4
<1>6. dcr[a + e] = usd[b + e]
  BY <1>3, <1>5
<1>7. /\ a + e \in DOMAIN dcr /\ a + d \in DOMAIN dcr
      /\ b + e \in DOMAIN usd /\ b + d \in DOMAIN usd
  <2>1. DOMAIN dcr = 1..Len(dcr) /\ DOMAIN usd = 1..Len(usd) /\ Len(dcr) \in Nat /\ Len(usd) \in Nat
    BY <1>1
  <2> QED
    <3>1. /\ 1 <= a /\ a + l <= Len(dcr) /\ 1 <= b /\ b + l <= Len(usd)
      BY <2>1
    <3>2. /\ a + e \in 1..Len(dcr) /\ a + d \in 1..Len(dcr)
          /\ b + e \in 1..Len(usd) /\ b + d \in 1..Len(usd)
      <4>1. a \in Nat /\ b \in Nat /\ d <= l
        BY <1>2, <1>3
      <4>2. PICK v \in Nat, w \in Nat : v = Len(dcr) /\ w = Len(usd)
        BY <2>1
      <4>3. a + e \in 1..v /\ a + d \in 1..v
        BY <1>5, <3>1, <4>1, <4>2, Between
      <4>4. b + e \in 1..w /\ b + d \in 1..w
        BY <1>5, <3>1, <4>1, <4>2, Between
      <4> QED
        BY <4>2, <4>3, <4>4
    <3> QED
      BY <2>1, <3>2
<1>8. PICK x \in Intervals : x = dcr[a + d]
  BY <1>2, <1>7
<1>9. PICK y \in Intervals : y = usd[b + d]
  BY <1>2, <1>7
<1>10. x \in Nat /\ y \in Nat /\ x # y
  BY <1>3, <1>8, <1>9, IntervalsAre
<1>11. PICK c \in Intervals : c = dcr[a + e]
  BY <1>2, <1>7
<1>12. c < x /\ c < y /\ c \in Nat
  <2>1. a + e < a + d /\ b + e < b + d
    BY <1>2, <1>5
  <2>2. dcr[a + e] < dcr[a + d] /\ usd[b + e] < usd[b + d]
    BY <1>1, <1>7, <2>1 DEF Climbing
  <2> QED
    BY <1>6, <1>8, <1>9, <1>11, <2>2, IntervalsAre
<1>13. next <= x /\ x <= next + BatchSize /\ x <= n /\ next <= y /\ now - KrakenLimit < c
  BY <1>6, <1>7, <1>8, <1>9, <1>11 DEF DCRShown, USDShown
<1>14. x <= dcr[a + l] /\ y <= usd[b + l]
  <2>1. a + d <= a + l /\ b + d <= b + l
    BY <1>2, <1>3
  <2> QED
    BY <1>1, <1>7, <1>8, <1>9, <2>1, Climbs
<1>15. CASE x < y
  <2>1. \A k \in DOMAIN usd : usd[k] # x
    <3>1. b + d = (b + e) + 1
      BY <1>2, <1>5
    <3>2. \A k \in DOMAIN usd : ~(usd[b + e] < usd[k] /\ usd[k] < usd[b + d])
      BY <1>1, <1>7, <3>1, Climbs
    <3> QED
      BY <1>6, <1>9, <1>11, <1>12, <1>15, <3>2
  <2>2. now - KrakenLimit < x /\ x <= now
    BY <1>2, <1>10, <1>12, <1>13
  <2>3. x \in gaps.usd
    BY <1>13, <2>1, <2>2 DEF USDShown
  <2>4. x <= usd[b + l]
    BY <1>2, <1>10, <1>14, <1>15
  <2> QED
    BY <1>13, <1>14, <2>3, <2>4
<1>16. CASE y < x
  <2>1. \A k \in DOMAIN dcr : dcr[k] # y
    <3>1. a + d = (a + e) + 1
      BY <1>2, <1>5
    <3>2. \A k \in DOMAIN dcr : ~(dcr[a + e] < dcr[k] /\ dcr[k] < dcr[a + d])
      BY <1>1, <1>7, <3>1, Climbs
    <3> QED
      BY <1>8, <1>11, <1>12, <1>16, <3>2
  <2>2. y <= next + BatchSize /\ y <= n
    BY <1>2, <1>10, <1>13, <1>16
  <2>3. y \in gaps.dcr
    BY <1>13, <2>1, <2>2 DEF DCRShown
  <2>4. y <= dcr[a + l]
    BY <1>2, <1>10, <1>14, <1>16
  <2> QED
    BY <1>13, <1>14, <2>3, <2>4
<1> QED
  BY <1>10, <1>15, <1>16

-----------------------------------------------------------------------------
(* What is made of the two answers *)

LEMMA MinOf ==
    ASSUME NEW x \in Int, NEW y \in Int
    PROVE  Min({x, y}) \in {x, y} /\ Min({x, y}) <= x /\ Min({x, y}) <= y
<1>1. \E z \in {x, y} : \A w \in {x, y} : z <= w
  BY x <= y \/ y <= x
<1> QED
  BY <1>1 DEF Min

LEMMA MaxOf ==
    ASSUME NEW x \in Int, NEW y \in Int
    PROVE  Max({x, y}) \in {x, y} /\ Max({x, y}) >= x /\ Max({x, y}) >= y
<1>1. \E z \in {x, y} : \A w \in {x, y} : z >= w
  BY x <= y \/ y <= x
<1> QED
  BY <1>1 DEF Max

\* A gap after the batch's start and not after either interval pairs a record.
LEMMA PairedBy ==
    ASSUME NEW next \in Nat, NEW r \in Record, r.dcr <= next + BatchSize,
           gaps.dcr \subseteq Nat, gaps.usd \subseteq Nat,
           r.dcr # r.usd => \E g \in gaps.dcr \cup gaps.usd : next <= g /\ g <= r.dcr /\ g <= r.usd
    PROVE  Paired(r)
<1>1. r.dcr \in Nat /\ r.usd \in Nat /\ BatchSize \in Nat
  BY IntervalsAre, Parameters DEF Record, Candlestick
<1>2. ASSUME r.dcr # r.usd
      PROVE  \E g \in gaps.dcr \cup gaps.usd : Min({r.dcr, r.usd}) - BatchSize <= g /\ g < Max({r.dcr, r.usd})
  <2>1. PICK g \in gaps.dcr \cup gaps.usd : next <= g /\ g <= r.dcr /\ g <= r.usd
    BY <1>2
  <2>2. g \in Nat
    OBVIOUS
  <2> PICK u \in Int, v \in Int : u = r.dcr /\ v = r.usd
    BY <1>1
  <2>3. PICK x \in Int : x = Min({r.dcr, r.usd}) /\ x <= r.dcr
    <3>1. Min({u, v}) \in {u, v} /\ Min({u, v}) <= u
      BY MinOf
    <3> QED
      BY <3>1
  <2>4. PICK y \in Int : y = Max({r.dcr, r.usd}) /\ y >= r.dcr /\ y >= r.usd
    <3>1. Max({u, v}) \in {u, v} /\ Max({u, v}) >= u /\ Max({u, v}) >= v
      BY MaxOf
    <3> QED
      BY <3>1
  <2>5. x - BatchSize <= g
    BY <1>1, <2>1, <2>2, <2>3
  <2>6. g < y
    BY <1>1, <1>2, <2>1, <2>2, <2>4
  <2> QED
    BY <2>3, <2>4, <2>5, <2>6
<1> QED
  BY <1>2 DEF Paired

LEMMA DataIndicesAre ==
    ASSUME NEW next \in Nat, NEW dcr \in Seq(Candlestick), NEW usd \in Seq(Candlestick),
           \A k \in DOMAIN dcr : next <= dcr[k]
    PROVE  /\ DataIndices(next, dcr, usd) = {} => \A k \in DOMAIN dcr, l \in DOMAIN usd : dcr[k] # usd[l]
           /\ \A p \in DataIndices(next, dcr, usd) :
                  /\ p[1] \in DOMAIN dcr /\ p[2] \in DOMAIN usd
                  /\ dcr[p[1]] = usd[p[2]]
                  /\ \A k \in DOMAIN dcr, l \in DOMAIN usd : k < p[1] => dcr[k] # usd[l]
<1>1. /\ \A k \in DOMAIN dcr : dcr[k] \in Nat /\ k \in Nat /\ 1 <= k
      /\ DOMAIN dcr = 1..Len(dcr) /\ Len(dcr) \in Nat
  <2>1. /\ \A k \in DOMAIN dcr : dcr[k] \in Candlestick /\ k \in Nat /\ 1 <= k
        /\ DOMAIN dcr = 1..Len(dcr) /\ Len(dcr) \in Nat
    OBVIOUS
  <2> QED
    BY <2>1, IntervalsAre DEF Candlestick
<1>2. ASSUME NEW k \in DOMAIN dcr, NEW l \in DOMAIN usd, dcr[k] = usd[l]
      PROVE  DataIndices(next, dcr, usd) # {}
  <2> DEFINE C == {i \in DOMAIN dcr : \E j \in DOMAIN usd : dcr[i] = usd[j]}
  <2>1. C \in SUBSET Nat /\ C # {}
    <3>1. k \in C
      BY <1>2
    <3> QED
      BY <1>1, <3>1
  <2>2. PICK i \in C : \A h \in C : i <= h
    BY <2>1, Least
  <2>3. PICK j \in DOMAIN usd : dcr[i] = usd[j]
    OBVIOUS
  <2>4. ASSUME NEW h \in 1..(i - 1) PROVE \A g \in DOMAIN usd : dcr[h] # usd[g]
    <3>1. i \in Nat /\ i <= Len(dcr)
      BY <1>1
    <3>2. h \in DOMAIN dcr /\ ~(i <= h)
      BY <1>1, <3>1
    <3> QED
      BY <2>2, <3>2
  <2>5. <<i, j>> \in (DOMAIN dcr) \X (DOMAIN usd) /\ dcr[i] >= next
    BY <1>1
  <2>6. <<i, j>> \in DataIndices(next, dcr, usd)
    BY <2>3, <2>4, <2>5 DEF DataIndices
  <2> QED
    BY <2>6
<1>3. ASSUME NEW p \in DataIndices(next, dcr, usd)
      PROVE  /\ p[1] \in DOMAIN dcr /\ p[2] \in DOMAIN usd
             /\ dcr[p[1]] = usd[p[2]]
             /\ \A k \in DOMAIN dcr, l \in DOMAIN usd : k < p[1] => dcr[k] # usd[l]
  <2>1. /\ p[1] \in DOMAIN dcr /\ p[2] \in DOMAIN usd
        /\ dcr[p[1]] = usd[p[2]]
        /\ \A k \in 1..(p[1] - 1) : dcr[k] < next \/ \A l \in DOMAIN usd : dcr[k] # usd[l]
    BY DEF DataIndices
  <2>2. ASSUME NEW k \in DOMAIN dcr, k < p[1] PROVE \A l \in DOMAIN usd : dcr[k] # usd[l]
    <3>1. k \in 1..(p[1] - 1) /\ ~(dcr[k] < next)
      BY <1>1, <2>1, <2>2
    <3> QED
      BY <2>1, <3>1
  <2> QED
    BY <2>1, <2>2
<1> QED
  BY <1>2, <1>3

\* What is paired, from the first common interval on.
FetchedFrom(dcr, usd, a, b, n) ==
    /\ a \in DOMAIN dcr /\ b \in DOMAIN usd /\ n \in Nat /\ n >= 1
    /\ a + n - 1 <= Len(dcr) /\ b + n - 1 <= Len(usd)
    /\ dcr[a] = usd[b]
    /\ \A k \in DOMAIN dcr, l \in DOMAIN usd : k < a => dcr[k] # usd[l]

Pairs(dcr, usd, a, b, n) ==
    [k \in 1..n |-> [dcr |-> dcr[a + k - 1], usd |-> usd[b + k - 1]]]

LEMMA FetchedDataIs ==
    ASSUME NEW next \in Nat, NEW dcr \in Seq(Candlestick), NEW usd \in Seq(Candlestick),
           \A k \in DOMAIN dcr : next <= dcr[k]
    PROVE  /\ DataIndices(next, dcr, usd) = {} => FetchedData(next, dcr, usd) = <<>>
           /\ DataIndices(next, dcr, usd) # {} =>
                  \E a \in DOMAIN dcr, b \in DOMAIN usd, n \in Nat :
                      /\ FetchedFrom(dcr, usd, a, b, n)
                      /\ FetchedData(next, dcr, usd) = Pairs(dcr, usd, a, b, n)
<1>1. CASE DataIndices(next, dcr, usd) = {}
  BY <1>1 DEF FetchedData
<1>2. CASE DataIndices(next, dcr, usd) # {}
  <2>1. PICK p \in DataIndices(next, dcr, usd) : p = CHOOSE q \in DataIndices(next, dcr, usd) : TRUE
    BY <1>2
  <2>2. /\ p[1] \in DOMAIN dcr /\ p[2] \in DOMAIN usd
        /\ dcr[p[1]] = usd[p[2]]
        /\ \A k \in DOMAIN dcr, l \in DOMAIN usd : k < p[1] => dcr[k] # usd[l]
    BY DataIndicesAre
  <2>3. PICK a \in DOMAIN dcr : a = p[1]
    BY <2>2
  <2>4. PICK b \in DOMAIN usd : b = p[2]
    BY <2>2
  <2>5. /\ a \in Nat /\ 1 <= a /\ a <= Len(dcr) /\ Len(dcr) \in Nat
        /\ b \in Nat /\ 1 <= b /\ b <= Len(usd) /\ Len(usd) \in Nat
    OBVIOUS
  <2>6. PICK n \in Nat : n = Min({Len(dcr) - a, Len(usd) - b}) + 1 /\ n >= 1
                         /\ a + n - 1 <= Len(dcr) /\ b + n - 1 <= Len(usd)
    <3>1. PICK v \in Nat, w \in Nat : v = Len(dcr) - a /\ w = Len(usd) - b
      BY <2>5
    <3>2. PICK x \in Nat : x = Min({v, w}) /\ x <= v /\ x <= w
      <4>1. v \in Int /\ w \in Int
        OBVIOUS
      <4>2. Min({v, w}) \in {v, w} /\ Min({v, w}) <= v /\ Min({v, w}) <= w
        BY <4>1, MinOf
      <4> QED
        BY <4>2
    <3>3. x + 1 \in Nat /\ x + 1 >= 1 /\ a + (x + 1) - 1 <= Len(dcr) /\ b + (x + 1) - 1 <= Len(usd)
      BY <2>5, <3>1, <3>2
    <3> QED
      BY <3>1, <3>2, <3>3
  <2>7. FetchedData(next, dcr, usd) = Pairs(dcr, usd, a, b, n)
    BY <1>2, <2>1, <2>3, <2>4, <2>6 DEF FetchedData, Pairs
  <2>8. FetchedFrom(dcr, usd, a, b, n)
    BY <2>2, <2>3, <2>4, <2>6 DEF FetchedFrom
  <2> QED
    BY <1>2, <2>7, <2>8
<1> QED
  BY <1>1, <1>2

\* What the types say of months' files and of gaps.
LEMMA TypeFacts ==
    ASSUME TypeOK
    PROVE  /\ now \in Intervals /\ now \in Nat
           /\ gaps.dcr \subseteq Nat /\ gaps.usd \subseteq Nat
           /\ \A m \in Months : file[m] \in Seq(Record) /\ m \in Nat /\ m >= 1
           /\ job \in Job
  BY ConstantsAssumption, IntervalsAre DEF TypeOK, Months

LEMMA RecordIs ==
    ASSUME NEW s \in Seq(Record)
    PROVE  /\ \A k \in DOMAIN s : s[k] \in Record /\ s[k].dcr \in Intervals /\ s[k].dcr \in Nat
           /\ s # <<>> => Len(s) \in DOMAIN s /\ Last(s) = s[Len(s)] /\ Last(s).dcr \in Nat
           /\ DOMAIN s = 1..Len(s) /\ Len(s) \in Nat
<1>1. \A k \in DOMAIN s : s[k] \in Record
  OBVIOUS
<1>2. \A r \in Record : r.dcr \in Intervals /\ r.dcr \in Nat
  BY IntervalsAre DEF Record, Candlestick
<1>3. DOMAIN s = 1..Len(s) /\ Len(s) \in Nat /\ (s # <<>> => Len(s) \in DOMAIN s)
  OBVIOUS
<1>4. Last(s) = s[Len(s)]
  BY DEF Last
<1> QED
  BY <1>1, <1>2, <1>3, <1>4

LEMMA SequenceOf ==
    ASSUME NEW S, NEW n \in Nat, NEW f \in [1..n -> S]
    PROVE  f \in Seq(S) /\ Len(f) = n /\ (n >= 1 => f # <<>>)
  OBVIOUS

\* What was fetched continues the file.
LEMMA FetchedContinues ==
    ASSUME TypeOK, Followed, NEW m \in Months, NEW next \in Nat, NEW n \in Intervals, n <= now,
           NEW dcr, DCRShown(next, n, dcr), NEW usd, USDShown(next, usd),
           NEW a, NEW b, NEW c, FetchedFrom(dcr, usd, a, b, c),
           NEW data, data = Pairs(dcr, usd, a, b, c)
    PROVE  data \in Seq(Record) /\ Continues(m, next, data)
<1>1. /\ dcr \in Seq(Candlestick) /\ Climbing(dcr)
      /\ usd \in Seq(Candlestick) /\ Climbing(usd)
  BY DEF DCRShown, USDShown
<1>2. PICK v \in Nat, w \in Nat : v = Len(dcr) /\ w = Len(usd) /\ DOMAIN dcr = 1..v /\ DOMAIN usd = 1..w
  BY <1>1
<1>3. /\ a \in Nat /\ 1 <= a /\ b \in Nat /\ 1 <= b /\ c \in Nat /\ c >= 1
      /\ a + c - 1 <= v /\ b + c - 1 <= w
      /\ a \in DOMAIN dcr /\ b \in DOMAIN usd /\ dcr[a] = usd[b]
      /\ \A k \in DOMAIN dcr, l \in DOMAIN usd : k < a => dcr[k] # usd[l]
  BY <1>2 DEF FetchedFrom
<1>4. \A k \in 1..c : a + k - 1 \in DOMAIN dcr /\ b + k - 1 \in DOMAIN usd
  BY <1>2, <1>3
<1>5. /\ \A k \in DOMAIN dcr : dcr[k] \in Candlestick
      /\ \A k \in DOMAIN usd : usd[k] \in Candlestick
  BY <1>1
<1>6. DOMAIN data = 1..c
  BY DEF Pairs
<1>7. \A k \in 1..c : /\ data[k] \in Record
                      /\ data[k].dcr = dcr[a + k - 1] /\ data[k].usd = usd[b + k - 1]
  BY <1>4, <1>5 DEF Record, Pairs
<1>8. data \in [1..c -> Record]
  BY <1>4, <1>5 DEF Record, Pairs
<1>9. data \in Seq(Record) /\ Len(data) = c /\ data # <<>>
  <2>1. c \in Nat /\ c >= 1
    BY <1>3
  <2> QED
    BY ONLY <1>8, <2>1, SequenceOf
<1>10. Rising(data)
  <2>1. ASSUME NEW j \in 1..c, NEW k \in 1..c, j < k PROVE data[j].dcr < data[k].dcr
    <3>1. a + j - 1 < a + k - 1
      BY <1>3, <2>1
    <3>2. dcr[a + j - 1] < dcr[a + k - 1]
      BY <1>1, <1>4, <3>1 DEF Climbing
    <3> QED
      BY <1>7, <3>2
  <2> QED
    BY <1>6, <2>1 DEF Rising
<1>11. ASSUME NEW k \in 1..c
       PROVE  next <= data[k].dcr /\ data[k].dcr <= next + BatchSize /\ Paired(data[k])
  <2>1. next <= data[k].dcr /\ data[k].dcr <= next + BatchSize
    BY <1>4, <1>7 DEF DCRShown
  <2>2. ASSUME data[k].dcr # data[k].usd
        PROVE  \E g \in gaps.dcr \cup gaps.usd : next <= g /\ g <= data[k].dcr /\ g <= data[k].usd
    <3>1. PICK l \in Nat : k = l + 1
      <4>1. k - 1 \in Nat /\ k = (k - 1) + 1
        OBVIOUS
      <4> QED
        BY <4>1
    <3>2. a + k - 1 = a + l /\ b + k - 1 = b + l
      BY <1>3, <3>1
    <3>3. a + l \in DOMAIN dcr /\ b + l \in DOMAIN usd /\ data[k].dcr = dcr[a + l] /\ data[k].usd = usd[b + l]
      BY <1>4, <1>7, <3>2
    <3>4. now \in Intervals /\ dcr[a + l] # usd[b + l]
      BY <2>2, <3>3, TypeFacts
    <3>5. \E g \in gaps.dcr \cup gaps.usd : next <= g /\ g <= dcr[a + l] /\ g <= usd[b + l]
      BY <1>3, <3>3, <3>4, PairsAt
    <3> QED
      BY <3>3, <3>5
  <2>3. Paired(data[k])
    BY <1>7, <2>1, <2>2, PairedBy, TypeFacts
  <2> QED
    BY <2>1, <2>3
<1>12. ASSUME NEW i \in FirstInterval(m)..LastInterval(m), next <= i, i <= Last(data).dcr
       PROVE  i \in {data[k].dcr : k \in DOMAIN data} \cup Recorded(m) \cup Missed
  <2>1. i \in Intervals /\ MonthOf(i) = m /\ i \in Nat
    BY MonthIs, IntervalsAre
  <2>2. i <= dcr[a + c - 1] /\ a + c - 1 \in DOMAIN dcr
    <3>1. c \in 1..c /\ Last(data) = data[c]
      BY <1>3, <1>9 DEF Last
    <3> QED
      BY <1>4, <1>7, <1>12, <3>1
  <2>3. dcr[a + c - 1] <= next + BatchSize /\ dcr[a + c - 1] <= n /\ dcr[a + c - 1] \in Nat
    BY <1>1, <2>2, Climbs DEF DCRShown
  <2>4. i <= next + BatchSize /\ i <= n
    BY <2>1, <2>2, <2>3, IntervalsAre, Parameters
  <2>5. CASE i \in gaps.dcr
    BY <2>5 DEF Missed
  <2>6. CASE i \notin gaps.dcr
    <3>1. PICK k \in DOMAIN dcr : dcr[k] = i
      BY <1>12, <2>1, <2>4, <2>6 DEF DCRShown
    <3>2. k \in Nat /\ 1 <= k
      BY <1>2
    <3>3. CASE k < a
      <4>1. \A l \in DOMAIN usd : usd[l] # i
        BY <1>3, <3>1, <3>3
      <4>2. CASE now - KrakenLimit < i
        <5>1. i <= now
          BY <2>1, <2>4, IntervalsAre, TypeFacts
        <5>2. i \in gaps.usd
          BY <1>12, <2>1, <4>1, <4>2, <5>1 DEF USDShown
        <5> QED
          BY <5>2 DEF Missed
      <4>3. CASE ~(now - KrakenLimit < i)
        <5>1. i <= now - KrakenLimit
          BY <2>1, <4>3, TypeFacts, Parameters
        <5>2. i \in gone \cup Recorded(m)
          BY <2>1, <5>1 DEF Followed
        <5> QED
          BY <5>2 DEF Missed
      <4> QED
        BY <4>2, <4>3
    <3>4. CASE ~(k < a)
      <4>1. k <= a + c - 1
        <5>1. ~(a + c - 1 < k)
          <6>1. a + c - 1 < k => dcr[a + c - 1] < i
            BY <1>1, <2>2, <3>1 DEF Climbing
          <6> QED
            BY <2>1, <2>2, <2>3, <6>1
        <5> QED
          BY <1>3, <3>2, <5>1
      <4>2. PICK l \in 1..c : k = a + l - 1
        <5>1. k - a + 1 \in 1..c /\ k = a + (k - a + 1) - 1
          BY <1>3, <3>2, <3>4, <4>1
        <5> QED
          BY <5>1
      <4>3. data[l].dcr = i
        BY <1>7, <3>1, <4>2
      <4> QED
        BY <1>6, <4>3
    <3> QED
      BY <3>3, <3>4
  <2> QED
    BY <2>5, <2>6
<1> QED
  BY <1>6, <1>9, <1>10, <1>11, <1>12 DEF Continues

-----------------------------------------------------------------------------
(* What steps have in common *)

LEMMA NextIntervalIs ==
    ASSUME TypeOK, NEW m \in Months, Sound(m)
    PROVE  /\ NextInterval(m) \in Nat
           /\ FirstInterval(m) <= NextInterval(m)
           /\ \A k \in DOMAIN file[m] : file[m][k].dcr < NextInterval(m)
<1>1. FirstInterval(m) \in Nat
  BY MonthBounds, TypeFacts
<1>2. PICK s \in Seq(Record) : s = file[m]
  BY TypeFacts
<1>3. /\ \A k \in DOMAIN s : s[k].dcr \in Nat /\ FirstInterval(m) <= s[k].dcr
      /\ \A j, k \in DOMAIN s : j < k => s[j].dcr < s[k].dcr
  BY <1>2, RecordIs DEF Sound, Rising
<1>4. CASE s = <<>>
  BY <1>1, <1>2, <1>4 DEF NextInterval
<1>5. CASE s # <<>>
  <2>1. PICK n \in Nat : n = Len(s) /\ n \in DOMAIN s /\ Last(s) = s[n] /\ DOMAIN s = 1..n
    BY <1>5, RecordIs
  <2>2. NextInterval(m) = s[n].dcr + 1
    BY <1>2, <1>5, <2>1 DEF NextInterval
  <2>3. \A k \in DOMAIN s : k = n \/ k < n
    BY <2>1
  <2>4. \A k \in DOMAIN s : s[k].dcr <= s[n].dcr
    BY <1>3, <2>1, <2>3
  <2> QED
    BY <1>1, <1>2, <1>3, <2>1, <2>2, <2>4
<1> QED
  BY <1>4, <1>5

\* What was missed or recorded stays so, and what was caught up with too.
LEMMA Stays ==
    ASSUME gaps' = gaps, gone \subseteq gone', settled' = settled,
           NEW m \in Months, Recorded(m) \subseteq Recorded(m)', Caught(m)
    PROVE  Caught(m)'
<1>1. \A s : StuckAt(s) => StuckAt(s)'
  BY DEF StuckAt
<1>2. Missed \subseteq Missed'
  BY DEF Missed
<1>3. ASSUME NEW i \in FirstInterval(m)..(LastInterval(m) - 1), i <= settled[m], i \notin Missed'
      PROVE  i \in Recorded(m)' \/ \E s \in FirstInterval(m)..i : StuckAt(s)'
  <2>1. i \in Recorded(m) \/ \E s \in FirstInterval(m)..i : StuckAt(s)
    BY <1>2, <1>3 DEF Caught
  <2> QED
    BY <1>1, <2>1
<1> QED
  BY <1>3 DEF Caught

\* The files do not change.
LEMMA FilesStay ==
    ASSUME IndInv, UNCHANGED <<now, gaps, file, gone>>
    PROVE  /\ Followed'
           /\ \A m \in Months : Sound(m)'
           /\ settled' = settled => \A m \in Months : Caught(m)'
<1>1. Followed /\ \A m \in Months : Sound(m) /\ Caught(m)
  BY DEF IndInv
<1>2. Followed'
  BY <1>1 DEF Followed, Recorded
<1>3. ASSUME NEW m \in Months PROVE Sound(m)'
  <2>1. Sound(m)
    BY <1>1
  <2>2. NextInterval(m)' = NextInterval(m) /\ Recorded(m)' = Recorded(m) /\ Missed' = Missed
    BY DEF NextInterval, Recorded, Missed
  <2> QED
    BY <2>1, <2>2 DEF Sound, Rising, Paired
<1>4. ASSUME settled' = settled, NEW m \in Months PROVE Caught(m)'
  <2>1. Recorded(m)' = Recorded(m)
    BY DEF Recorded
  <2> QED
    BY <1>1, <1>4, <2>1, Stays
<1> QED
  BY <1>2, <1>3, <1>4

\* A loop over a month ends with nothing more to do before interval i.
LEMMA SettleCaught ==
    ASSUME IndInv, UNCHANGED <<now, gaps, file, gone>>, NEW i \in Intervals, Settle(i),
           NEW q \in Months, q = job.month,
           \A j \in FirstInterval(q)..(LastInterval(q) - 1) :
               j <= i /\ j \notin Missed =>
                   j \in Recorded(q) \/ \E s \in FirstInterval(q)..j : StuckAt(s)
    PROVE  /\ settled' \in [Months -> Intervals \cup {-1}]
           /\ \A m \in Months : Caught(m)'
<1>1. settled \in [Months -> Intervals \cup {-1}] /\ \A m \in Months : Caught(m)
  BY DEF IndInv, TypeOK
<1>2. settled' = [settled EXCEPT ![q] = i]
  BY DEF Settle
<1>3. settled' \in [Months -> Intervals \cup {-1}]
  BY <1>1, <1>2
<1>4. ASSUME NEW m \in Months PROVE Caught(m)'
  <2>1. Missed' = Missed /\ Recorded(m)' = Recorded(m) /\ \A s : StuckAt(s)' <=> StuckAt(s)
    BY DEF Missed, Recorded, StuckAt
  <2>2. CASE m = q
    <3>1. settled'[m] = i
      BY <1>1, <1>2, <2>2
    <3> QED
      BY <2>1, <2>2, <3>1 DEF Caught
  <2>3. CASE m # q
    <3>1. settled'[m] = settled[m]
      BY <1>1, <1>2, <2>3
    <3> QED
      BY <1>1, <2>1, <3>1 DEF Caught
  <2> QED
    BY <2>2, <2>3
<1> QED
  BY <1>3, <1>4

\* The job after a loop.
LEMMA JobEnds ==
    ASSUME TypeOK, Updating
    PROVE  /\ Idle \in Job /\ LoopEnds \in Job
           /\ LoopEnds.step \in {"idle", "read"} /\ LoopEnds.previous = FALSE
<1>1. 1 \in Months
  BY Parameters DEF Months
<1>2. Idle \in Job
  BY <1>1 DEF Idle, Job
<1>3. job.previous => job.month + 1 \in Months
  BY DEF Updating
<1> QED
  BY <1>2, <1>3 DEF LoopEnds, Idle, Job

\* A job that holds nothing yet.
LEMMA FreshJob ==
    ASSUME job'.step \in {"idle", "read"}, job'.previous => job'.month + 1 \in Months
    PROVE  Updating'
  BY DEF Updating

\* A loop that ends with nothing settled.
LEMMA QuietStep ==
    ASSUME IndInv, UNCHANGED <<now, gaps, file, torn, settled, gone>>, job' \in Job, Updating'
    PROVE  IndInv'
<1>1. TypeOK'
  BY DEF IndInv, TypeOK
<1> QED
  BY <1>1, FilesStay DEF IndInv

LEMMA SettleStep ==
    ASSUME IndInv, UNCHANGED <<now, gaps, file, torn, gone>>, job' = LoopEnds, NEW i \in Intervals, Settle(i),
           NEW q \in Months, q = job.month,
           \A j \in FirstInterval(q)..(LastInterval(q) - 1) :
               j <= i /\ j \notin Missed =>
                   j \in Recorded(q) \/ \E s \in FirstInterval(q)..j : StuckAt(s)
    PROVE  IndInv'
<1>1. TypeOK /\ Updating
  BY DEF IndInv
<1>2. job' \in Job /\ Updating'
  BY <1>1, JobEnds, FreshJob
<1>3. settled' \in [Months -> Intervals \cup {-1}] /\ \A m \in Months : Caught(m)'
  BY SettleCaught
<1>4. TypeOK'
  BY <1>1, <1>2, <1>3 DEF TypeOK
<1> QED
  BY <1>2, <1>3, <1>4, FilesStay DEF IndInv

-----------------------------------------------------------------------------
(* The actions *)

LEMMA InitInv == Init => IndInv
<1> SUFFICES ASSUME Init PROVE IndInv
  OBVIOUS
<1>1. /\ now = 0 /\ gaps \in GapChoices /\ job = Idle /\ gone = {} /\ torn = {}
      /\ file = [m \in Months |-> <<>>] /\ settled = [m \in Months |-> -1]
  BY DEF Init
<1>2. TypeOK
  <2>1. 1 \in Months
    BY Parameters DEF Months
  <2>2. Idle \in Job
    BY <2>1 DEF Idle, Job
  <2> QED
    BY <1>1, <2>2, IntervalsAre DEF TypeOK
<1>3. Followed
  BY <1>1, IntervalsAre, Parameters DEF Followed
<1>4. ASSUME NEW m \in Months PROVE Sound(m) /\ Caught(m)
  <2>1. file[m] = <<>> /\ settled[m] = -1 /\ FirstInterval(m) \in Nat /\ LastInterval(m) \in Nat
    BY <1>1, <1>2, MonthBounds, TypeFacts
  <2>2. NextInterval(m) = FirstInterval(m)
    BY <2>1 DEF NextInterval
  <2>3. Sound(m)
    BY <2>1, <2>2 DEF Sound, Rising
  <2>4. Caught(m)
    BY <2>1 DEF Caught
  <2> QED
    BY <2>3, <2>4
<1>5. Updating
  BY <1>1 DEF Updating, Idle
<1> QED
  BY <1>2, <1>3, <1>4, <1>5 DEF IndInv

LEMMA StartUpdateInv ==
    ASSUME IndInv, StartUpdate
    PROVE  IndInv'
<1>1. TypeOK
  BY DEF IndInv
<1>2. PICK m \in Months : m = MonthOf(now)
  BY <1>1, MonthIsOf, TypeFacts
<1>3. PICK p \in BOOLEAN : p = (m > 1 /\ now < FirstInterval(m) + Window)
  OBVIOUS
<1>4. job' = [Idle EXCEPT !.step = "read", !.previous = p, !.month = IF p THEN m - 1 ELSE m]
  BY <1>2, <1>3 DEF StartUpdate
<1>5. PICK n \in Months : n = (IF p THEN m - 1 ELSE m) /\ (p => n + 1 \in Months)
  <2>1. m \in Nat /\ 1 <= m /\ m <= NumMonths /\ NumMonths \in Nat
    BY Parameters DEF Months
  <2>2. CASE p
    <3>1. m > 1
      BY <1>3, <2>2
    <3>2. m - 1 \in Months /\ (m - 1) + 1 \in Months
      BY <2>1, <3>1 DEF Months
    <3> QED
      BY <2>2, <3>2
  <2>3. CASE ~p
    BY <2>3
  <2> QED
    BY <2>2, <2>3
<1>6. Idle \in Job
  BY <1>1, JobEnds DEF IndInv
<1>7. job' \in Job /\ job'.step = "read" /\ job'.previous = p /\ job'.month = n
  BY <1>4, <1>5, <1>6 DEF Idle, Job
<1>8. Updating'
  BY <1>5, <1>7, FreshJob
<1> QED
  BY <1>7, <1>8, QuietStep DEF StartUpdate

LEMMA ReadFileInv ==
    ASSUME IndInv, ReadFile
    PROVE  IndInv'
<1>1. TypeOK /\ Updating /\ UNCHANGED <<now, gaps, file, torn, gone>>
  BY DEF IndInv, ReadFile
<1>2. PICK m \in Months : m = job.month
  BY <1>1, TypeFacts DEF Job
<1>3. Sound(m)
  BY DEF IndInv
<1>4. NextInterval(m) \in Nat
  BY <1>1, <1>3, NextIntervalIs
<1>5. CASE ShouldUpdate(NextInterval(m), m) /\ job' = [job EXCEPT !.step = "dcr", !.next = NextInterval(m)]
           /\ UNCHANGED settled
  <2>1. job' \in Job /\ job'.step = "dcr" /\ job'.next = NextInterval(m) /\ job'.month = m
        /\ job'.previous = job.previous
    BY <1>1, <1>2, <1>4, <1>5, TypeFacts DEF Job
  <2>2. NextInterval(m)' = NextInterval(m)
    BY <1>1 DEF NextInterval
  <2>3. Updating'
    BY <1>1, <1>2, <1>5, <2>1, <2>2 DEF Updating, ShouldUpdate
  <2> QED
    BY <1>1, <1>5, <2>1, <2>3, QuietStep
<1>6. CASE job' = LoopEnds /\ UNCHANGED settled
  <2>1. job' \in Job /\ Updating'
    BY <1>1, <1>6, JobEnds, FreshJob
  <2> QED
    BY <1>1, <1>6, <2>1, QuietStep
<1>7. CASE /\ ~ShouldUpdate(NextInterval(m), m)
           /\ job' = LoopEnds /\ Settle(now)
  <2>1. ASSUME NEW j \in FirstInterval(m)..(LastInterval(m) - 1), j <= now, j \notin Missed
        PROVE  j \in Recorded(m)
    <3>1. m \in Nat /\ m >= 1 /\ now \in Nat /\ now \in Intervals
      BY <1>1, TypeFacts
    <3>2. FirstInterval(m) \in Nat /\ LastInterval(m) \in Nat
      BY <3>1, MonthBounds
    <3>3. j < NextInterval(m)
      BY <1>4, <1>7, <2>1, <3>1, <3>2 DEF ShouldUpdate
    <3>4. j \in FirstInterval(m)..LastInterval(m)
      BY <3>2
    <3> QED
      BY <1>3, <2>1, <3>3, <3>4 DEF Sound
  <2>2. now \in Intervals
    BY <1>1, TypeFacts
  <2> QED
    BY <1>1, <1>2, <1>7, <2>1, <2>2, SettleStep
<1> QED
  BY <1>2, <1>5, <1>6, <1>7 DEF ReadFile

\* Before next everything of the month is recorded or missed.
LEMMA BeforeNext ==
    ASSUME IndInv, NEW m \in Months, m = job.month, job.step \in {"dcr", "usd"}
    PROVE  /\ job.next \in Nat /\ job.next < LastInterval(m) /\ FirstInterval(m) <= job.next
           /\ \A j \in FirstInterval(m)..LastInterval(m) :
                  j < job.next /\ j \notin Missed => j \in Recorded(m)
<1>1. TypeOK /\ Updating /\ Sound(m)
  BY DEF IndInv
<1>2. job.next = NextInterval(m) /\ job.next < LastInterval(m)
  BY <1>1 DEF Updating
<1>3. job.next \in Nat /\ FirstInterval(m) <= job.next
  BY <1>1, <1>2, NextIntervalIs
<1> QED
  BY <1>1, <1>2, <1>3 DEF Sound

LEMMA FetchDCRBTCInv ==
    ASSUME IndInv, FetchDCRBTC
    PROVE  IndInv'
<1>1. TypeOK /\ Updating /\ UNCHANGED <<now, gaps, file, torn, gone>> /\ job.step = "dcr"
  BY DEF IndInv, FetchDCRBTC
<1>2. PICK m \in Months : m = job.month
  BY <1>1, TypeFacts DEF Job
<1>3. PICK next \in Nat : next = job.next
  BY <1>1, <1>2, BeforeNext
<1>4. PICK dcr : dcr = DCRBTCData(next)
  OBVIOUS
<1>5. DCRBTCAt(next, now, dcr)
  BY <1>4 DEF DCRBTCAt, DCRBTCData
<1>6. now \in Intervals /\ now \in Nat
  BY <1>1, TypeFacts
<1>7. DCRShown(next, now, dcr)
  BY <1>5, <1>6, DCRAnswer
<1>8. CASE dcr # <<>>
  <2>1. job' = [job EXCEPT !.step = "usd", !.dcr = dcr] /\ settled' = settled
    BY <1>3, <1>4, <1>8 DEF FetchDCRBTC
  <2>2. dcr \in Seq(Candlestick)
    BY <1>7 DEF DCRShown
  <2>3. /\ job' \in Job /\ job'.step = "usd" /\ job'.next = next /\ job'.month = m
        /\ job'.previous = job.previous /\ job'.dcr = dcr
    BY <1>1, <1>2, <1>3, <2>1, <2>2, TypeFacts DEF Job
  <2>4. NextInterval(m)' = NextInterval(m)
    BY <1>1 DEF NextInterval
  <2>5. \E n \in 0..now' : DCRBTCAt(next, n, dcr)'
    <3>1. DCRBTCAt(next, now, dcr)' /\ now \in 0..now'
      BY <1>1, <1>5, <1>6 DEF DCRBTCAt
    <3> QED
      BY <1>1, <3>1 DEF DCRBTCAt
  <2>6. Updating'
    BY <1>1, <1>2, <1>3, <1>8, <2>3, <2>4, <2>5 DEF Updating, DCRBTCAt
  <2> QED
    BY <1>1, <2>1, <2>3, <2>6, QuietStep
<1>9. CASE dcr = <<>>
  <2>1. job' = LoopEnds /\ Settle(now)
    BY <1>3, <1>4, <1>9 DEF FetchDCRBTC
  <2>2. ASSUME NEW j \in FirstInterval(m)..(LastInterval(m) - 1), j <= now, j \notin Missed
        PROVE  j \in Recorded(m) \/ \E s \in FirstInterval(m)..j : StuckAt(s)
    <3>1. FirstInterval(m) \in Nat /\ LastInterval(m) \in Nat /\ BatchSize \in Nat
      BY MonthBounds, TypeFacts, <1>1, Parameters
    <3>2. j \in FirstInterval(m)..LastInterval(m) /\ j \in Nat
      BY <3>1
    <3>3. CASE j < next
      BY <1>1, <1>2, <1>3, <2>2, <3>2, <3>3, BeforeNext
    <3>4. CASE ~(j < next)
      <4>1. \A i \in Intervals : next <= i /\ i <= next + BatchSize /\ i <= now => i \in gaps.dcr
        BY <1>7, <1>9 DEF DCRShown
      <4>2. ~(j <= next + BatchSize)
        BY <1>6, <2>2, <3>2, <3>4, <4>1, MonthIs DEF Missed
      <4>3. ASSUME NEW i \in next..(next + BatchSize) PROVE i \in gaps.dcr
        <5>1. i \in Nat /\ i <= now /\ next <= i /\ i <= next + BatchSize
          BY <1>6, <2>2, <3>1, <3>2, <4>2
        <5> QED
          BY <1>6, <4>1, <5>1, IntervalsAre
      <4>4. StuckAt(next)
        BY <4>3 DEF StuckAt
      <4>5. next \in FirstInterval(m)..j
        BY <1>1, <1>2, <1>3, <3>1, <3>2, <3>4, BeforeNext
      <4> QED
        BY <4>4, <4>5
    <3> QED
      BY <3>3, <3>4
  <2> QED
    BY <1>1, <1>2, <1>6, <2>1, <2>2, SettleStep
<1> QED
  BY <1>8, <1>9

LEMMA FetchBTCUSDInv ==
    ASSUME IndInv, FetchBTCUSD
    PROVE  IndInv'
<1>1. TypeOK /\ Updating /\ Followed /\ UNCHANGED <<now, gaps, file, torn, gone>> /\ job.step = "usd"
  BY DEF IndInv, FetchBTCUSD
<1>2. PICK m \in Months : m = job.month
  BY <1>1, TypeFacts DEF Job
<1>3. PICK next \in Nat : next = job.next
  BY <1>1, <1>2, BeforeNext
<1>4. PICK dcr : dcr = job.dcr
  OBVIOUS
<1>5. now \in Intervals /\ now \in Nat
  BY <1>1, TypeFacts
<1>6. PICK n \in Intervals : n <= now /\ DCRBTCAt(next, n, dcr)
  <2>1. PICK n \in 0..now : DCRBTCAt(next, n, dcr)
    BY <1>1, <1>3, <1>4 DEF Updating
  <2>2. n \in Intervals /\ n <= now
    BY <1>5, IntervalsAre
  <2> QED
    BY <2>1, <2>2
<1>7. DCRShown(next, n, dcr) /\ dcr # <<>>
  BY <1>1, <1>4, <1>6, DCRAnswer DEF Updating
<1>8. PICK usd : usd = BTCUSDData(next)
  OBVIOUS
<1>9. USDShown(next, usd)
  BY <1>5, <1>8, USDAnswer
<1>10. PICK data : data = FetchedData(next, dcr, usd)
  OBVIOUS
<1>11. dcr \in Seq(Candlestick) /\ usd \in Seq(Candlestick) /\ \A k \in DOMAIN dcr : next <= dcr[k]
  BY <1>7, <1>9 DEF DCRShown, USDShown
<1>12. CASE data # <<>>
  <2>1. job' = [job EXCEPT !.step = "write", !.dcr = <<>>, !.data = data] /\ settled' = settled
    BY <1>3, <1>4, <1>8, <1>10, <1>12 DEF FetchBTCUSD
  <2>2. PICK a \in DOMAIN dcr, b \in DOMAIN usd, c \in Nat :
            /\ FetchedFrom(dcr, usd, a, b, c)
            /\ data = Pairs(dcr, usd, a, b, c)
    BY <1>10, <1>11, <1>12, FetchedDataIs
  <2>3. data \in Seq(Record) /\ Continues(m, next, data)
    BY <1>1, <1>6, <1>7, <1>9, <2>2, FetchedContinues
  <2>4. <<>> \in Seq(Candlestick)
    OBVIOUS
  <2>5. /\ job' \in Job /\ job'.step = "write" /\ job'.next = next /\ job'.month = m
        /\ job'.previous = job.previous /\ job'.data = data
    BY <1>1, <1>2, <1>3, <2>1, <2>3, <2>4, TypeFacts DEF Job
  <2>6. NextInterval(m)' = NextInterval(m) /\ Recorded(m)' = Recorded(m) /\ Missed' = Missed
    BY <1>1 DEF NextInterval, Recorded, Missed
  <2>7. Updating'
    BY <1>1, <1>2, <1>3, <2>3, <2>5, <2>6 DEF Updating, Continues, Rising, Paired
  <2> QED
    BY <1>1, <2>1, <2>5, <2>7, QuietStep
<1>13. CASE data = <<>>
  <2>1. job' = LoopEnds /\ Settle(Last(dcr))
    BY <1>3, <1>4, <1>8, <1>10, <1>13 DEF FetchBTCUSD
  <2>2. PICK last \in Intervals : last = Last(dcr) /\ last <= n /\ last <= next + BatchSize
    <3>1. Len(dcr) \in DOMAIN dcr /\ dcr[Len(dcr)] \in Candlestick
      BY <1>7, <1>11
    <3>2. Last(dcr) = dcr[Len(dcr)]
      BY DEF Last
    <3> QED
      BY <1>7, <3>1, <3>2 DEF DCRShown, Candlestick
  <2>3. \A k \in DOMAIN dcr, l \in DOMAIN usd : dcr[k] # usd[l]
    <3>1. DataIndices(next, dcr, usd) = {}
      <4>1. SUFFICES ASSUME DataIndices(next, dcr, usd) # {} PROVE FALSE
        OBVIOUS
      <4>2. PICK a \in DOMAIN dcr, b \in DOMAIN usd, c \in Nat :
                /\ FetchedFrom(dcr, usd, a, b, c)
                /\ data = Pairs(dcr, usd, a, b, c)
        BY <1>10, <1>11, <4>1, FetchedDataIs
      <4>3. data # <<>>
        BY <1>1, <1>2, <1>6, <1>7, <1>9, <4>2, FetchedContinues DEF Continues
      <4> QED
        BY <1>13, <4>3
    <3> QED
      BY <1>11, <3>1, DataIndicesAre
  <2>4. ASSUME NEW j \in FirstInterval(m)..(LastInterval(m) - 1), j <= last, j \notin Missed
        PROVE  j \in Recorded(m)
    <3>1. FirstInterval(m) \in Nat /\ LastInterval(m) \in Nat /\ BatchSize \in Nat /\ KrakenLimit \in Nat
      BY MonthBounds, TypeFacts, <1>1, Parameters
    <3>2. j \in FirstInterval(m)..LastInterval(m) /\ j \in Nat
      BY <3>1
    <3>3. j \in Intervals /\ MonthOf(j) = m
      BY <3>2, MonthIs
    <3>4. CASE j < next
      BY <1>1, <1>2, <1>3, <2>4, <3>2, <3>4, BeforeNext
    <3>5. CASE ~(j < next)
      <4>1. n \in Nat /\ last \in Nat
        BY IntervalsAre
      <4>2. next <= j /\ j <= next + BatchSize /\ j <= n /\ j <= now
        BY <1>5, <1>6, <2>2, <2>4, <3>1, <3>2, <3>5, <4>1
      <4>3. PICK k \in DOMAIN dcr : dcr[k] = j
        BY <1>7, <2>4, <3>3, <4>2 DEF DCRShown, Missed
      <4>4. \A l \in DOMAIN usd : usd[l] # j
        BY <2>3, <4>3
      <4>5. ~(now - KrakenLimit < j)
        BY <1>9, <2>4, <3>3, <4>2, <4>4 DEF USDShown, Missed
      <4>6. j <= now - KrakenLimit
        BY <1>5, <3>1, <3>2, <4>5
      <4> QED
        BY <1>1, <2>4, <3>3, <4>6 DEF Followed, Missed
    <3> QED
      BY <3>4, <3>5
  <2> QED
    BY <1>1, <1>2, <2>1, <2>2, <2>4, SettleStep
<1> QED
  BY <1>12, <1>13

\* t is s, which has v records, and then d.
Joined(s, v, d, t) ==
    /\ t \in Seq(Record) /\ t # <<>> /\ Last(t) = Last(d)
    /\ \A k \in DOMAIN s : k \in DOMAIN t /\ t[k] = s[k]
    /\ \A k \in DOMAIN d : v + k \in DOMAIN t /\ t[v + k] = d[k]
    /\ \A k \in DOMAIN t : k \in DOMAIN s \/ \E l \in DOMAIN d : k = v + l

\* A file that is continued.
LEMMA Appended ==
    ASSUME NEW s \in Seq(Record), NEW d \in Seq(Record), d # <<>>,
           NEW v \in Nat, v = Len(s), NEW t, t = s \o d
    PROVE  Joined(s, v, d, t)
<1>1. PICK w \in Nat : w = Len(d) /\ DOMAIN s = 1..v /\ DOMAIN d = 1..w
  BY RecordIs
<1>2. w >= 1
  BY <1>1
<1>3. t \in Seq(Record)
  BY ConcatProperties
<1>4. Len(t) = v + w /\ DOMAIN t = 1..(v + w)
  BY <1>1, <1>3
<1>5. \A k \in 1..v : t[k] = s[k]
  BY <1>1, <1>3
<1>6. \A k \in 1..w : t[v + k] = d[k]
  BY <1>1, <1>3
<1>7. t # <<>> /\ Last(t) = Last(d)
  <2>1. t[v + w] = d[w]
    <3>1. w \in 1..w
      BY <1>2
    <3> QED
      BY <1>6, <3>1
  <2> QED
    BY <1>1, <1>2, <1>4, <2>1 DEF Last
<1>8. ASSUME NEW k \in 1..(v + w) PROVE k \in 1..v \/ \E l \in 1..w : k = v + l
  <2>1. CASE k > v
    <3>1. k - v \in 1..w /\ k = v + (k - v)
      BY <2>1
    <3> QED
      BY <3>1
  <2> QED
    BY <2>1
<1>9. /\ \A k \in 1..v : k \in 1..(v + w)
      /\ \A k \in 1..w : v + k \in 1..(v + w)
  OBVIOUS
<1> QED
  BY ONLY <1>1, <1>3, <1>4, <1>5, <1>6, <1>7, <1>8, <1>9 DEF Joined

LEMMA RisingOn ==
    ASSUME NEW s \in Seq(Record), NEW d \in Seq(Record), d # <<>>, NEW next \in Nat,
           Rising(s), Rising(d),
           \A k \in DOMAIN s : s[k].dcr < next, \A k \in DOMAIN d : next <= d[k].dcr
    PROVE  Rising(s \o d)
<1>1. PICK t \in Seq(Record) : t = s \o d
  BY ConcatProperties
<1>2. PICK v \in Nat : v = Len(s) /\ DOMAIN s = 1..v
  BY RecordIs
<1>3. /\ \A k \in DOMAIN s : t[k] = s[k]
      /\ \A k \in DOMAIN d : t[v + k] = d[k] /\ k \in Nat
      /\ \A k \in DOMAIN t : k \in Nat /\ (k \in DOMAIN s \/ \E l \in DOMAIN d : k = v + l)
  <2>1. /\ \A k \in DOMAIN s : k \in DOMAIN t /\ t[k] = s[k]
        /\ \A k \in DOMAIN d : v + k \in DOMAIN t /\ t[v + k] = d[k]
        /\ \A k \in DOMAIN t : k \in DOMAIN s \/ \E l \in DOMAIN d : k = v + l
    <3>1. Joined(s, v, d, t)
      BY <1>1, <1>2, Appended
    <3> QED
      BY <3>1 DEF Joined
  <2>2. (\A k \in DOMAIN t : k \in Nat) /\ (\A k \in DOMAIN d : k \in Nat)
    BY RecordIs
  <2> QED
    BY <2>1, <2>2
<1>4. /\ \A k \in DOMAIN s : s[k].dcr \in Nat
      /\ \A k \in DOMAIN d : d[k].dcr \in Nat
  BY RecordIs
<1>5. ASSUME NEW j \in DOMAIN t, NEW k \in DOMAIN t, j < k PROVE t[j].dcr < t[k].dcr
  <2>1. CASE j \in DOMAIN s /\ k \in DOMAIN s
    BY <1>3, <1>5, <2>1 DEF Rising
  <2>2. CASE j \in DOMAIN s /\ k \notin DOMAIN s
    <3>1. PICK l \in DOMAIN d : k = v + l
      BY <1>3, <2>2
    <3>2. t[j].dcr = s[j].dcr /\ t[k].dcr = d[l].dcr
      BY <1>3, <2>2, <3>1
    <3> QED
      BY <1>4, <2>2, <3>2
  <2>3. CASE j \notin DOMAIN s
    <3>1. PICK i \in DOMAIN d : j = v + i
      BY <1>3, <2>3
    <3>2. k \notin DOMAIN s
      BY <1>2, <1>3, <1>5, <3>1
    <3>3. PICK l \in DOMAIN d : k = v + l
      BY <1>3, <3>2
    <3>4. i < l
      BY <1>3, <1>5, <3>1, <3>3
    <3> QED
      BY <1>3, <3>1, <3>3, <3>4 DEF Rising
  <2> QED
    BY <2>1, <2>2, <2>3
<1> QED
  BY <1>1, <1>5 DEF Rising

\* The records d are written.
Written(d) ==
    /\ job.step = "write"
    /\ file' = [file EXCEPT ![job.month] = @ \o d]
    /\ torn' \subseteq Months
    /\ job' = [job EXCEPT !.step = "read", !.next = 0, !.data = <<>>]
    /\ UNCHANGED <<now, gaps, settled, gone>>

LEMMA WrittenInv ==
    ASSUME IndInv, NEW d \in Seq(Record), Continues(job.month, job.next, d), Written(d)
    PROVE  IndInv'
<1>1. /\ TypeOK /\ Updating /\ Followed /\ job.step = "write" /\ torn' \subseteq Months
      /\ UNCHANGED <<now, gaps, settled, gone>>
  BY DEF IndInv, Written
<1>2. PICK m \in Months : m = job.month
  BY <1>1, TypeFacts DEF Job
<1>3. Sound(m) /\ \A q \in Months : Sound(q) /\ Caught(q)
  BY DEF IndInv
<1>4. PICK next \in Nat : next = job.next /\ next = NextInterval(m) /\ next < LastInterval(m)
                          /\ FirstInterval(m) <= next
  BY <1>1, <1>2, <1>3, NextIntervalIs DEF Updating
<1>5. Continues(m, next, d)
  BY <1>2, <1>4
<1>6. PICK s \in Seq(Record) : s = file[m]
  BY <1>1, TypeFacts
<1>7. PICK t \in Seq(Record) : t = s \o d
  BY ConcatProperties
<1>8. d # <<>>
  BY <1>5 DEF Continues
<1>9. file' = [file EXCEPT ![m] = t]
  BY <1>2, <1>6, <1>7 DEF Written
<1>10. /\ file' \in [Months -> Seq(Record)] /\ file'[m] = t
       /\ \A q \in Months : q # m => file'[q] = file[q]
  BY <1>1, <1>9 DEF TypeOK
<1>11. /\ job' \in Job /\ job'.step = "read" /\ job'.month = job.month /\ job'.previous = job.previous
  <2>1. job' = [job EXCEPT !.step = "read", !.next = 0, !.data = <<>>] /\ <<>> \in Seq(Record)
    BY DEF Written
  <2> QED
    BY <1>1, <2>1, TypeFacts DEF Job
<1>12. TypeOK'
  BY <1>1, <1>10, <1>11 DEF TypeOK
<1>13. Updating'
  BY <1>1, <1>11, FreshJob DEF Updating
<1>14. PICK v \in Nat : v = Len(s) /\ DOMAIN s = 1..v
  BY RecordIs
<1>15. /\ t # <<>> /\ Last(t) = Last(d)
       /\ \A k \in DOMAIN s : k \in DOMAIN t /\ t[k] = s[k]
       /\ \A k \in DOMAIN d : v + k \in DOMAIN t /\ t[v + k] = d[k]
       /\ \A k \in DOMAIN t : k \in DOMAIN s \/ \E l \in DOMAIN d : k = v + l
  <2>1. Joined(s, v, d, t)
    BY <1>7, <1>8, <1>14, Appended
  <2> QED
    BY <2>1 DEF Joined
<1>16. \A k \in DOMAIN t : (\E j \in DOMAIN s : t[k] = s[j]) \/ (\E l \in DOMAIN d : t[k] = d[l])
  BY <1>15
<1>17. Recorded(m)' = Recorded(m) \cup {d[k].dcr : k \in DOMAIN d}
  <2>1. Recorded(m)' = {t[k].dcr : k \in DOMAIN t} /\ Recorded(m) = {s[k].dcr : k \in DOMAIN s}
    BY <1>6, <1>10 DEF Recorded
  <2>2. \A k \in DOMAIN t : t[k].dcr \in Recorded(m) \cup {d[l].dcr : l \in DOMAIN d}
    BY <1>16, <2>1
  <2>3. \A k \in DOMAIN s : s[k].dcr \in Recorded(m)'
    BY <1>15, <2>1
  <2>4. \A k \in DOMAIN d : d[k].dcr \in Recorded(m)'
    BY <1>15, <2>1
  <2> QED
    BY <2>1, <2>2, <2>3, <2>4
<1>18. \A q \in Months : Recorded(q) \subseteq Recorded(q)'
  <2>1. \A q \in Months : q # m => Recorded(q)' = Recorded(q)
    BY <1>10 DEF Recorded
  <2> QED
    BY <1>17, <2>1
<1>19. Followed'
  <2>1. ASSUME NEW i \in Intervals, i <= now - KrakenLimit PROVE i \in gone \cup Recorded(MonthOf(i))'
    <3>1. PICK q \in Months : q = MonthOf(i)
      BY MonthIsOf
    <3>2. i \in gone \cup Recorded(q)
      BY <1>1, <2>1, <3>1 DEF Followed
    <3>3. i \in gone \cup Recorded(q)'
      BY <1>18, <3>2
    <3> QED
      BY <3>1, <3>3 DEF Recorded
  <2> QED
    BY <1>1, <2>1 DEF Followed
<1>20. ASSUME NEW q \in Months PROVE Caught(q)'
  BY <1>1, <1>3, <1>18, Stays
<1>21. Missed' = Missed
  BY <1>1 DEF Missed
<1>22. Sound(m)'
  <2>1. Rising(t)
    <3>1. \A k \in DOMAIN s : s[k].dcr < next
      BY <1>1, <1>3, <1>4, <1>6, NextIntervalIs
    <3>2. Rising(s) /\ Rising(d) /\ \A k \in DOMAIN d : next <= d[k].dcr
      BY <1>3, <1>5, <1>6 DEF Sound, Continues
    <3> QED
      BY <1>7, <1>8, <3>1, <3>2, RisingOn
  <2>2. ASSUME NEW k \in DOMAIN t
        PROVE  FirstInterval(m) <= t[k].dcr /\ t[k].dcr < LastInterval(m) + BatchSize /\ Paired(t[k])
    <3>1. CASE \E j \in DOMAIN s : t[k] = s[j]
      BY <1>3, <1>6, <3>1 DEF Sound
    <3>2. CASE \E l \in DOMAIN d : t[k] = d[l]
      <4>1. PICK l \in DOMAIN d : t[k] = d[l]
        BY <3>2
      <4>2. PICK x \in Nat : x = d[l].dcr
        BY RecordIs
      <4>3. next <= x /\ x <= next + BatchSize /\ Paired(d[l])
        BY <1>5, <4>2 DEF Continues
      <4>4. FirstInterval(m) \in Nat /\ LastInterval(m) \in Nat /\ BatchSize \in Nat
        BY <1>1, MonthBounds, TypeFacts, Parameters
      <4>5. FirstInterval(m) <= x /\ x < LastInterval(m) + BatchSize
        BY <1>4, <4>3, <4>4
      <4> QED
        BY <4>1, <4>2, <4>3, <4>5
    <3> QED
      BY <1>16, <3>1, <3>2
  <2>3. \A r : Paired(r)' <=> Paired(r)
    BY <1>1 DEF Paired
  <2>4. NextInterval(m)' = Last(d).dcr + 1 /\ Last(d).dcr \in Nat
    BY <1>8, <1>10, <1>15, RecordIs DEF NextInterval
  <2>5. ASSUME NEW i \in FirstInterval(m)..LastInterval(m), i < NextInterval(m)'
        PROVE  i \in Recorded(m)' \cup Missed
    <3>1. i \in Nat
      BY MonthIs, IntervalsAre
    <3>2. CASE i < next
      BY <1>3, <1>4, <1>17, <3>2 DEF Sound
    <3>3. CASE ~(i < next)
      <4>1. next <= i /\ i <= Last(d).dcr
        BY <2>4, <2>5, <3>1, <3>3
      <4>2. i \in {d[k].dcr : k \in DOMAIN d} \cup Recorded(m) \cup Missed
        BY <1>5, <4>1 DEF Continues
      <4> QED
        BY <1>17, <4>2
    <3> QED
      BY <3>2, <3>3
  <2>6. /\ Rising(file[m])'
        /\ \A k \in DOMAIN file'[m] :
               FirstInterval(m) <= file'[m][k].dcr /\ file'[m][k].dcr < LastInterval(m) + BatchSize
               /\ Paired(file'[m][k])
    BY <1>10, <2>1, <2>2 DEF Rising
  <2> QED
    BY <1>21, <2>3, <2>5, <2>6 DEF Sound
<1>23. ASSUME NEW q \in Months, q # m PROVE Sound(q)'
  <2>1. file'[q] = file[q] /\ Sound(q)
    BY <1>3, <1>10, <1>23
  <2>2. NextInterval(q)' = NextInterval(q) /\ Recorded(q)' = Recorded(q)
    BY <2>1 DEF NextInterval, Recorded
  <2> QED
    BY <1>1, <1>21, <2>1, <2>2 DEF Sound, Rising, Paired
<1> QED
  BY <1>12, <1>13, <1>19, <1>20, <1>22, <1>23 DEF IndInv

LEMMA AddDataToFileInv ==
    ASSUME IndInv, AddDataToFile
    PROVE  IndInv'
<1>1. TypeOK /\ Updating /\ job.step = "write"
  BY DEF IndInv, AddDataToFile
<1>2. job.data \in Seq(Record) /\ Continues(job.month, job.next, job.data)
  BY <1>1, TypeFacts DEF Job, Updating
<1>3. torn' \subseteq Months
  BY <1>1 DEF TypeOK, AddDataToFile
<1>4. Written(job.data)
  BY <1>3 DEF Written, AddDataToFile
<1> QED
  BY <1>2, <1>4, WrittenInv

\* The beginning of what continues a file continues it.
LEMMA PrefixContinues ==
    ASSUME NEW m \in Months, NEW next \in Nat, NEW d \in Seq(Record), Continues(m, next, d),
           NEW n \in 1..Len(d)
    PROVE  SubSeq(d, 1, n) \in Seq(Record) /\ Continues(m, next, SubSeq(d, 1, n))
<1>1. PICK w \in Nat : w = Len(d) /\ DOMAIN d = 1..w
  BY RecordIs
<1>2. n \in Nat /\ 1 <= n /\ n <= w /\ n \in DOMAIN d
  BY <1>1
<1>3. PICK p \in Seq(Record) : p = SubSeq(d, 1, n) /\ Len(p) = n /\ \A k \in 1..n : p[k] = d[k]
  <2>1. \A k \in 1..n : d[k] \in Record
    BY <1>1, <1>2
  <2>2. /\ SubSeq(d, 1, n) \in Seq(Record)
        /\ Len(SubSeq(d, 1, n)) = IF 1 <= n THEN n - 1 + 1 ELSE 0
        /\ \A k \in 1..(n - 1 + 1) : SubSeq(d, 1, n)[k] = d[1 + k - 1]
    BY <1>2, <2>1, SubSeqProperties
  <2>3. n - 1 + 1 = n /\ \A k \in 1..n : 1 + k - 1 = k
    BY <1>2
  <2> QED
    BY <1>2, <2>2, <2>3
<1>4. DOMAIN p = 1..n /\ p # <<>> /\ Last(p) = d[n]
  <2>1. DOMAIN p = 1..n /\ n \in DOMAIN p
    BY <1>2, <1>3
  <2>2. p # <<>>
    BY <2>1
  <2> QED
    BY <1>2, <1>3, <2>1, <2>2, RecordIs
<1>5. \A k \in DOMAIN p : k \in DOMAIN d /\ p[k] = d[k]
  BY <1>1, <1>2, <1>3, <1>4
<1>6. Rising(d) /\ \A k \in DOMAIN d : next <= d[k].dcr /\ d[k].dcr <= next + BatchSize /\ Paired(d[k])
  BY DEF Continues
<1>7. Rising(p)
  BY <1>5, <1>6 DEF Rising
<1>8. \A k \in DOMAIN p : next <= p[k].dcr /\ p[k].dcr <= next + BatchSize /\ Paired(p[k])
  BY <1>5, <1>6
<1>9. PICK x \in Nat : x = d[n].dcr
  BY <1>2, RecordIs
<1>10. PICK y \in Nat : y = Last(d).dcr /\ x <= y
  <2>1. Last(d) = d[w] /\ w \in DOMAIN d
    BY <1>1, <1>2, RecordIs
  <2>2. d[w].dcr \in Nat
    BY <2>1, RecordIs
  <2>3. n = w \/ n < w
    BY <1>2
  <2>4. x <= d[w].dcr
    BY <1>2, <1>6, <1>9, <2>1, <2>2, <2>3 DEF Rising
  <2> QED
    BY <2>1, <2>2, <2>4
<1>11. ASSUME NEW i \in FirstInterval(m)..LastInterval(m), next <= i, i <= Last(p).dcr
       PROVE  i \in {p[k].dcr : k \in DOMAIN p} \cup Recorded(m) \cup Missed
  <2>1. i \in Nat /\ i <= x
    BY <1>4, <1>9, <1>11, MonthIs, IntervalsAre
  <2>2. i <= y
    BY <1>10, <2>1
  <2>3. i \in {d[k].dcr : k \in DOMAIN d} \cup Recorded(m) \cup Missed
    BY <1>10, <1>11, <2>2 DEF Continues
  <2>4. ASSUME NEW k \in DOMAIN d, i = d[k].dcr PROVE k \in DOMAIN p /\ p[k].dcr = i
    <3>1. k \in Nat /\ 1 <= k
      BY <1>1
    <3>2. ~(n < k)
      BY <1>2, <1>6, <1>9, <2>1, <2>4 DEF Rising
    <3>3. k \in 1..n
      BY <1>2, <3>1, <3>2
    <3> QED
      BY <1>3, <1>4, <2>4, <3>3
  <2> QED
    BY <2>3, <2>4
<1> QED
  BY <1>3, <1>4, <1>7, <1>8, <1>11 DEF Continues

LEMMA WritePartlyInv ==
    ASSUME IndInv, WritePartly
    PROVE  IndInv'
<1>1. /\ TypeOK /\ Updating /\ job.step = "write" /\ UNCHANGED <<now, gaps, settled, gone>>
      /\ job' = [job EXCEPT !.step = "read", !.next = 0, !.data = <<>>]
  BY DEF IndInv, WritePartly
<1>2. PICK m \in Months, next \in Nat, d \in Seq(Record) :
          m = job.month /\ next = job.next /\ d = job.data /\ Continues(m, next, d)
  BY <1>1, TypeFacts DEF Job, Updating
<1>3. torn' \subseteq Months
  BY <1>1, <1>2 DEF TypeOK, WritePartly
<1>4. PICK n \in 0..(Len(d) - 1) : file' = [file EXCEPT ![m] = @ \o SubSeq(d, 1, n)]
  BY <1>2 DEF WritePartly
<1>5. CASE n # 0
  <2>1. n \in 1..Len(d)
    BY <1>4, <1>5, LenProperties
  <2>2. PICK p \in Seq(Record) : p = SubSeq(d, 1, n) /\ Continues(m, next, p)
    BY <1>2, <2>1, PrefixContinues
  <2>3. file' = [file EXCEPT ![job.month] = @ \o p]
    BY <1>2, <1>4, <2>2
  <2>4. Continues(job.month, job.next, p)
    BY <1>2, <2>2
  <2>5. Written(p)
    BY <1>1, <1>3, <2>3 DEF Written
  <2> QED
    BY <2>4, <2>5, WrittenInv
<1>6. CASE n = 0
  <2>1. file' = file
    <3>1. file[m] \in Seq(Record) /\ file \in [Months -> Seq(Record)]
      BY <1>1 DEF TypeOK
    <3>2. SubSeq(d, 1, 0) = <<>>
      BY SubSeqEmpty
    <3>3. file[m] \o <<>> = file[m]
      BY <3>1, ConcatEmptySeq
    <3>4. file' = [file EXCEPT ![m] = file[m]]
      BY <1>4, <1>6, <3>2, <3>3
    <3> QED
      BY <3>1, <3>4
  <2>2. job' \in Job /\ job'.step = "read" /\ job'.month = job.month /\ job'.previous = job.previous
    <3>1. <<>> \in Seq(Record)
      OBVIOUS
    <3> QED
      BY <1>1, <3>1, TypeFacts DEF Job
  <2>3. Updating'
    BY <1>1, <2>2, FreshJob DEF Updating
  <2>4. TypeOK'
    BY <1>1, <1>3, <2>1, <2>2 DEF TypeOK
  <2> QED
    BY <1>1, <2>1, <2>3, <2>4, FilesStay DEF IndInv
<1> QED
  BY <1>5, <1>6

LEMMA FailInv ==
    ASSUME IndInv, Fail
    PROVE  IndInv'
<1>1. TypeOK /\ Updating
  BY DEF IndInv
<1>2. job' \in Job /\ Updating'
  BY <1>1, JobEnds, FreshJob DEF Fail, LoopFails
<1> QED
  BY <1>2, QuietStep DEF Fail

LEMMA CrashInv ==
    ASSUME IndInv, Crash
    PROVE  IndInv'
<1>1. TypeOK /\ Updating
  BY DEF IndInv
<1>2. job' \in Job
  BY <1>1, JobEnds DEF Crash
<1>3. Updating'
  BY FreshJob DEF Crash, Idle
<1> QED
  BY <1>2, <1>3, QuietStep DEF Crash

LEMMA TickInv ==
    ASSUME IndInv, Tick
    PROVE  IndInv'
<1>1. TypeOK /\ Updating /\ Followed /\ \A m \in Months : Sound(m) /\ Caught(m)
  BY DEF IndInv
<1>2. /\ now + 1 \in Intervals /\ now' = now + 1 /\ UNCHANGED <<gaps, file, torn, job, settled>>
      /\ gone' = gone \cup {i \in {now' - KrakenLimit} \cap Intervals : i \notin Recorded(MonthOf(i))}
  BY DEF Tick
<1>3. now \in Nat /\ KrakenLimit \in Nat
  BY <1>1, TypeFacts, Parameters
<1>4. TypeOK'
  BY <1>1, <1>2 DEF TypeOK
<1>5. gone \subseteq gone' /\ Missed \subseteq Missed'
  BY <1>2 DEF Missed
<1>6. \A m : Recorded(m)' = Recorded(m) /\ NextInterval(m)' = NextInterval(m)
  BY <1>2 DEF Recorded, NextInterval
<1>7. Followed'
  <2>1. ASSUME NEW i \in Intervals, i <= now' - KrakenLimit PROVE i \in gone' \cup Recorded(MonthOf(i))
    <3>1. i \in Nat
      BY IntervalsAre
    <3>2. CASE i <= now - KrakenLimit
      BY <1>1, <1>5, <3>2 DEF Followed
    <3>3. CASE ~(i <= now - KrakenLimit)
      <4>1. i = now' - KrakenLimit
        BY <1>2, <1>3, <2>1, <3>1, <3>3
      <4> QED
        BY <1>2, <4>1
    <3> QED
      BY <3>2, <3>3
  <2>2. \A i : Recorded(MonthOf(i))' = Recorded(MonthOf(i))
    BY <1>2 DEF Recorded
  <2> QED
    BY <2>1, <2>2 DEF Followed
<1>8. ASSUME NEW m \in Months PROVE Sound(m)' /\ Caught(m)'
  <2>1. Sound(m)'
    BY <1>1, <1>2, <1>5, <1>6 DEF Sound, Rising, Paired
  <2>2. Caught(m)'
    BY <1>1, <1>2, <1>5, <1>6, Stays
  <2> QED
    BY <2>1, <2>2
<1>9. Updating'
  <2>1. job' = job /\ gaps' = gaps
    BY <1>2
  <2>2. job.step = "usd" => \E n \in 0..now' : DCRBTCAt(job.next, n, job.dcr)
    <3>1. 0..now \subseteq 0..now'
      BY <1>2, <1>3
    <3> QED
      BY <1>1, <3>1 DEF Updating
  <2>3. job.step = "write" => Continues(job.month, job.next, job.data)'
    <3>1. SUFFICES ASSUME job.step = "write" PROVE Continues(job.month, job.next, job.data)'
      OBVIOUS
    <3>2. Continues(job.month, job.next, job.data)
      BY <1>1, <3>1 DEF Updating
    <3> QED
      BY <1>5, <1>6, <2>1, <3>2 DEF Continues, Rising, Paired
  <2> QED
    BY <1>1, <1>6, <2>1, <2>2, <2>3 DEF Updating, DCRBTCAt
<1> QED
  BY <1>4, <1>7, <1>8, <1>9 DEF IndInv

-----------------------------------------------------------------------------
(* The theorems *)

LEMMA StepIndInv ==
    ASSUME IndInv, [Next]_vars
    PROVE  IndInv'
<1>1. CASE StartUpdate
  BY <1>1, StartUpdateInv
<1>2. CASE ReadFile
  BY <1>2, ReadFileInv
<1>3. CASE FetchDCRBTC
  BY <1>3, FetchDCRBTCInv
<1>4. CASE FetchBTCUSD
  BY <1>4, FetchBTCUSDInv
<1>5. CASE AddDataToFile
  BY <1>5, AddDataToFileInv
<1>6. CASE WritePartly
  BY <1>6, WritePartlyInv
<1>7. CASE Fail
  BY <1>7, FailInv
<1>8. CASE Crash
  BY <1>8, CrashInv
<1>9. CASE Tick
  BY <1>9, TickInv
<1>10. CASE UNCHANGED vars
  <2>1. UNCHANGED <<now, gaps, file, torn, settled, gone, job>>
    BY <1>10 DEF vars
  <2>2. job' \in Job
    BY <2>1 DEF IndInv, TypeOK
  <2>3. Updating'
    <3>1. NextInterval(job.month)' = NextInterval(job.month) /\ Recorded(job.month)' = Recorded(job.month)
          /\ Missed' = Missed
      BY <2>1 DEF NextInterval, Recorded, Missed
    <3>2. Updating
      BY DEF IndInv
    <3> QED
      BY <2>1, <3>1, <3>2 DEF Updating, Continues, Rising, Paired, DCRBTCAt
  <2> QED
    BY <2>1, <2>2, <2>3, QuietStep
<1> QED
  BY <1>1, <1>2, <1>3, <1>4, <1>5, <1>6, <1>7, <1>8, <1>9, <1>10 DEF Next, UpdateStep

\* Every reachable state satisfies the inductive invariant.
THEOREM Invariance == Spec => []IndInv
<1>1. Init => IndInv
  BY InitInv
<1>2. IndInv /\ [Next]_vars => IndInv'
  BY StepIndInv
<1> QED
  BY <1>1, <1>2, PTL DEF Spec

\* Every state of the goroutine, its files and the exchanges is of its type;
\* in particular all that is recorded are intervals of the time modelled.
THEOREM TypeCorrect == Spec => []TypeOK
<1>1. IndInv => TypeOK
  BY DEF IndInv
<1> QED
  BY <1>1, Invariance, PTL

\* No interval enters an average twice: the records of a file ascend,
\* whatever failed, was lost or was repeated.
THEOREM FilesAscend == Spec => []IntervalsAscend
<1>1. IndInv => IntervalsAscend
  BY DEF IndInv, Sound, Rising, IntervalsAscend
<1> QED
  BY <1>1, Invariance, PTL

\* A month's file has nothing of before the month, and what follows the
\* month only from its last batch.
THEOREM OvershootsOnce == Spec => []OneOvershoot
<1>1. IndInv => OneOvershoot
  BY DEF IndInv, Sound, OneOvershoot, RateForMonth
<1> QED
  BY <1>1, Invariance, PTL

\* The two prices of a record are of one interval, unless an exchange has a
\* gap close by.
THEOREM PairsAreAligned == Spec => []PairsAligned
<1>1. IndInv => PairsAligned
  BY DEF IndInv, Sound, Paired, PairsAligned, RateForMonth
<1> QED
  BY <1>1, Invariance, PTL

\* When a loop over a month found nothing more to do, what there was is
\* recorded, but for what CaughtUp names.
THEOREM UpdatesCatchUp == Spec => []CaughtUp
<1>1. IndInv => CaughtUp
  BY DEF IndInv, Caught, CaughtUp, Missed
<1> QED
  BY <1>1, Invariance, PTL

\* A reply that says that data is missing is right.
THEOREM ReportedIsMissing == Spec => []MissingIsMissing
<1>1. ASSUME IndInv PROVE MissingIsMissing
  <2>1. SUFFICES ASSUME NEW m \in Months \ torn, file[m] # <<>>, IsDataMissing(m),
                        FirstInterval(m)..LastInterval(m) \subseteq Recorded(m)
                 PROVE  FALSE
    BY DEF MissingIsMissing
  <2>2. TypeOK /\ Sound(m)
    BY <1>1 DEF IndInv
  <2>3. m \in Nat /\ m >= 1 /\ MonthLength \in Nat /\ MonthLength >= 1
    BY <2>2, TypeFacts, Parameters
  <2>4. PICK f \in Nat, l \in Nat : /\ f = FirstInterval(m) /\ l = LastInterval(m) /\ f <= l
                                    /\ FirstInterval(m + 1) = f + MonthLength
    BY <2>3, MonthBounds
  <2>5. PICK s \in Seq(Record) : s = file[m]
    BY <2>2, TypeFacts
  <2>6. PICK n \in Nat : n = Len(s) /\ DOMAIN s = 1..n /\ n \in DOMAIN s
    BY <2>1, <2>5, RecordIs
  <2>7. \A k \in DOMAIN s : s[k].dcr \in Nat /\ k \in Nat /\ 1 <= k /\ k <= n
    BY <2>6, RecordIs
  <2>8. \A j, k \in DOMAIN s : j < k => s[j].dcr < s[k].dcr
    BY <2>2, <2>5 DEF Sound, Rising
  <2>9. 1 \in DOMAIN s
    BY <2>6
  <2>10. PICK x \in Nat : x = s[1].dcr /\ \A k \in DOMAIN s : x <= s[k].dcr
    <3>1. \A k \in DOMAIN s : k = 1 \/ 1 < k
      BY <2>7
    <3> QED
      BY <2>7, <2>8, <2>9, <3>1
  <2>11. PICK y \in Nat : y = s[n].dcr /\ \A k \in DOMAIN s : s[k].dcr <= y
    <3>1. \A k \in DOMAIN s : k = n \/ k < n
      BY <2>7
    <3> QED
      BY <2>6, <2>7, <2>8, <3>1
  <2>12. (\E k \in DOMAIN s : s[k].dcr = f) /\ (\E k \in DOMAIN s : s[k].dcr = l)
    <3>1. f \in f..l /\ l \in f..l
      BY <2>4
    <3> QED
      BY <2>1, <2>4, <2>5, <3>1 DEF Recorded
  <2>13. x <= f /\ l <= y
    BY <2>10, <2>11, <2>12
  <2>14. ~(n < NumIntervalsInMonth(m))
    BY <2>3, <2>4 DEF NumIntervalsInMonth
  <2>15. ~(x > f + 1) /\ ~(y < l)
    BY <2>13
  <2> QED
    BY <2>1, <2>4, <2>5, <2>6, <2>10, <2>11, <2>14, <2>15 DEF IsDataMissing
<1> QED
  BY <1>1, Invariance, PTL
=============================================================================
