--------------------------- MODULE PaymentsProofs ---------------------------
(***************************************************************************)
(* Proofs about Payments, for any number of admins, invoices, addresses,   *)
(* payments and restarts.                                                  *)
(***************************************************************************)
EXTENDS Payments, WellFoundedInduction, TLAPS

-----------------------------------------------------------------------------
(* The inductive invariant: what holds even when addresses are reused *)

Paying == {"total", "extra"}

\* The lists that updateInvoicePayment changes the payments of.
Updating == {"update", "poll"}

\* A worker's copy has the payments that had rows when it was read, and at
\* most one more.
Copied(w) ==
    LET q == req[w] IN
    /\ w = Poller => q.op \in {"none", "poll"}
    /\ q.saved <= Len(q.payments)
    /\ q.step = "idle" => q.op = "none" /\ q.payments = <<>> /\ q.saved = 0 /\ q.token = NoToken
    /\ q.step # "idle" => q.token \in Tokens /\ q.saved <= Len(rows[q.token])
    /\ q.step \in {"read", "refreshed", "derived"} => Len(q.payments) = q.saved
    /\ q.step \in {"refreshed", "derived", "ready", "stored"} => q.op \in Paying
    /\ q.step = "derived" => q.addr < MaxIndex
    /\ q.step \in {"ready", "accepted"} /\ q.op \in Paying =>
           \/ Len(q.payments) = q.saved /\ TotalAt(q.payments) # {}
           \/ Len(q.payments) = q.saved + 1
    /\ q.step = "accepted" /\ q.op \notin Paying => Len(q.payments) = q.saved
    /\ q.step = "stored" => q.payments = <<>> /\ q.saved = 0

-----------------------------------------------------------------------------
(* The inductive invariant: whose an address is *)

\* Invoice t has a payment with address a: in its rows, in politeiad or in the
\* copy of a worker.
Knows(t, a) ==
    \/ HasAddress(rows[t], a)
    \/ HasAddress(stream[t], a)
    \/ \E w \in Workers : req[w].token = t /\ HasAddress(req[w].payments, a)

\* Address a was derived for t.
Owned(a, t) == a < index /\ \A u \in Tokens : Knows(u, a) => u = t

Separate == \A t \in Tokens, a \in Addresses : Knows(t, a) => Owned(a, t)

\* A paying request has an address that is or was a payment's.
Late(q) == q.op \in Paying /\ q.step \in {"ready", "accepted", "stored"}

\* What the map, the poller and the history name is somebody's address.
Named ==
    /\ \A a \in Addresses : polled[a] # NoToken => Owned(a, polled[a])
    /\ \A a \in Addresses : todo[a] # NoToken => Owned(a, todo[a])
    /\ \A r \in recorded : Owned(r[2], r[1])
    /\ \A a \in remove \cap Addresses : \E t \in Tokens :
           Owned(a, t) /\ (t \in contended \cup missed \/ <<t, a>> \in recorded)

-----------------------------------------------------------------------------
(* The inductive invariant: lists of payments *)

\* One payment per address.
OneEach(payments) ==
    \A i, j \in DOMAIN payments : payments[i].addr = payments[j].addr => i = j

\* An address that two lists have is at one place of both, which is among the
\* first n of the one and the first m of the other.
Aligned(p, n, q, m) ==
    \A i \in DOMAIN p, j \in DOMAIN q : p[i].addr = q[j].addr => i = j /\ i <= n /\ j <= m

Single(t) == OneEach(rows[t]) /\ OneEach(stream[t])

\* What was recorded for t stays recorded, and its unpaid addresses are watched.
Settled(t) ==
    t \notin contended =>
        /\ \A r \in recorded : r[1] = t => PaidOrGone(rows[t], r[2]) /\ PaidOrGone(stream[t], r[2])
        /\ t \notin missed => \A a \in Unpaid(rows[t]) : polled[a] = t \/ Entering(a)

\* The copy of worker w has its payments where the rows have them.
Fits(w) ==
    LET q == req[w] IN
    /\ OneEach(q.payments)
    /\ q.token \in Tokens => Aligned(rows[q.token], Len(rows[q.token]), q.payments, q.saved)

\* What worker w knows of its invoice, if nobody else works on that.
Alone(w) ==
    LET q == req[w]
        t == q.token
    IN
    /\ \A r \in recorded : r[1] = t => PaidOrGone(q.payments, r[2])
    /\ Unpaid(q.payments) \subseteq Unpaid(rows[t]) \cup (IF Late(q) THEN {q.addr} ELSE {})
    /\ q.op \in Updating /\ q.step = "accepted" =>
           PaidOrGone(q.payments, q.addr) /\ PaidOrGone(stream[t], q.addr)
    /\ Late(q) /\ q.dropped # q.addr =>
           /\ q.step # "stored" /\ Len(q.payments) = q.saved =>
                  \A k \in DOMAIN rows[t] : rows[t][k].addr = q.dropped => k = FirstTotal(q.payments)
           /\ q.step # "stored" => Len(q.payments) = q.saved
           /\ q.step = "stored" => ~HasAddress(rows[t], q.dropped)

\* What worker w has in hand.
Holds(w) ==
    LET q == req[w] IN
    /\ q.step = "derived" => q.addr = index
    /\ Late(q) => Owned(q.addr, q.token) /\ Owned(q.dropped, q.token)
    /\ Late(q) /\ q.step # "stored" /\ Len(q.payments) = q.saved =>
           q.payments[FirstTotal(q.payments)].addr = q.addr
    /\ q.op = "poll" => Owned(q.addr, q.token)
    /\ q.op \in Updating /\ q.step = "accepted" => HasAddress(q.payments, q.addr)
    /\ q.token \in Tokens \ contended => Alone(w)

\* Two workers.
Together(w, v) ==
    /\ req[w].step = "derived" => req[v].step # "derived"
    /\ req[w].token = req[v].token /\ req[w].token \in Tokens =>
           /\ req[w].token \in contended
           /\ Aligned(req[w].payments, req[w].saved, req[v].payments, req[v].saved)

Telling ==
    /\ Separate
    /\ Named
    /\ \A t \in Tokens : Single(t) /\ Settled(t)
    /\ \A w \in Workers : Fits(w) /\ Holds(w)
    /\ \A w, v \in Workers : w # v => Together(w, v)

Copies == \A w \in Workers : Copied(w)

IndInv ==
    /\ TypeOK
    /\ Copies
    /\ ~reused => Telling

-----------------------------------------------------------------------------
(* Lists of payments *)

\* A set of numbers has a least one.
LEMMA Least ==
    ASSUME NEW S, S \subseteq Nat, S # {}
    PROVE  \E m \in S : \A j \in S : m <= j
<1>1. PICK m \in S : \A y \in S : ~ (<<y, m>> \in OpToRel(<, Nat))
  BY WFMin, NatLessThanWellFounded
<1>2. \A j \in S : ~(j < m)
  BY <1>1 DEF OpToRel
<1>3. \A j \in S : m <= j
  BY <1>2
<1> QED
  BY <1>3

\* A part of a list of payments.
LEMMA PartOf ==
    ASSUME NEW s \in Seq(Payment), NEW m \in Nat, NEW l \in Nat, 1 <= m, m <= l + 1, l <= Len(s)
    PROVE  /\ SubSeq(s, m, l) \in Seq(Payment)
           /\ Len(SubSeq(s, m, l)) = l - m + 1
           /\ \A i \in 1..(l - m + 1) : SubSeq(s, m, l)[i] = s[m + i - 1]
<1>1. /\ SubSeq(s, m, l) \in Seq(Payment)
      /\ Len(SubSeq(s, m, l)) = l - m + 1
  OBVIOUS
<1>2. \A i \in 1..(l - m + 1) : SubSeq(s, m, l)[i] = s[m + i - 1]
  OBVIOUS
<1> QED
  BY <1>1, <1>2

\* Two lists of payments joined.
LEMMA Joined ==
    ASSUME NEW a \in Seq(Payment), NEW b \in Seq(Payment)
    PROVE  /\ a \o b \in Seq(Payment) /\ Len(a \o b) = Len(a) + Len(b)
           /\ \A i \in 1..(Len(a) + Len(b)) :
                  (a \o b)[i] = IF i <= Len(a) THEN a[i] ELSE b[i - Len(a)]
<1>1. a \o b \in Seq(Payment) /\ Len(a \o b) = Len(a) + Len(b)
  OBVIOUS
<1>2. \A i \in 1..(Len(a) + Len(b)) : (a \o b)[i] = IF i <= Len(a) THEN a[i] ELSE b[i - Len(a)]
  OBVIOUS
<1> QED
  BY <1>1, <1>2

\* The place in the copy of a payment that is inserted.
LEMMA Offset ==
    ASSUME NEW i \in Nat, NEW l \in Nat, NEW m \in Nat, NEW n \in Nat, n <= m, l < i, i <= l + m - n
    PROVE  i - l \in 1..(m - n) /\ n + (i - l) = i - l + n
  OBVIOUS

\* What is saved when the list s gets the copy c over its first n payments.
Merged(s, c, n) == SubSeq(c, 1, n) \o SubSeq(s, n + 1, Len(s)) \o SubSeq(c, n + 1, Len(c))

\* Length and members of what is saved.
LEMMA MergedList ==
    ASSUME NEW s \in Seq(Payment), NEW c \in Seq(Payment),
           NEW n \in Nat, n <= Len(s), n <= Len(c)
    PROVE  /\ Merged(s, c, n) \in Seq(Payment)
           /\ Len(Merged(s, c, n)) = Len(s) + Len(c) - n
           /\ \A i \in 1..(Len(s) + Len(c) - n) :
                  Merged(s, c, n)[i] = IF i <= n THEN c[i]
                                       ELSE IF i <= Len(s) THEN s[i]
                                       ELSE c[i - Len(s) + n]
<1> DEFINE a == SubSeq(c, 1, n)
           b == SubSeq(s, n + 1, Len(s))
           d == SubSeq(c, n + 1, Len(c))
<1>0. Len(s) \in Nat /\ Len(c) \in Nat /\ n + 1 \in Nat
  OBVIOUS
<1>1. /\ a \in Seq(Payment) /\ Len(a) = n
      /\ \A i \in 1..n : a[i] = c[i]
  <2>1. /\ a \in Seq(Payment) /\ Len(a) = n - 1 + 1
        /\ \A i \in 1..(n - 1 + 1) : a[i] = c[1 + i - 1]
    BY <1>0, PartOf
  <2> QED
    BY <2>1
<1>2. /\ b \in Seq(Payment) /\ Len(b) = Len(s) - n
      /\ \A i \in 1..(Len(s) - n) : b[i] = s[n + i]
  <2> DEFINE m == n + 1
             l == Len(s)
  <2>1. /\ b \in Seq(Payment) /\ Len(b) = l - m + 1
        /\ \A i \in 1..(l - m + 1) : b[i] = s[m + i - 1]
    BY <1>0, PartOf
  <2>2. \A i \in 1..(l - n) : i \in 1..(l - m + 1) /\ m + i - 1 = n + i
    BY <1>0
  <2> QED
    BY <2>1, <2>2, <1>0
<1>3. /\ d \in Seq(Payment) /\ Len(d) = Len(c) - n
      /\ \A i \in 1..(Len(c) - n) : d[i] = c[n + i]
  <2> DEFINE m == n + 1
             l == Len(c)
  <2>1. /\ d \in Seq(Payment) /\ Len(d) = l - m + 1
        /\ \A i \in 1..(l - m + 1) : d[i] = c[m + i - 1]
    BY <1>0, PartOf
  <2>2. \A i \in 1..(l - n) : i \in 1..(l - m + 1) /\ m + i - 1 = n + i
    BY <1>0
  <2> QED
    BY <2>1, <2>2, <1>0
<1> HIDE DEF a, b, d
<1>4. /\ a \o b \in Seq(Payment) /\ Len(a \o b) = Len(s)
      /\ \A i \in 1..Len(s) : (a \o b)[i] = IF i <= n THEN c[i] ELSE s[i]
  <2>1. /\ a \o b \in Seq(Payment) /\ Len(a \o b) = Len(a) + Len(b)
        /\ \A i \in 1..(Len(a) + Len(b)) :
               (a \o b)[i] = IF i <= Len(a) THEN a[i] ELSE b[i - Len(a)]
    BY <1>1, <1>2, Joined
  <2>2. Len(a) + Len(b) = Len(s)
    BY <1>0, <1>1, <1>2
  <2>3. ASSUME NEW i \in 1..Len(s)
        PROVE  (a \o b)[i] = IF i <= n THEN c[i] ELSE s[i]
    <3>1. (a \o b)[i] = IF i <= n THEN a[i] ELSE b[i - n]
      BY <2>1, <2>2, <1>1
    <3>2. CASE i <= n
      BY <3>1, <3>2, <1>1
    <3>3. CASE ~(i <= n)
      <4>1. i - n \in 1..(Len(s) - n) /\ n + (i - n) = i
        BY <3>3, <1>0
      <4>2. b[i - n] = s[n + (i - n)]
        BY <4>1, <1>2
      <4> QED
        BY <4>1, <4>2, <3>1, <3>3
    <3> QED
      BY <3>2, <3>3
  <2> QED
    BY <2>1, <2>2, <2>3
<1> DEFINE ab == a \o b
<1> HIDE DEF ab
<1>5. /\ ab \o d \in Seq(Payment) /\ Len(ab \o d) = Len(s) + Len(c) - n
      /\ \A i \in 1..(Len(s) + Len(c) - n) :
             (ab \o d)[i] = IF i <= Len(s) THEN ab[i] ELSE c[i - Len(s) + n]
  <2>0. ab \in Seq(Payment) /\ Len(ab) = Len(s)
    BY <1>4 DEF ab
  <2>1. /\ ab \o d \in Seq(Payment) /\ Len(ab \o d) = Len(ab) + Len(d)
        /\ \A i \in 1..(Len(ab) + Len(d)) :
               (ab \o d)[i] = IF i <= Len(ab) THEN ab[i] ELSE d[i - Len(ab)]
    BY <2>0, <1>3, Joined
  <2>2. Len(ab) + Len(d) = Len(s) + Len(c) - n
    BY <2>0, <1>0, <1>3
  <2>3. ASSUME NEW i \in 1..(Len(s) + Len(c) - n)
        PROVE  (ab \o d)[i] = IF i <= Len(s) THEN ab[i] ELSE c[i - Len(s) + n]
    <3>1. (ab \o d)[i] = IF i <= Len(s) THEN ab[i] ELSE d[i - Len(s)]
      BY <2>0, <2>1, <2>2
    <3>2. CASE ~(i <= Len(s))
      <4>0. i \in Nat /\ Len(s) < i /\ i <= Len(s) + Len(c) - n
        BY <3>2, <1>0
      <4>1. i - Len(s) \in 1..(Len(c) - n) /\ n + (i - Len(s)) = i - Len(s) + n
        BY <4>0, <1>0, Offset
      <4>2. d[i - Len(s)] = c[n + (i - Len(s))]
        BY <4>1, <1>3
      <4> QED
        BY <4>1, <4>2, <3>1, <3>2
    <3> QED
      BY <3>1, <3>2
  <2> QED
    BY <2>1, <2>2, <2>3
<1>6. Merged(s, c, n) = ab \o d
  BY DEF Merged, ab, a, b, d
<1>7. ASSUME NEW i \in 1..(Len(s) + Len(c) - n)
      PROVE  (ab \o d)[i] = IF i <= n THEN c[i]
                                   ELSE IF i <= Len(s) THEN s[i]
                                   ELSE c[i - Len(s) + n]
  <2>1. i \in Nat /\ 1 <= i
    BY <1>0
  <2>2. CASE i <= Len(s)
    <3>1. i \in 1..Len(s)
      BY <2>1, <2>2, <1>0
    <3> QED
      BY <2>2, <3>1, <1>0, <1>4, <1>5 DEF ab
  <2>3. CASE ~(i <= Len(s))
    BY <2>1, <2>3, <1>0, <1>5
  <2> QED
    BY <2>2, <2>3
<1> QED
  BY <1>5, <1>6, <1>7

\* The list new is what the list was, written over from the copy c of its first n
\* payments: payments are overwritten in place, or the copy's last is added.
Mixed(new, was, c, n) ==
    /\ new \in Seq(Payment) /\ Len(was) <= Len(new)
    /\ \A k \in DOMAIN new :
           \/ k \in DOMAIN was /\ new[k] = was[k]
           \/ k \in DOMAIN was /\ k \in DOMAIN c /\ k <= n /\ new[k] = c[k]
           \/ k = Len(was) + 1 /\ Len(c) = n + 1 /\ new[k] = c[k - Len(was) + n]

\* What such a list has of the two lists.
LEMMA MixedParts ==
    ASSUME NEW was \in Seq(Payment), NEW c \in Seq(Payment), NEW n \in Nat, NEW new,
           n <= Len(c), n <= Len(was), Mixed(new, was, c, n)
    PROVE  \A k \in DOMAIN new :
               \/ k \in DOMAIN was /\ new[k] = was[k]
               \/ k \in DOMAIN was /\ k \in DOMAIN c /\ k <= n /\ new[k] = c[k]
               \/ k = Len(was) + 1 /\ n + 1 \in DOMAIN c /\ new[k] = c[n + 1]
<1> SUFFICES ASSUME NEW k \in DOMAIN new, k = Len(was) + 1, Len(c) = n + 1, new[k] = c[k - Len(was) + n]
             PROVE  n + 1 \in DOMAIN c /\ new[k] = c[n + 1]
  BY DEF Mixed
<1>1. Len(was) \in Nat /\ k - Len(was) + n = n + 1
  OBVIOUS
<1> QED
  BY <1>1

\* It has no other addresses, and shows no more as unpaid, than the two.
LEMMA MixedHas ==
    ASSUME NEW was \in Seq(Payment), NEW c \in Seq(Payment), NEW n \in Nat, NEW new,
           n <= Len(c), n <= Len(was), Mixed(new, was, c, n)
    PROVE  /\ \A a : HasAddress(new, a) => HasAddress(was, a) \/ HasAddress(c, a)
           /\ Unpaid(new) \subseteq Unpaid(was) \cup Unpaid(c)
           /\ \A a : PaidOrGone(was, a) /\ PaidOrGone(c, a) => PaidOrGone(new, a)
<1>1. \A k \in DOMAIN new : (\E i \in DOMAIN was : new[k] = was[i]) \/ (\E i \in DOMAIN c : new[k] = c[i])
  BY MixedParts
<1>2. \A a : HasAddress(new, a) => HasAddress(was, a) \/ HasAddress(c, a)
  BY <1>1 DEF HasAddress
<1>3. Unpaid(new) \subseteq Unpaid(was) \cup Unpaid(c)
  BY <1>1 DEF Unpaid
<1>4. \A a : PaidOrGone(was, a) /\ PaidOrGone(c, a) => PaidOrGone(new, a)
  BY <1>1 DEF PaidOrGone
<1> QED
  BY <1>2, <1>3, <1>4

\* One payment per address, if the two lists agree where they have one.
LEMMA MixedOneEach ==
    ASSUME NEW was \in Seq(Payment), NEW c \in Seq(Payment), NEW n \in Nat, NEW new,
           n <= Len(c), n <= Len(was), Mixed(new, was, c, n),
           OneEach(was), OneEach(c), Aligned(was, Len(was), c, n)
    PROVE  OneEach(new)
<1> SUFFICES ASSUME NEW i \in DOMAIN new, NEW j \in DOMAIN new, new[i].addr = new[j].addr
             PROVE  i = j
  BY DEF OneEach
<1>1. ASSUME NEW k \in DOMAIN new
      PROVE  \/ k \in DOMAIN was /\ new[k] = was[k]
             \/ k \in DOMAIN was /\ k \in DOMAIN c /\ k <= n /\ new[k] = c[k]
             \/ k = Len(was) + 1 /\ n + 1 \in DOMAIN c /\ new[k] = c[n + 1]
  BY MixedParts
<1>2. \A k \in DOMAIN was, l \in DOMAIN c : was[k].addr = c[l].addr => k = l /\ l <= n
  BY DEF Aligned
<1>3. ~(n + 1 <= n)
  OBVIOUS
<1> QED
  BY <1>1, <1>2, <1>3 DEF OneEach

\* It agrees with a third list if the two do.
LEMMA MixedAligned ==
    ASSUME NEW was \in Seq(Payment), NEW c \in Seq(Payment), NEW n \in Nat, NEW new,
           n <= Len(c), n <= Len(was), Mixed(new, was, c, n), NEW d, NEW m,
           Aligned(was, Len(was), d, m), Aligned(c, n, d, m)
    PROVE  Aligned(new, Len(new), d, m)
<1> SUFFICES ASSUME NEW i \in DOMAIN new, NEW j \in DOMAIN d, new[i].addr = d[j].addr
             PROVE  i = j /\ i <= Len(new) /\ j <= m
  BY DEF Aligned
<1>1. \/ i \in DOMAIN was /\ new[i] = was[i]
      \/ i \in DOMAIN was /\ i \in DOMAIN c /\ i <= n /\ new[i] = c[i]
      \/ i = Len(was) + 1 /\ n + 1 \in DOMAIN c /\ new[i] = c[n + 1]
  BY MixedParts
<1>2. ~(n + 1 <= n)
  OBVIOUS
<1>3. i = j /\ j <= m
  BY <1>1, <1>2 DEF Aligned
<1>4. i <= Len(new)
  BY DEF Mixed
<1> QED
  BY <1>3, <1>4

\* It agrees with the copy if that has nothing to add.
LEMMA MixedOwn ==
    ASSUME NEW was \in Seq(Payment), NEW c \in Seq(Payment), NEW n \in Nat, NEW new,
           n = Len(c), n <= Len(was), Mixed(new, was, c, n),
           OneEach(c), Aligned(was, Len(was), c, n)
    PROVE  Aligned(new, Len(new), c, n)
<1>1. Aligned(c, n, c, n)
  BY DEF Aligned, OneEach
<1> QED
  BY <1>1, MixedAligned

\* What gorm leaves of the rows.
LEMMA SavedMixed ==
    ASSUME NEW was \in Seq(Payment), NEW c \in Seq(Payment), NEW n \in Nat,
           n <= Len(c), n <= Len(was), Len(c) \in {n, n + 1}
    PROVE  /\ Mixed(Merged(was, c, n), was, c, n)
           /\ Len(c) = n => \A k \in DOMAIN Merged(was, c, n) :
                  Merged(was, c, n)[k] = IF k <= n THEN c[k] ELSE was[k]
<1> DEFINE new == Merged(was, c, n)
<1>1. /\ new \in Seq(Payment) /\ Len(new) = Len(was) + Len(c) - n
      /\ \A i \in 1..(Len(was) + Len(c) - n) :
             new[i] = IF i <= n THEN c[i] ELSE IF i <= Len(was) THEN was[i] ELSE c[i - Len(was) + n]
  BY MergedList
<1>2. Len(was) \in Nat /\ Len(c) \in Nat
  OBVIOUS
<1> HIDE DEF new
<1>3. DOMAIN new = 1..(Len(was) + Len(c) - n) /\ Len(was) <= Len(new)
  BY <1>1, <1>2
<1>4. ASSUME NEW k \in DOMAIN new
      PROVE  \/ k \in DOMAIN was /\ new[k] = was[k]
             \/ k \in DOMAIN was /\ k \in DOMAIN c /\ k <= n /\ new[k] = c[k]
             \/ k = Len(was) + 1 /\ Len(c) = n + 1 /\ new[k] = c[k - Len(was) + n]
  <2>1. k \in Nat /\ 1 <= k /\ k <= Len(was) + Len(c) - n
    BY <1>2, <1>3
  <2>2. CASE k <= n
    BY <1>1, <1>2, <1>3, <2>1, <2>2
  <2>3. CASE ~(k <= n) /\ k <= Len(was)
    BY <1>1, <1>2, <1>3, <2>1, <2>3
  <2>4. CASE ~(k <= Len(was))
    <3>1. k = Len(was) + 1 /\ Len(c) = n + 1 /\ ~(k <= n)
      BY <1>2, <2>1, <2>4
    <3> QED
      BY <1>1, <1>3, <2>4, <3>1
  <2> QED
    BY <2>2, <2>3, <2>4
<1>5. Mixed(new, was, c, n)
  BY <1>1, <1>3, <1>4 DEF Mixed
<1>6. ASSUME Len(c) = n, NEW k \in DOMAIN new PROVE new[k] = IF k <= n THEN c[k] ELSE was[k]
  <2>1. k <= Len(was) /\ k \in 1..(Len(was) + Len(c) - n)
    BY <1>2, <1>3, <1>6
  <2> QED
    BY <1>1, <2>1
<1> QED
  BY <1>5, <1>6 DEF new

\* A transaction is recorded in a copy.
LEMMA Marked ==
    ASSUME NEW p \in Seq(Payment), NEW a, HasAddress(p, a)
    PROVE  /\ MarkPaid(p, a) \in Seq(Payment) /\ Len(MarkPaid(p, a)) = Len(p)
           /\ DOMAIN MarkPaid(p, a) = DOMAIN p
           /\ \A i \in DOMAIN p :
                  /\ MarkPaid(p, a)[i].addr = p[i].addr
                  /\ p[i].paid => MarkPaid(p, a)[i].paid
           /\ OneEach(p) => PaidOrGone(MarkPaid(p, a), a)
<1> DEFINE S == {j \in DOMAIN p : p[j].addr = a}
           i == CHOOSE j \in DOMAIN p : p[j].addr = a /\ \A k \in 1..(j - 1) : p[k].addr # a
           m == [p EXCEPT ![i].paid = TRUE]
<1>1. DOMAIN p = 1..Len(p) /\ Len(p) \in Nat /\ \A j \in DOMAIN p : p[j] \in Payment
  OBVIOUS
<1>2. PICK j \in S : \A k \in S : j <= k
  <2>1. S \subseteq Nat /\ S # {}
    BY <1>1 DEF HasAddress
  <2> HIDE DEF S
  <2> QED
    BY <2>1, Least
<1>3. \A k \in 1..(j - 1) : p[k].addr # a
  <2> SUFFICES ASSUME NEW k \in 1..(j - 1), p[k].addr = a PROVE FALSE
    OBVIOUS
  <2>1. k \in DOMAIN p /\ ~(j <= k)
    BY <1>1
  <2> QED
    BY <2>1, <1>2
<1>4. i \in DOMAIN p /\ p[i].addr = a
  BY <1>3
<1>5. MarkPaid(p, a) = m
  BY DEF MarkPaid
<1> HIDE DEF i
<1>6. /\ m \in Seq(Payment) /\ Len(m) = Len(p) /\ DOMAIN m = DOMAIN p
      /\ m[i] = [p[i] EXCEPT !.paid = TRUE]
      /\ \A k \in DOMAIN p : k # i => m[k] = p[k]
  <2>1. [p[i] EXCEPT !.paid = TRUE] \in Payment
    BY <1>1, <1>4 DEF Payment
  <2> QED
    BY <1>1, <1>4, <2>1
<1> HIDE DEF m
<1>7. m[i].addr = p[i].addr /\ m[i].paid
  BY <1>1, <1>4, <1>6 DEF Payment
<1>8. OneEach(p) => PaidOrGone(m, a)
  BY <1>4, <1>6, <1>7 DEF OneEach, PaidOrGone
<1> QED
  BY <1>5, <1>6, <1>7, <1>8

\* The first payment for the total.
LEMMA FirstOne ==
    ASSUME NEW p \in Seq(Payment), TotalAt(p) # {}
    PROVE  FirstTotal(p) \in DOMAIN p
<1>1. TotalAt(p) \subseteq Nat /\ TotalAt(p) \subseteq DOMAIN p
  BY DEF TotalAt
<1>2. \E i \in TotalAt(p) : \A j \in TotalAt(p) : i <= j
  BY <1>1, Least
<1>3. FirstTotal(p) \in TotalAt(p)
  BY <1>2 DEF FirstTotal
<1> QED
  BY <1>1, <1>3

\* A copy gets the address that was derived: its first payment for the total,
\* or a new payment at its end.
LEMMA WithNew ==
    ASSUME NEW q \in Request, NEW new, NEW d, new = WithNewAddress(q), d = Replaced(q)
    PROVE  /\ new \in Seq(Payment) /\ d \in Addresses
           /\ \/ /\ TotalAt(new) # {} /\ Len(new) = Len(q.payments)
                 /\ FirstTotal(new) = FirstTotal(q.payments)
                 /\ FirstTotal(new) \in DOMAIN q.payments /\ FirstTotal(new) \in DOMAIN new
                 /\ new[FirstTotal(new)].addr = q.addr
                 /\ q.payments[FirstTotal(new)].addr = d
              \/ Len(new) = Len(q.payments) + 1 /\ new[Len(new)].addr = q.addr /\ d = q.addr
           /\ \A k \in DOMAIN new :
                  \/ k \in DOMAIN q.payments /\ new[k] = q.payments[k]
                  \/ /\ new[k].addr = q.addr
                     /\ \A l \in DOMAIN new : l # k => l \in DOMAIN q.payments /\ new[l] = q.payments[l]
<1> DEFINE p == q.payments
<1>1. p \in Seq(Payment) /\ q.addr \in Addresses /\ Len(p) \in Nat /\ DOMAIN p = 1..Len(p)
  BY DEF Request
<1>2. CASE Recreates(q)
  <2> DEFINE i == FirstTotal(p)
             e == [p[i] EXCEPT !.addr = q.addr]
  <2>1. i \in DOMAIN p
    BY <1>1, <1>2, FirstOne DEF Recreates
  <2>2. new = [p EXCEPT ![i].addr = q.addr]
    BY <1>2 DEF WithNewAddress
  <2> HIDE DEF i
  <2>3. p[i] \in Payment
    BY <1>1, <2>1
  <2>4. e \in Payment /\ e.addr = q.addr /\ e.total = p[i].total
    BY <1>1, <2>3 DEF Payment
  <2>5. new = [p EXCEPT ![i] = e]
    BY <2>2
  <2> HIDE DEF e
  <2>6. /\ new \in Seq(Payment) /\ Len(new) = Len(p) /\ DOMAIN new = DOMAIN p /\ new[i] = e
        /\ \A k \in DOMAIN p : k # i => new[k] = p[k]
    BY <1>1, <2>1, <2>4, <2>5
  <2>7. TotalAt(new) = TotalAt(p)
    BY <2>4, <2>6 DEF TotalAt
  <2>8. FirstTotal(new) = i
    BY <2>7 DEF FirstTotal, i
  <2>9. d = p[i].addr /\ d \in Addresses
    BY <1>2, <2>3 DEF Replaced, i, Payment
  <2>10. TotalAt(new) # {}
    BY <1>2, <2>7 DEF Recreates
  <2> QED
    BY <2>1, <2>4, <2>6, <2>8, <2>9, <2>10 DEF i
<1>3. CASE ~Recreates(q)
  <2> DEFINE e == [addr |-> q.addr, total |-> q.op = "total", paid |-> FALSE]
  <2>1. e \in Payment /\ e.addr = q.addr
    BY <1>1 DEF Payment
  <2>2. new = Append(p, e) /\ d = q.addr
    BY <1>3 DEF WithNewAddress, Replaced
  <2> HIDE DEF e
  <2>3. /\ new \in Seq(Payment) /\ Len(new) = Len(p) + 1 /\ DOMAIN new = 1..(Len(p) + 1)
        /\ new[Len(p) + 1] = e /\ \A k \in 1..Len(p) : new[k] = p[k]
    BY <1>1, <2>1, <2>2
  <2>4. \A k \in 1..(Len(p) + 1) : k # Len(p) + 1 => k \in 1..Len(p)
    BY <1>1
  <2> QED
    BY <1>1, <2>1, <2>2, <2>3, <2>4
<1> QED
  BY <1>2, <1>3

\* No other address than that comes in, and nothing else becomes unpaid.
LEMMA WithNewHas ==
    ASSUME NEW q \in Request, NEW new, new = WithNewAddress(q)
    PROVE  /\ \A a : HasAddress(new, a) => HasAddress(q.payments, a) \/ a = q.addr
           /\ Unpaid(new) \subseteq Unpaid(q.payments) \cup {q.addr}
           /\ \A a : a # q.addr /\ PaidOrGone(q.payments, a) => PaidOrGone(new, a)
           /\ OneEach(q.payments) /\ ~HasAddress(q.payments, q.addr) => OneEach(new)
<1>1. \A k \in DOMAIN new :
          \/ k \in DOMAIN q.payments /\ new[k] = q.payments[k]
          \/ /\ new[k].addr = q.addr
             /\ \A l \in DOMAIN new : l # k => l \in DOMAIN q.payments /\ new[l] = q.payments[l]
  BY WithNew
<1>2. \A a : HasAddress(new, a) => HasAddress(q.payments, a) \/ a = q.addr
  BY <1>1 DEF HasAddress
<1>3. Unpaid(new) \subseteq Unpaid(q.payments) \cup {q.addr}
  BY <1>1 DEF Unpaid
<1>4. \A a : a # q.addr /\ PaidOrGone(q.payments, a) => PaidOrGone(new, a)
  BY <1>1 DEF PaidOrGone
<1>5. OneEach(q.payments) /\ ~HasAddress(q.payments, q.addr) => OneEach(new)
  BY <1>1 DEF OneEach, HasAddress
<1> QED
  BY <1>2, <1>3, <1>4, <1>5

-----------------------------------------------------------------------------
(* A step of a worker *)

\* The copies have their lengths when no row is taken away.
LEMMA CopiesStay ==
    ASSUME TypeOK, Copies, NEW w \in Workers, NEW q \in Request, req' = [req EXCEPT ![w] = q],
           \A t \in Tokens : rows[t] \in Seq(Payment) /\ rows'[t] \in Seq(Payment)
                               /\ Len(rows[t]) <= Len(rows'[t]),
           Copied(w)'
    PROVE  Copies'
<1> SUFFICES ASSUME NEW v \in Workers, v # w PROVE Copied(v)'
  BY DEF Copies
<1>1. req'[v] = req[v] /\ req[v] \in Request
  BY DEF TypeOK
<1>2. Copied(v)
  BY DEF Copies
<1>3. req[v].token \in Tokens /\ req[v].saved <= Len(rows[req[v].token]) => req[v].saved <= Len(rows'[req[v].token])
  <2> SUFFICES ASSUME req[v].token \in Tokens, req[v].saved <= Len(rows[req[v].token])
               PROVE  req[v].saved <= Len(rows'[req[v].token])
    OBVIOUS
  <2>1. /\ Len(rows[req[v].token]) \in Nat /\ Len(rows'[req[v].token]) \in Nat
        /\ Len(rows[req[v].token]) <= Len(rows'[req[v].token]) /\ req[v].saved \in Nat
    BY <1>1 DEF Request
  <2> QED
    BY <2>1
<1> QED
  BY <1>1, <1>2, <1>3 DEF Copied

\* Only the address that is derived gets an owner.
LEMMA OwnersStay ==
    ASSUME TypeOK, TypeOK', Separate, NEW t \in Tokens, index <= index',
           \A u \in Tokens \ {t}, a \in Addresses : Knows(u, a)' => Knows(u, a),
           \A a \in Addresses : Knows(t, a)' => Knows(t, a) \/ (a = index /\ index < index')
    PROVE  /\ Separate'
           /\ \A u \in Tokens, a \in Addresses : Owned(a, u) => Owned(a, u)'
<1>1. index \in Nat /\ index' \in Nat /\ \A a \in Addresses : a \in Nat
  BY ConstantsAssumption DEF TypeOK, Addresses
<1>2. ASSUME NEW u \in Tokens, NEW a \in Addresses, Owned(a, u)
      PROVE  Owned(a, u)'
  <2>1. a < index /\ a < index' /\ a # index
    BY <1>1, <1>2 DEF Owned
  <2>2. \A v \in Tokens : Knows(v, a)' => v = u
    BY <1>2, <2>1 DEF Owned
  <2> QED
    BY <2>1, <2>2 DEF Owned
<1>3. ASSUME NEW u \in Tokens, NEW a \in Addresses, Knows(u, a)'
      PROVE  Owned(a, u)'
  <2>1. CASE Knows(u, a)
    BY <1>2, <2>1 DEF Separate
  <2>2. CASE ~Knows(u, a)
    <3>1. u = t /\ a = index /\ a < index'
      BY <1>3, <2>2
    <3>2. \A v \in Tokens : v # t => ~Knows(v, a)'
      BY <1>1, <3>1 DEF Separate, Owned
    <3> QED
      BY <3>1, <3>2 DEF Owned
  <2> QED
    BY <2>1, <2>2
<1> QED
  BY <1>2, <1>3 DEF Separate

\* What worker w holds next of invoice t: the invoice as it is read, or its
\* copy with every address in its place, the derived one at its end or instead
\* of another, or nothing.
Keeps(w, t, q) ==
    \/ q.payments = rows[t] /\ q.saved = Len(rows[t]) /\ rows' = rows
    \/ \A k \in DOMAIN q.payments :
           /\ req[w].token = t /\ q.saved = req[w].saved
           /\ \/ k \in DOMAIN req[w].payments /\ q.payments[k].addr = req[w].payments[k].addr
              \/ q.payments[k].addr = index /\ index < index'

\* Worker w goes on with invoice t and then holds q: it may read the invoice,
\* derive an address, write its copy to politeiad or to the rows.
Works(w, t, q) ==
    /\ req' = [req EXCEPT ![w] = q]
    /\ req[w].token \in {t, NoToken} /\ q.token \in {t, NoToken}
    /\ \A u \in Tokens : u # t => rows'[u] = rows[u] /\ stream'[u] = stream[u]
    /\ \/ rows'[t] = rows[t]
       \/ /\ req[w].token = t /\ Mixed(rows'[t], rows[t], req[w].payments, req[w].saved)
          /\ \/ q.payments = <<>>
             \/ /\ q.payments = req[w].payments /\ q.saved = req[w].saved
                /\ q.saved = Len(q.payments)
    /\ stream'[t] = stream[t] \/ stream'[t] = q.payments
    /\ q.payments = <<>> \/ q.token = t
    /\ Keeps(w, t, q)
    /\ OneEach(q.payments)
    /\ index' = index \/ (req[w].step = "derived" /\ index < index')
    /\ q.step = "derived" => \A v \in Workers \ {w} : req[v].step # "derived"
    /\ contended \subseteq contended' /\ missed \subseteq missed'
    /\ req[w].token = t \/ \A v \in Workers \ {w} : req[v].token = t => t \in contended'
    /\ recorded \subseteq recorded' /\ \A r \in recorded' \ recorded : r[1] = t
    /\ \A a \in Addresses : polled'[a] = polled[a] \/ Owned(a, t)

\* Who holds what before and after such a step.
LEMMA WorksReq ==
    ASSUME TypeOK, Copies, NEW w \in Workers, NEW t \in Tokens, NEW q \in Request, Works(w, t, q)
    PROVE  /\ req'[w] = q
           /\ \A v \in Workers : req[v] \in Request /\ (v # w => req'[v] = req[v])
           /\ rows[t] \in Seq(Payment)
           /\ req[w].token = t =>
                  /\ req[w].payments \in Seq(Payment) /\ req[w].saved \in Nat
                  /\ req[w].saved <= Len(req[w].payments) /\ req[w].saved <= Len(rows[t])
<1>1. req'[w] = q /\ \A v \in Workers : req[v] \in Request /\ (v # w => req'[v] = req[v])
  BY DEF TypeOK, Works
<1>2. rows[t] \in Seq(Payment)
  BY DEF TypeOK
<1>3. ASSUME req[w].token = t
      PROVE  /\ req[w].payments \in Seq(Payment) /\ req[w].saved \in Nat
             /\ req[w].saved <= Len(req[w].payments) /\ req[w].saved <= Len(rows[t])
  <2>1. req[w].token # NoToken
    BY <1>3, ConstantsAssumption
  <2>2. req[w].saved <= Len(req[w].payments) /\ req[w].saved <= Len(rows[t])
    BY <1>3, <2>1 DEF Copies, Copied
  <2> QED
    BY <1>1, <2>2 DEF Request
<1> QED
  BY <1>1, <1>2, <1>3

\* No invoice gets another address than the derived one.
LEMMA WorksKnows ==
    ASSUME TypeOK, Copies, NEW w \in Workers, NEW t \in Tokens, NEW q \in Request, Works(w, t, q)
    PROVE  /\ \A u \in Tokens \ {t}, a \in Addresses : Knows(u, a)' => Knows(u, a)
           /\ \A a \in Addresses : Knows(t, a)' => Knows(t, a) \/ (a = index /\ index < index')
<1>1. /\ req'[w] = q /\ \A v \in Workers : v # w => req'[v] = req[v]
      /\ rows[t] \in Seq(Payment)
      /\ req[w].token = t =>
             /\ req[w].payments \in Seq(Payment) /\ req[w].saved \in Nat
             /\ req[w].saved <= Len(req[w].payments) /\ req[w].saved <= Len(rows[t])
  BY WorksReq
<1>2. \A a : HasAddress(<<>>, a) => FALSE
  BY DEF HasAddress
<1>3. ASSUME NEW u \in Tokens, u # t, NEW a \in Addresses, Knows(u, a)'
      PROVE  Knows(u, a)
  <2>1. rows'[u] = rows[u] /\ stream'[u] = stream[u] /\ q.token # u
    BY <1>3, ConstantsAssumption DEF Works
  <2>2. \A v \in Workers : req'[v].token = u => req'[v] = req[v]
    BY <1>1, <2>1
  <2> QED
    BY <1>3, <2>1, <2>2 DEF Knows, HasAddress
<1>4. ASSUME NEW a \in Addresses, HasAddress(q.payments, a)
      PROVE  Knows(t, a) \/ (a = index /\ index < index')
  <2>1. CASE q.payments = rows[t]
    BY <1>4, <2>1 DEF Knows
  <2>2. CASE \A k \in DOMAIN q.payments :
                 /\ req[w].token = t /\ q.saved = req[w].saved
                 /\ \/ k \in DOMAIN req[w].payments /\ q.payments[k].addr = req[w].payments[k].addr
                    \/ q.payments[k].addr = index /\ index < index'
    <3>1. PICK k \in DOMAIN q.payments : q.payments[k].addr = a
      BY <1>4 DEF HasAddress
    <3>2. (HasAddress(req[w].payments, a) /\ req[w].token = t) \/ (a = index /\ index < index')
      BY <2>2, <3>1 DEF HasAddress
    <3> QED
      BY <3>2 DEF Knows
  <2> QED
    BY <2>1, <2>2 DEF Works, Keeps
<1>5. ASSUME NEW a \in Addresses, HasAddress(rows'[t], a)
      PROVE  Knows(t, a)
  <2>1. CASE rows'[t] = rows[t]
    BY <1>5, <2>1 DEF Knows
  <2>2. CASE req[w].token = t /\ Mixed(rows'[t], rows[t], req[w].payments, req[w].saved)
    <3>1. HasAddress(rows[t], a) \/ HasAddress(req[w].payments, a)
      BY <1>1, <1>5, <2>2, MixedHas
    <3> QED
      BY <2>2, <3>1 DEF Knows
  <2> QED
    BY <2>1, <2>2 DEF Works
<1>6. ASSUME NEW a \in Addresses, HasAddress(stream'[t], a)
      PROVE  Knows(t, a) \/ (a = index /\ index < index')
  <2>1. CASE stream'[t] = stream[t]
    BY <1>6, <2>1 DEF Knows
  <2>2. CASE stream'[t] = q.payments
    BY <1>4, <1>6, <2>2
  <2> QED
    BY <2>1, <2>2 DEF Works
<1>7. ASSUME NEW a \in Addresses, Knows(t, a)'
      PROVE  Knows(t, a) \/ (a = index /\ index < index')
  <2>1. CASE HasAddress(rows[t], a)'
    BY <1>5, <2>1 DEF HasAddress
  <2>2. CASE HasAddress(stream[t], a)'
    BY <1>6, <2>2 DEF HasAddress
  <2>3. CASE \E v \in Workers : req'[v].token = t /\ HasAddress(req'[v].payments, a)
    <3>1. PICK v \in Workers : req'[v].token = t /\ HasAddress(req'[v].payments, a)
      BY <2>3
    <3>2. CASE v = w
      BY <1>1, <1>4, <3>1, <3>2
    <3>3. CASE v # w
      BY <1>1, <3>1, <3>3 DEF Knows
    <3> QED
      BY <3>2, <3>3
  <2> QED
    BY <1>7, <2>1, <2>2, <2>3 DEF Knows, HasAddress
<1> QED
  BY <1>3, <1>7

\* Owners stay owners.
LEMMA WorksOwners ==
    ASSUME TypeOK, TypeOK', Copies, Separate,
           NEW w \in Workers, NEW t \in Tokens, NEW q \in Request, Works(w, t, q)
    PROVE  /\ Separate'
           /\ \A u \in Tokens, a \in Addresses : Owned(a, u) => Owned(a, u)'
<1>1. index <= index'
  BY ConstantsAssumption DEF TypeOK, Addresses, Works
<1> QED
  BY <1>1, WorksKnows, OwnersStay

\* What a worker holds next agrees with a list that its copy agrees with.
LEMMA KeepsAligned ==
    ASSUME NEW w, NEW t, NEW q, NEW d, NEW m,
           \A k \in DOMAIN q.payments :
               /\ req[w].token = t /\ q.saved = req[w].saved
               /\ \/ k \in DOMAIN req[w].payments /\ q.payments[k].addr = req[w].payments[k].addr
                  \/ q.payments[k].addr = index /\ index < index',
           req[w].token = t => Aligned(d, m, req[w].payments, req[w].saved),
           index < index' => ~HasAddress(d, index)
    PROVE  Aligned(d, m, q.payments, q.saved) /\ Aligned(q.payments, q.saved, d, m)
<1>1. ASSUME NEW i \in DOMAIN d, NEW k \in DOMAIN q.payments, d[i].addr = q.payments[k].addr
      PROVE  i = k /\ i <= m /\ k <= q.saved
  <2>1. k \in DOMAIN req[w].payments /\ q.payments[k].addr = req[w].payments[k].addr
    BY <1>1 DEF HasAddress
  <2> QED
    BY <1>1, <2>1 DEF Aligned
<1> QED
  BY <1>1 DEF Aligned

\* The lists stay apart.
LEMMA WorksLists ==
    ASSUME TypeOK, TypeOK', Copies, Telling,
           NEW w \in Workers, NEW t \in Tokens, NEW q \in Request, Works(w, t, q)
    PROVE  /\ \A u \in Tokens : Single(u)'
           /\ \A v \in Workers : Fits(v)'
           /\ \A v \in Workers \ {w} : Together(w, v)' /\ Together(v, w)'
           /\ \A v, x \in Workers \ {w} : v # x => Together(v, x)'
<1> DEFINE c == req[w].payments
           n == req[w].saved
<1>1. /\ req'[w] = q /\ \A v \in Workers : req[v] \in Request /\ (v # w => req'[v] = req[v])
      /\ rows[t] \in Seq(Payment) /\ t # NoToken
      /\ req[w].token = t =>
             /\ c \in Seq(Payment) /\ n \in Nat /\ n <= Len(c) /\ n <= Len(rows[t])
  BY WorksReq, ConstantsAssumption
<1>2. /\ \A u \in Tokens : Single(u)
      /\ \A v \in Workers : Fits(v)
      /\ \A v, x \in Workers : v # x => Together(v, x)
  BY DEF Telling
<1>3. index < index' => \A u \in Tokens : ~Knows(u, index)
  <2>1. index \in Addresses /\ ~(index < index)
    BY ConstantsAssumption DEF TypeOK, Addresses
  <2> QED
    BY <2>1 DEF Telling, Separate, Owned
<1>4. ASSUME req[w].token = t
      PROVE  OneEach(c) /\ Aligned(rows[t], Len(rows[t]), c, n)
  BY <1>2, <1>4 DEF Fits
<1>5. OneEach(q.payments)
  BY DEF Works
<1>6. ASSUME NEW u \in Tokens PROVE Single(u)'
  <2>1. CASE u # t
    <3>1. rows'[u] = rows[u] /\ stream'[u] = stream[u]
      BY <2>1 DEF Works
    <3> QED
      BY <1>2, <3>1 DEF Single, OneEach
  <2>2. CASE u = t
    <3>1. OneEach(rows'[t])
      <4>1. CASE rows'[t] = rows[t]
        BY <1>2, <4>1 DEF Single, OneEach
      <4>2. CASE req[w].token = t /\ Mixed(rows'[t], rows[t], c, n)
        <5>1. OneEach(rows[t])
          BY <1>2 DEF Single
        <5> QED
          BY <1>1, <1>4, <4>2, <5>1, MixedOneEach
      <4> QED
        BY <4>1, <4>2 DEF Works
    <3>2. OneEach(stream'[t])
      BY <1>2, <1>5 DEF Single, OneEach, Works
    <3> QED
      BY <2>2, <3>1, <3>2 DEF Single, OneEach
  <2> QED
    BY <2>1, <2>2
<1>7. Aligned(rows'[t], Len(rows'[t]), q.payments, q.saved)
  <2>1. CASE q.payments = <<>>
    BY <2>1 DEF Aligned
  <2>2. CASE q.payments = rows[t] /\ q.saved = Len(rows[t]) /\ rows' = rows
    BY <1>1, <1>2, <2>2 DEF Aligned, Single, OneEach
  <2>3. CASE q.payments # <<>> /\ \A k \in DOMAIN q.payments :
                 /\ req[w].token = t /\ q.saved = n
                 /\ \/ k \in DOMAIN c /\ q.payments[k].addr = c[k].addr
                    \/ q.payments[k].addr = index /\ index < index'
    <3>1. CASE rows'[t] = rows[t]
      <4>1. index < index' => ~HasAddress(rows[t], index)
        BY <1>3 DEF Knows
      <4> QED
        BY <1>4, <2>3, <3>1, <4>1, KeepsAligned
    <3>2. CASE /\ req[w].token = t /\ Mixed(rows'[t], rows[t], c, n)
               /\ q.payments = c /\ q.saved = n /\ q.saved = Len(q.payments)
      BY <1>1, <1>4, <3>2, MixedOwn
    <3> QED
      BY <2>3, <3>1, <3>2 DEF Works
  <2> QED
    BY <2>1, <2>2, <2>3 DEF Works, Keeps
<1>8. ASSUME NEW v \in Workers \ {w}, req[v].token = t
      PROVE  /\ Aligned(rows'[t], Len(rows'[t]), req[v].payments, req[v].saved)
             /\ Aligned(q.payments, q.saved, req[v].payments, req[v].saved)
             /\ Aligned(req[v].payments, req[v].saved, q.payments, q.saved)
             /\ t \in contended'
  <2> DEFINE d == req[v].payments
             m == req[v].saved
  <2>1. Aligned(rows[t], Len(rows[t]), d, m)
    BY <1>2, <1>8 DEF Fits
  <2>2. req[w].token = t => Aligned(c, n, d, m) /\ Aligned(d, m, c, n) /\ t \in contended
    BY <1>2, <1>8 DEF Together
  <2>3. Aligned(rows'[t], Len(rows'[t]), d, m)
    <3>1. CASE rows'[t] = rows[t]
      BY <2>1, <3>1
    <3>2. CASE req[w].token = t /\ Mixed(rows'[t], rows[t], c, n)
      BY <1>1, <2>1, <2>2, <3>2, MixedAligned
    <3> QED
      BY <3>1, <3>2 DEF Works
  <2>4. Aligned(q.payments, q.saved, d, m) /\ Aligned(d, m, q.payments, q.saved)
    <3>1. CASE q.payments = rows[t] /\ q.saved = Len(rows[t])
      BY <2>1, <3>1 DEF Aligned
    <3>2. CASE \A k \in DOMAIN q.payments :
                   /\ req[w].token = t /\ q.saved = n
                   /\ \/ k \in DOMAIN c /\ q.payments[k].addr = c[k].addr
                      \/ q.payments[k].addr = index /\ index < index'
      <4>1. index < index' => ~HasAddress(d, index)
        BY <1>3, <1>8 DEF Knows
      <4> QED
        BY <2>2, <3>2, <4>1, KeepsAligned
    <3> QED
      BY <3>1, <3>2 DEF Works, Keeps
  <2>5. t \in contended'
    BY <1>8, <2>2 DEF Works
  <2> QED
    BY <2>3, <2>4, <2>5
<1>9. ASSUME NEW v \in Workers PROVE Fits(v)'
  <2>1. CASE v = w
    <3>1. q.token \in Tokens => q.token = t
      BY ConstantsAssumption DEF Works
    <3>2. /\ OneEach(req'[v].payments)
          /\ req'[v].token \in Tokens =>
                 Aligned(rows'[req'[v].token], Len(rows'[req'[v].token]), req'[v].payments, req'[v].saved)
      BY <1>1, <1>5, <1>7, <2>1, <3>1
    <3> QED
      BY <3>2 DEF Fits, OneEach, Aligned
  <2>2. CASE v # w
    <3>1. req'[v] = req[v] /\ Fits(v)
      BY <1>1, <1>2, <2>2
    <3>2. req[v].token \in Tokens \ {t} => rows'[req[v].token] = rows[req[v].token]
      BY DEF Works
    <3>3. /\ OneEach(req'[v].payments)
          /\ req'[v].token \in Tokens =>
                 Aligned(rows'[req'[v].token], Len(rows'[req'[v].token]), req'[v].payments, req'[v].saved)
      BY <1>8, <2>2, <3>1, <3>2 DEF Fits
    <3> QED
      BY <3>3 DEF Fits, OneEach, Aligned
  <2> QED
    BY <2>1, <2>2
<1>10. ASSUME NEW v \in Workers \ {w} PROVE Together(w, v)' /\ Together(v, w)'
  <2>1. req'[v] = req[v] /\ req'[w] = q
    BY <1>1
  <2>2. q.step = "derived" => req[v].step # "derived"
    BY DEF Works
  <2>3. q.token \in Tokens => q.token = t
    BY ConstantsAssumption DEF Works
  <2>4. req[v].token = t =>
             /\ Aligned(q.payments, q.saved, req[v].payments, req[v].saved)
             /\ Aligned(req[v].payments, req[v].saved, q.payments, q.saved)
             /\ t \in contended'
    BY <1>8
  <2> QED
    BY <2>1, <2>2, <2>3, <2>4 DEF Together, Aligned
<1>11. ASSUME NEW v \in Workers \ {w}, NEW x \in Workers \ {w}, v # x PROVE Together(v, x)'
  <2>1. req'[v] = req[v] /\ req'[x] = req[x] /\ Together(v, x) /\ contended \subseteq contended'
    BY <1>1, <1>2, <1>11 DEF Works
  <2> QED
    BY <2>1 DEF Together, Aligned
<1> QED
  BY <1>6, <1>9, <1>10, <1>11

\* What makes an invoice settled after a step.
LEMMA SettledNext ==
    ASSUME NEW t,
           t \notin contended' =>
               /\ \A r \in recorded' : r[1] = t => PaidOrGone(rows'[t], r[2]) /\ PaidOrGone(stream'[t], r[2])
               /\ t \notin missed' => \A a \in Unpaid(rows'[t]) :
                      polled'[a] = t \/ \E h \in Admins : req'[h].step = "stored" /\ req'[h].addr = a
    PROVE  Settled(t)'
  BY DEF Settled, PaidOrGone, Unpaid, Entering

\* What a worker holds after a step if it holds q of invoice t.
LEMMA HoldsNext ==
    ASSUME NEW w, NEW q, NEW t, req'[w] = q, q.token = t,
           q.step = "derived" => q.addr = index',
           Late(q) => Owned(q.addr, t)' /\ Owned(q.dropped, t)',
           Late(q) /\ q.step # "stored" /\ Len(q.payments) = q.saved =>
               q.payments[FirstTotal(q.payments)].addr = q.addr,
           q.op = "poll" => Owned(q.addr, t)',
           q.op \in Updating /\ q.step = "accepted" => HasAddress(q.payments, q.addr),
           t \in Tokens \ contended' =>
               /\ \A r \in recorded' : r[1] = t => PaidOrGone(q.payments, r[2])
               /\ Unpaid(q.payments) \subseteq Unpaid(rows'[t]) \cup (IF Late(q) THEN {q.addr} ELSE {})
               /\ q.op \in Updating /\ q.step = "accepted" =>
                      PaidOrGone(q.payments, q.addr) /\ PaidOrGone(stream'[t], q.addr)
               /\ Late(q) /\ q.dropped # q.addr =>
                      /\ q.step # "stored" /\ Len(q.payments) = q.saved =>
                             \A k \in DOMAIN rows'[t] : rows'[t][k].addr = q.dropped => k = FirstTotal(q.payments)
                      /\ q.step # "stored" => Len(q.payments) = q.saved
                      /\ q.step = "stored" => ~HasAddress(rows'[t], q.dropped)
    PROVE  Holds(w)'
<1>1. ASSUME t \in Tokens \ contended'
      PROVE  Alone(w)'
  <2>1. (\A r \in recorded : r[1] = req[w].token => PaidOrGone(req[w].payments, r[2]))'
    BY <1>1 DEF PaidOrGone
  <2>2. (Unpaid(req[w].payments) \subseteq
            Unpaid(rows[req[w].token]) \cup (IF Late(req[w]) THEN {req[w].addr} ELSE {}))'
    BY <1>1 DEF Unpaid, Late
  <2>3. (req[w].op \in Updating /\ req[w].step = "accepted" =>
            PaidOrGone(req[w].payments, req[w].addr) /\ PaidOrGone(stream[req[w].token], req[w].addr))'
    BY <1>1 DEF PaidOrGone
  <2>4. (Late(req[w]) /\ req[w].dropped # req[w].addr =>
            /\ req[w].step # "stored" /\ Len(req[w].payments) = req[w].saved =>
                   \A k \in DOMAIN rows[req[w].token] :
                       rows[req[w].token][k].addr = req[w].dropped => k = FirstTotal(req[w].payments)
            /\ req[w].step # "stored" => Len(req[w].payments) = req[w].saved
            /\ req[w].step = "stored" => ~HasAddress(rows[req[w].token], req[w].dropped))'
    BY <1>1 DEF Late, HasAddress, FirstTotal, TotalAt
  <2> QED
    BY <2>1, <2>2, <2>3, <2>4 DEF Alone
<1>2. Late(req[w])' => Owned(req[w].addr, req[w].token)' /\ Owned(req[w].dropped, req[w].token)'
  BY DEF Late, Owned, Knows, HasAddress
<1>3. req'[w].op = "poll" => Owned(req[w].addr, req[w].token)'
  BY DEF Owned, Knows, HasAddress
<1> QED
  BY <1>1, <1>2, <1>3 DEF Holds, Late, HasAddress, FirstTotal, TotalAt

\* An idle worker holds nothing.
LEMMA HoldsIdle ==
    ASSUME NEW w, req'[w] = Idle
    PROVE  Holds(w)'
<1>1. Idle.step = "idle" /\ Idle.op = "none" /\ Idle.token = NoToken
  BY DEF Idle
<1>2. NoToken \notin Tokens
  BY ConstantsAssumption
<1> QED
  BY <1>1, <1>2, HoldsNext DEF Late, Paying, Updating

\* The other invoices stay as they are.
LEMMA WorksInvoices ==
    ASSUME TypeOK, TypeOK', Copies, Telling,
           NEW w \in Workers, NEW t \in Tokens, NEW q \in Request, Works(w, t, q),
           NEW u \in Tokens \ {t}
    PROVE  Settled(u)'
<1>1. /\ req'[w] = q /\ \A v \in Workers : req[v] \in Request /\ (v # w => req'[v] = req[v])
  BY WorksReq
<1>2. /\ rows'[u] = rows[u] /\ stream'[u] = stream[u]
      /\ contended \subseteq contended' /\ missed \subseteq missed'
      /\ \A r \in recorded' : r[1] = u => r \in recorded
  BY DEF Works
<1>3. Settled(u)
  BY DEF Telling
<1>4. ASSUME u \notin contended', NEW r \in recorded', r[1] = u
      PROVE  PaidOrGone(rows'[u], r[2]) /\ PaidOrGone(stream'[u], r[2])
  BY <1>2, <1>3, <1>4 DEF Settled
<1>5. ASSUME u \notin contended', u \notin missed', NEW a \in Unpaid(rows'[u])
      PROVE  polled'[a] = u \/ \E h \in Admins : req'[h].step = "stored" /\ req'[h].addr = a
  <2>1. HasAddress(rows[u], a) /\ a \in Unpaid(rows[u])
    BY <1>2, <1>5 DEF Unpaid, HasAddress
  <2>2. a \in Addresses
    <3>1. PICK k \in DOMAIN rows[u] : rows[u][k].addr = a
      BY <2>1 DEF HasAddress
    <3>2. rows[u] \in Seq(Payment)
      BY DEF TypeOK
    <3>3. rows[u][k] \in Payment
      BY <3>2
    <3> QED
      BY <3>1, <3>3 DEF Payment
  <2>3. Knows(u, a) /\ ~Owned(a, t)
    BY <2>1 DEF Knows, Owned
  <2>4. polled'[a] = polled[a]
    BY <2>2, <2>3 DEF Works
  <2>5. CASE polled[a] = u
    BY <2>4, <2>5
  <2>6. CASE Entering(a)
    <3>1. PICK h \in Admins : req[h].step = "stored" /\ req[h].addr = a
      BY <2>6 DEF Entering
    <3>2. h \in Workers
      BY DEF Workers
    <3>3. ASSUME h = w PROVE FALSE
      <4>1. req[w].token \in Tokens /\ req[w].op \in Paying
        BY <3>1, <3>2, <3>3 DEF Copies, Copied
      <4>2. req[w].token = t
        BY <4>1, ConstantsAssumption DEF Works
      <4>3. Owned(a, t)
        BY <3>1, <3>3, <4>1, <4>2 DEF Telling, Holds, Late
      <4> QED
        BY <2>3, <4>3
    <3> QED
      BY <1>1, <3>1, <3>2, <3>3
  <2> QED
    BY <1>2, <1>3, <1>5, <2>1, <2>5, <2>6 DEF Settled
<1> QED
  BY <1>4, <1>5, SettledNext

\* The other workers hold what they held.
LEMMA WorksOthers ==
    ASSUME TypeOK, TypeOK', Copies, Telling,
           NEW w \in Workers, NEW t \in Tokens, NEW q \in Request, Works(w, t, q),
           NEW v \in Workers \ {w}
    PROVE  Holds(v)'
<1>0. PICK p \in Request : p = req[v]
  BY WorksReq
<1>a. PICK u : u = p.token
  OBVIOUS
<1>1. req'[v] = p /\ req[v] = p /\ p.token = u
  BY <1>0, <1>a, WorksReq
<1>2. Holds(v) /\ Together(w, v) /\ Together(v, w)
  BY DEF Telling
<1>3. \A x \in Tokens, a \in Addresses : Owned(a, x) => Owned(a, x)'
  BY WorksOwners DEF Telling
<1>4. p.step = "derived" => index' = index
  BY <1>1, <1>2 DEF Together, Works
<1>5. p.step # "idle" => u \in Tokens
  BY <1>1 DEF Copies, Copied
<1>6. Late(p) => Owned(p.addr, u)' /\ Owned(p.dropped, u)'
  <2>1. Late(p) => u \in Tokens /\ p.addr \in Addresses /\ p.dropped \in Addresses
    BY <1>1, <1>5 DEF Late, Request
  <2> QED
    BY <1>1, <1>2, <1>3, <2>1 DEF Holds
<1>7. p.op = "poll" => Owned(p.addr, u)'
  <2>1. p.op = "poll" => u \in Tokens /\ p.addr \in Addresses
    BY <1>1, <1>5 DEF Request, Copies, Copied
  <2> QED
    BY <1>1, <1>2, <1>3, <2>1 DEF Holds
<1>8. ASSUME u \in Tokens, u \notin contended'
      PROVE  /\ rows'[u] = rows[u] /\ stream'[u] = stream[u] /\ Alone(v)
             /\ \A r \in recorded' : r[1] = u => r \in recorded
  <2>1. contended \subseteq contended'
    BY DEF Works
  <2>2. u # t
    BY <1>1, <1>2, <1>8, <2>1, ConstantsAssumption DEF Together, Works
  <2> QED
    BY <1>1, <1>2, <1>8, <2>1, <2>2 DEF Holds, Works
<1> QED
  BY <1>1, <1>2, <1>4, <1>6, <1>7, <1>8, HoldsNext DEF Holds, Alone

\* The worker's step keeps the invariant if its own part does.
LEMMA WorkerStep ==
    ASSUME TypeOK, TypeOK', Copies, Telling,
           NEW w \in Workers, NEW t \in Tokens, NEW q \in Request, Works(w, t, q),
           Named', Settled(t)', Holds(w)'
    PROVE  Telling'
<1>1. Separate'
  BY WorksOwners DEF Telling
<1>2. \A u \in Tokens : Single(u)' /\ Settled(u)'
  BY WorksLists, WorksInvoices
<1>3. \A v \in Workers : Fits(v)' /\ Holds(v)'
  BY WorksLists, WorksOthers
<1>4. \A v, x \in Workers : v # x => Together(v, x)'
  BY WorksLists
<1> QED
  BY <1>1, <1>2, <1>3, <1>4 DEF Telling

-----------------------------------------------------------------------------
(* Types, and the lengths of the copies *)

\* A worker that is done.
LEMMA IdleCopied ==
    ASSUME NEW w \in Workers, req' = [req EXCEPT ![w] = Idle], TypeOK
    PROVE  Copied(w)' /\ Idle \in Request /\ req' \in [Workers -> Request]
<1>1. Idle \in Request
  BY ConstantsAssumption DEF Idle, Request, Addresses, Statuses
<1>2. req'[w] = Idle /\ req' \in [Workers -> Request]
  BY <1>1 DEF TypeOK
<1>3. Copied(w)'
  BY <1>2 DEF Copied, Idle, Paying
<1> QED
  BY <1>1, <1>2, <1>3

\* A worker reads an invoice.
Fetched(op, t, a) ==
    [op |-> op, step |-> "read", token |-> t, addr |-> a, dropped |-> a,
     payments |-> rows[t], saved |-> Len(rows[t]), status |-> status[t]]

LEMMA FetchedTypes ==
    ASSUME TypeOK, Copies, NEW w \in Workers, NEW t \in Tokens, NEW a \in Addresses, NEW op,
           op \in {"total", "extra", "update", "poll", "edit", "approve", "close"},
           w = Poller => op = "poll", rows' = rows, GetInvoiceByToken(w, op, t, a)
    PROVE  /\ Fetched(op, t, a) \in Request /\ req' = [req EXCEPT ![w] = Fetched(op, t, a)]
           /\ req' \in [Workers -> Request] /\ contended' \subseteq Tokens
           /\ contended \subseteq contended'
           /\ \A v \in Workers \ {w} : req[v].token = t => t \in contended'
           /\ Copies'
<1> DEFINE q == Fetched(op, t, a)
<1>1. rows[t] \in Seq(Payment) /\ Len(rows[t]) \in Nat /\ status[t] \in Statuses
  BY DEF TypeOK
<1>2. q \in Request
  BY <1>1 DEF Fetched, Request
<1>3. req' = [req EXCEPT ![w] = q]
  BY DEF GetInvoiceByToken, Fetched
<1>4. req'[w] = q /\ req' \in [Workers -> Request]
  BY <1>2, <1>3 DEF TypeOK
<1>5. /\ contended' \subseteq Tokens /\ contended \subseteq contended'
      /\ \A v \in Workers \ {w} : req[v].token = t => t \in contended'
  BY DEF GetInvoiceByToken, TypeOK
<1>6. Copied(w)'
  BY <1>1, <1>4 DEF Copied, Fetched, Paying
<1>7. \A u \in Tokens : rows[u] \in Seq(Payment) /\ rows'[u] \in Seq(Payment) /\ Len(rows[u]) <= Len(rows'[u])
  BY DEF TypeOK
<1> HIDE DEF q
<1>8. Copies'
  BY <1>2, <1>3, <1>6, <1>7, CopiesStay
<1> QED
  BY <1>2, <1>3, <1>4, <1>5, <1>8 DEF q

LEMMA PayReadTypes ==
    ASSUME TypeOK, Copies, NEW h \in Admins, NEW t \in Tokens, NEW op \in {"total", "extra"},
           PayRead(h, t, op)
    PROVE  TypeOK' /\ Copies'
<1>1. h \in Workers /\ h # Poller /\ 0 \in Addresses
  BY ConstantsAssumption DEF Workers, Addresses
<1>2. req' \in [Workers -> Request] /\ contended' \subseteq Tokens /\ Copies'
  BY <1>1, FetchedTypes DEF PayRead, dbVars
<1> QED
  BY <1>2 DEF TypeOK, PayRead, dbVars, pdVars, pollVars

LEMMA UpdateReadTypes ==
    ASSUME TypeOK, Copies, NEW h \in Admins, NEW t \in Tokens, NEW a \in Addresses, UpdateRead(h, t, a)
    PROVE  TypeOK' /\ Copies'
<1>1. h \in Workers /\ h # Poller
  BY ConstantsAssumption DEF Workers
<1>2. req' \in [Workers -> Request] /\ contended' \subseteq Tokens /\ Copies'
  BY <1>1, FetchedTypes DEF UpdateRead, dbVars
<1> QED
  BY <1>2 DEF TypeOK, UpdateRead, dbVars, pdVars, pollVars

LEMMA DecideReadTypes ==
    ASSUME TypeOK, Copies, NEW h \in Admins, NEW t \in Tokens, NEW op \in DOMAIN Decision,
           DecideRead(h, t, op)
    PROVE  TypeOK' /\ Copies'
<1>1. h \in Workers /\ h # Poller /\ 0 \in Addresses /\ op \in {"edit", "approve", "close"}
  BY ConstantsAssumption DEF Workers, Addresses, Decision
<1>2. req' \in [Workers -> Request] /\ contended' \subseteq Tokens /\ Copies'
  BY <1>1, FetchedTypes DEF DecideRead, dbVars
<1> QED
  BY <1>2 DEF TypeOK, DecideRead, dbVars, pdVars, pollVars

\* A step that changes a request but no rows.
LEMMA SameRows ==
    ASSUME TypeOK, Copies, NEW w \in Workers, NEW q \in Request, req' = [req EXCEPT ![w] = q],
           rows' = rows, Copied(w)'
    PROVE  Copies' /\ req' \in [Workers -> Request]
<1>1. \A u \in Tokens : rows[u] \in Seq(Payment) /\ rows'[u] \in Seq(Payment) /\ Len(rows[u]) <= Len(rows'[u])
  BY DEF TypeOK
<1>2. Copies'
  BY <1>1, CopiesStay
<1> QED
  BY <1>2 DEF TypeOK

LEMMA PollReadTypes ==
    ASSUME TypeOK, Copies, NEW a \in Addresses, PollRead(a)
    PROVE  TypeOK' /\ Copies'
<1>1. Poller \in Workers
  BY DEF Workers
<1>2. PICK t \in Tokens : t = todo[a]
  BY DEF PollRead, TypeOK
<1>3. todo' \in [Addresses -> Tokens \cup {NoToken}] /\ missed' \subseteq Tokens
  BY <1>2 DEF PollRead, TypeOK
<1>4. CASE GetInvoiceByToken(Poller, "poll", t, a) /\ UNCHANGED remove
  <2>1. req' \in [Workers -> Request] /\ contended' \subseteq Tokens /\ Copies'
    BY <1>1, <1>4, FetchedTypes DEF PollRead, dbVars
  <2> QED
    BY <1>3, <1>4, <2>1 DEF TypeOK, PollRead, dbVars, pdVars
<1>5. CASE remove' \in {remove \cup {a}, remove \cup {t}} /\ UNCHANGED <<req, contended>>
  <2>1. Copies'
    BY <1>5 DEF PollRead, dbVars, Copies, Copied, TotalAt
  <2>2. remove' \subseteq Addresses \cup Tokens
    BY <1>5 DEF TypeOK
  <2> QED
    BY <1>3, <1>5, <2>1, <2>2 DEF TypeOK, PollRead, dbVars, pdVars
<1> QED
  BY <1>2, <1>4, <1>5 DEF PollRead

\* What refreshExistingInvoicePayments makes of the rows s with the copy c of
\* the first n.
Refreshed(s, c, n) == [i \in DOMAIN s |-> IF i <= n /\ ~c[i].paid THEN c[i] ELSE s[i]]

LEMMA RefreshedMixed ==
    ASSUME NEW s \in Seq(Payment), NEW c \in Seq(Payment), NEW n \in Nat, n = Len(c), n <= Len(s)
    PROVE  /\ Refreshed(s, c, n) \in Seq(Payment) /\ Len(Refreshed(s, c, n)) = Len(s)
           /\ Mixed(Refreshed(s, c, n), s, c, n)
           /\ Unpaid(c) \subseteq Unpaid(Refreshed(s, c, n))
<1> DEFINE new == Refreshed(s, c, n)
<1>1. DOMAIN new = 1..Len(s) /\ Len(s) \in Nat /\ DOMAIN s = 1..Len(s) /\ DOMAIN c = 1..n
  BY DEF Refreshed
<1>2. \A k \in 1..Len(s) : new[k] = IF k <= n /\ ~c[k].paid THEN c[k] ELSE s[k]
  BY DEF Refreshed
<1>3. \A k \in 1..Len(s) : k <= n => k \in DOMAIN c
  BY <1>1
<1>4. \A k \in 1..Len(s) : new[k] \in Payment
  BY <1>1, <1>2, <1>3
<1>5. new = [k \in 1..Len(s) |-> new[k]]
  BY <1>1 DEF Refreshed
<1> HIDE DEF new
<1>6. new \in Seq(Payment) /\ Len(new) = Len(s)
  BY <1>1, <1>4, <1>5
<1>7. Mixed(new, s, c, n)
  BY <1>1, <1>2, <1>3, <1>6 DEF Mixed
<1>8. Unpaid(c) \subseteq Unpaid(new)
  <2>1. \A k \in DOMAIN c : ~c[k].paid => k \in DOMAIN new /\ new[k] = c[k]
    BY <1>1, <1>2
  <2> QED
    BY <2>1 DEF Unpaid
<1> QED
  BY <1>6, <1>7, <1>8 DEF new

\* The rows after a refresh.
LEMMA RefreshRows ==
    ASSUME TypeOK, Copies, NEW h \in Admins, Refresh(h)
    PROVE  /\ h \in Workers /\ req[h].token \in Tokens
           /\ req[h].payments \in Seq(Payment) /\ req[h].saved \in Nat /\ rows[req[h].token] \in Seq(Payment)
           /\ req[h].saved = Len(req[h].payments) /\ req[h].saved <= Len(rows[req[h].token])
           /\ rows' = [rows EXCEPT ![req[h].token] = Refreshed(@, req[h].payments, req[h].saved)]
           /\ rows' \in [Tokens -> Seq(Payment)]
<1>1. h \in Workers
  BY DEF Workers
<1>2. req[h] \in Request /\ Copied(h) /\ req[h].step = "read"
  BY <1>1 DEF TypeOK, Copies, Refresh
<1>3. /\ req[h].token \in Tokens /\ req[h].payments \in Seq(Payment) /\ req[h].saved \in Nat
      /\ req[h].saved = Len(req[h].payments) /\ req[h].saved <= Len(rows[req[h].token])
  BY <1>2 DEF Copied, Request
<1>4. rows[req[h].token] \in Seq(Payment)
  BY <1>3 DEF TypeOK
<1>5. rows' = [rows EXCEPT ![req[h].token] = Refreshed(@, req[h].payments, req[h].saved)]
  BY DEF Refresh, Refreshed
<1>6. Refreshed(rows[req[h].token], req[h].payments, req[h].saved) \in Seq(Payment)
  BY <1>3, <1>4, RefreshedMixed
<1>7. rows' \in [Tokens -> Seq(Payment)]
  BY <1>5, <1>6 DEF TypeOK
<1> QED
  BY <1>1, <1>3, <1>4, <1>5, <1>7

LEMMA RefreshTypes ==
    ASSUME TypeOK, Copies, NEW h \in Admins, Refresh(h)
    PROVE  TypeOK' /\ Copies'
<1> DEFINE q == [req[h] EXCEPT !.step = "refreshed"]
           p == req[h]
<1>1. /\ h \in Workers /\ p.token \in Tokens
      /\ p.payments \in Seq(Payment) /\ p.saved \in Nat /\ rows[p.token] \in Seq(Payment)
      /\ p.saved = Len(p.payments) /\ p.saved <= Len(rows[p.token])
      /\ rows' = [rows EXCEPT ![p.token] = Refreshed(@, p.payments, p.saved)]
      /\ rows' \in [Tokens -> Seq(Payment)]
  BY RefreshRows
<1>2. p \in Request /\ h # Poller /\ p.op \in {"total", "extra"} /\ p.step = "read"
  BY <1>1, ConstantsAssumption DEF TypeOK, Refresh
<1>3. q \in Request /\ req' = [req EXCEPT ![h] = q]
  BY <1>2 DEF Request, Refresh
<1>4. rows'[p.token] = Refreshed(rows[p.token], p.payments, p.saved)
  BY <1>1 DEF TypeOK
<1>5. Len(rows'[p.token]) = Len(rows[p.token])
  BY <1>1, <1>4, RefreshedMixed
<1>6. \A u \in Tokens : rows[u] \in Seq(Payment) /\ rows'[u] \in Seq(Payment) /\ Len(rows[u]) <= Len(rows'[u])
  <2>1. \A u \in Tokens : u # p.token => rows'[u] = rows[u]
    BY <1>1 DEF TypeOK
  <2>2. \A u \in Tokens : rows[u] \in Seq(Payment) /\ Len(rows[u]) <= Len(rows[u])
    BY DEF TypeOK
  <2> QED
    BY <1>1, <1>5, <2>1, <2>2
<1>7. req'[h] = q /\ req' \in [Workers -> Request]
  BY <1>1, <1>3 DEF TypeOK
<1>8. Copied(h)'
  <2>1. /\ q.saved = p.saved /\ q.payments = p.payments /\ q.token = p.token /\ q.op = p.op
        /\ q.step = "refreshed"
    BY <1>2 DEF Request
  <2> HIDE DEF q
  <2> QED
    BY <1>1, <1>2, <1>5, <1>7, <2>1 DEF Copied, Paying
<1> HIDE DEF q
<1>9. Copies'
  BY <1>1, <1>3, <1>6, <1>8, CopiesStay
<1>10. polled' \in [Addresses -> Tokens \cup {NoToken}] /\ lapsed' \subseteq Addresses
  BY <1>1 DEF TypeOK, Refresh
<1> QED
  BY <1>1, <1>7, <1>9, <1>10 DEF TypeOK, Refresh, pdVars, history

LEMMA DeriveReadTypes ==
    ASSUME TypeOK, Copies, NEW h \in Admins, DeriveRead(h)
    PROVE  TypeOK' /\ Copies'
<1> DEFINE q == [req[h] EXCEPT !.step = "derived", !.addr = index]
           p == req[h]
<1>1. h \in Workers /\ p \in Request /\ Copied(h) /\ p.step = "refreshed" /\ index \in Addresses
  BY DEF TypeOK, Workers, DeriveRead, Copies
<1>2. q \in Request /\ req' = [req EXCEPT ![h] = q]
  BY <1>1 DEF Request, DeriveRead
<1>3. req'[h] = q
  BY <1>1, <1>2 DEF TypeOK
<1>4. /\ q.saved = p.saved /\ q.payments = p.payments /\ q.token = p.token /\ q.op = p.op
      /\ q.step = "derived" /\ q.addr = index
  BY <1>1 DEF Request
<1> HIDE DEF q
<1>5. Copied(h)'
  BY <1>1, <1>3, <1>4 DEF Copied, DeriveRead, dbVars
<1>6. Copies' /\ req' \in [Workers -> Request]
  BY <1>1, <1>2, <1>5, SameRows DEF DeriveRead, dbVars
<1> QED
  BY <1>6 DEF TypeOK, DeriveRead, dbVars, pdVars, pollVars

\* The request after the derivation.
LEMMA DeriveSaveReq ==
    ASSUME TypeOK, Copies, NEW h \in Admins, NEW q, DeriveSave(h),
           q = [req[h] EXCEPT !.step = "ready", !.dropped = Replaced(req[h]),
                              !.payments = WithNewAddress(req[h])]
    PROVE  /\ h \in Workers /\ req[h] \in Request /\ req[h].step = "derived"
           /\ q \in Request /\ req' = [req EXCEPT ![h] = q] /\ req'[h] = q
           /\ q.saved = req[h].saved /\ q.token = req[h].token /\ q.op = req[h].op
           /\ q.addr = req[h].addr /\ q.step = "ready"
           /\ q.dropped = Replaced(req[h]) /\ q.payments = WithNewAddress(req[h])
<1>1. h \in Workers /\ req[h] \in Request /\ req[h].step = "derived"
  BY DEF TypeOK, Workers, DeriveSave
<1>2. WithNewAddress(req[h]) \in Seq(Payment) /\ Replaced(req[h]) \in Addresses
  BY <1>1, WithNew
<1>3. q \in Request /\ req' = [req EXCEPT ![h] = q]
  BY <1>1, <1>2 DEF Request, DeriveSave
<1>4. req'[h] = q
  BY <1>1, <1>3 DEF TypeOK
<1>5. /\ q.saved = req[h].saved /\ q.token = req[h].token /\ q.op = req[h].op
      /\ q.addr = req[h].addr /\ q.step = "ready"
      /\ q.dropped = Replaced(req[h]) /\ q.payments = WithNewAddress(req[h])
  BY <1>1 DEF Request
<1> QED
  BY <1>1, <1>3, <1>4, <1>5

LEMMA DeriveSaveTypes ==
    ASSUME TypeOK, Copies, NEW h \in Admins, DeriveSave(h)
    PROVE  TypeOK' /\ Copies'
<1> DEFINE p == req[h]
<1>1. PICK q : q = [p EXCEPT !.step = "ready", !.dropped = Replaced(p), !.payments = WithNewAddress(p)]
  OBVIOUS
<1>2. /\ h \in Workers /\ p \in Request /\ p.step = "derived"
      /\ q \in Request /\ req' = [req EXCEPT ![h] = q] /\ req'[h] = q
      /\ q.saved = p.saved /\ q.token = p.token /\ q.op = p.op
      /\ q.step = "ready" /\ q.payments = WithNewAddress(p)
  BY <1>1, DeriveSaveReq
<1>3. Copied(h)
  BY <1>2 DEF Copies
<1>4. /\ q.payments \in Seq(Payment)
      /\ \/ TotalAt(q.payments) # {} /\ Len(q.payments) = Len(p.payments)
         \/ Len(q.payments) = Len(p.payments) + 1
  BY <1>2, WithNew
<1>5. p.saved \in Nat /\ Len(p.payments) = p.saved
  BY <1>2, <1>3 DEF Copied, Request
<1>6. Copied(h)'
  <2>1. /\ h = Poller => p.op \in {"none", "poll"}
        /\ p.token \in Tokens /\ p.saved <= Len(rows[p.token]) /\ p.op \in Paying
    BY <1>2, <1>3 DEF Copied
  <2>2. rows' = rows
    BY DEF DeriveSave
  <2>3. Len(q.payments) \in Nat /\ p.saved <= Len(q.payments)
    BY <1>4, <1>5
  <2> QED
    BY <1>2, <1>4, <1>5, <2>1, <2>2, <2>3 DEF Copied, TotalAt
<1>7. Copies' /\ req' \in [Workers -> Request]
  BY <1>2, <1>6, SameRows DEF DeriveSave
<1>8. index' \in Addresses
  BY <1>2, <1>3, ConstantsAssumption DEF DeriveSave, Copied, Request, Addresses
<1> QED
  BY <1>7, <1>8 DEF TypeOK, DeriveSave, pdVars, pollVars, history

LEMMA PayAcceptTypes ==
    ASSUME TypeOK, Copies, NEW h \in Admins, PayAccept(h)
    PROVE  TypeOK' /\ Copies'
<1> DEFINE q == [req[h] EXCEPT !.step = "accepted"]
           p == req[h]
<1>1. h \in Workers /\ p \in Request /\ Copied(h) /\ p.step = "ready"
  BY DEF TypeOK, Workers, PayAccept, Copies
<1>2. q \in Request /\ req' = [req EXCEPT ![h] = q]
  BY <1>1 DEF Request, PayAccept
<1>3. req'[h] = q
  BY <1>1, <1>2 DEF TypeOK
<1>4. /\ q.saved = p.saved /\ q.payments = p.payments /\ q.token = p.token /\ q.op = p.op
      /\ q.step = "accepted"
  BY <1>1 DEF Request
<1> HIDE DEF q
<1>5. Copied(h)'
  BY <1>1, <1>3, <1>4 DEF Copied, PayAccept, dbVars, Paying, TotalAt
<1>6. Copies' /\ req' \in [Workers -> Request]
  BY <1>1, <1>2, <1>5, SameRows DEF PayAccept, dbVars
<1>7. stream' \in [Tokens -> Seq(Payment)]
  BY <1>1 DEF TypeOK, PayAccept, Request
<1> QED
  BY <1>6, <1>7 DEF TypeOK, PayAccept, dbVars, pdVars, pollVars, history

\* One row is overwritten.
LEMMA OneRow ==
    ASSUME NEW s \in Seq(Payment), NEW c \in Seq(Payment), NEW n \in Nat, n = Len(c), n <= Len(s),
           NEW i \in DOMAIN c
    PROVE  /\ [s EXCEPT ![i] = c[i]] \in Seq(Payment) /\ Len([s EXCEPT ![i] = c[i]]) = Len(s)
           /\ i \in DOMAIN s /\ [s EXCEPT ![i] = c[i]][i] = c[i]
           /\ \A k \in DOMAIN s : k # i => [s EXCEPT ![i] = c[i]][k] = s[k]
           /\ DOMAIN [s EXCEPT ![i] = c[i]] = DOMAIN s
           /\ Mixed([s EXCEPT ![i] = c[i]], s, c, n)
<1> DEFINE new == [s EXCEPT ![i] = c[i]]
<1>1. i \in 1..n /\ i \in DOMAIN s /\ c[i] \in Payment
  OBVIOUS
<1>2. /\ new \in Seq(Payment) /\ Len(new) = Len(s) /\ DOMAIN new = DOMAIN s /\ new[i] = c[i]
      /\ \A k \in DOMAIN s : k # i => new[k] = s[k]
  BY <1>1
<1> HIDE DEF new
<1>3. Len(s) <= Len(new) /\ i <= n
  BY <1>1, <1>2
<1>4. Mixed(new, s, c, n)
  BY <1>1, <1>2, <1>3 DEF Mixed
<1> QED
  BY <1>1, <1>2, <1>4 DEF new

\* A worker that saved its copy.
Stored(q) == [Idle EXCEPT !.op = q.op, !.step = "stored", !.token = q.token,
                          !.addr = q.addr, !.dropped = q.dropped]

LEMMA StoredParts ==
    ASSUME NEW p \in Request
    PROVE  /\ Stored(p) \in Request
           /\ Stored(p).op = p.op /\ Stored(p).step = "stored" /\ Stored(p).token = p.token
           /\ Stored(p).addr = p.addr /\ Stored(p).dropped = p.dropped
           /\ Stored(p).payments = <<>> /\ Stored(p).saved = 0
<1>1. Stored(p) = [op |-> p.op, step |-> "stored", token |-> p.token, addr |-> p.addr,
                   dropped |-> p.dropped, payments |-> <<>>, saved |-> 0, status |-> "approved"]
  <2> DEFINE i == [op |-> "none", step |-> "idle", token |-> NoToken, addr |-> 0, dropped |-> 0,
                   payments |-> <<>>, saved |-> 0, status |-> "approved"]
  <2>1. Stored(p) = [i EXCEPT !.op = p.op, !.step = "stored", !.token = p.token,
                              !.addr = p.addr, !.dropped = p.dropped]
    BY DEF Stored, Idle
  <2> QED
    BY <2>1
<1>2. <<>> \in Seq(Payment) /\ 0 \in Nat /\ "approved" \in Statuses
  BY DEF Statuses
<1> QED
  BY <1>1, <1>2 DEF Request

\* The rows after a paying request saved a recreated payment ...
LEMMA RecreatedRow ==
    ASSUME TypeOK, Copies, NEW h \in Admins, NEW p \in Request, p = req[h], NEW t, t = p.token, PayStore(h),
           Len(p.payments) = p.saved, NEW i, i = FirstTotal(p.payments)
    PROVE  /\ i \in DOMAIN p.payments /\ t \in Tokens
           /\ rows' = [rows EXCEPT ![t] = [rows[t] EXCEPT ![i] = p.payments[i]]]
           /\ rows'[t] = [rows[t] EXCEPT ![i] = p.payments[i]]
<1>1. /\ h \in Workers /\ Copied(h) /\ p.op \in Paying /\ p.step = "accepted"
      /\ p.payments \in Seq(Payment) /\ p.saved \in Nat
  BY DEF Workers, PayStore, Copies, Request, Paying
<1>2. t \in Tokens /\ TotalAt(p.payments) # {}
  BY <1>1 DEF Copied
<1>3. i \in DOMAIN p.payments
  BY <1>1, <1>2, FirstOne
<1>4. rows' = [rows EXCEPT ![t] = [rows[t] EXCEPT ![i] = p.payments[i]]]
  BY DEF PayStore
<1> QED
  BY <1>2, <1>3, <1>4 DEF TypeOK

\* ... or its whole copy.
LEMMA PayStoreRows ==
    ASSUME TypeOK, Copies, NEW h \in Admins, NEW p \in Request, p = req[h], NEW t, t = p.token, PayStore(h)
    PROVE  /\ h \in Workers /\ h # Poller /\ t \in Tokens /\ p.op \in Paying /\ p.step = "accepted"
           /\ p.payments \in Seq(Payment) /\ p.saved \in Nat /\ rows[t] \in Seq(Payment)
           /\ p.saved <= Len(p.payments) /\ p.saved <= Len(rows[t])
           /\ req' = [req EXCEPT ![h] = Stored(p)]
           /\ rows' \in [Tokens -> Seq(Payment)] /\ Mixed(rows'[t], rows[t], p.payments, p.saved)
           /\ \A u \in Tokens : u # t => rows'[u] = rows[u]
           /\ status' \in [Tokens -> Statuses]
<1>1. /\ h \in Workers /\ h # Poller /\ Copied(h) /\ p.op \in Paying /\ p.step = "accepted"
      /\ p.payments \in Seq(Payment) /\ p.saved \in Nat
  BY ConstantsAssumption DEF TypeOK, Workers, PayStore, Copies, Request, Paying
<1>2. /\ t \in Tokens /\ p.saved <= Len(p.payments) /\ p.saved <= Len(rows[t])
      /\ Len(p.payments) \in {p.saved, p.saved + 1}
  BY <1>1 DEF Copied
<1>3. rows[t] \in Seq(Payment) /\ rows \in [Tokens -> Seq(Payment)]
  BY <1>2 DEF TypeOK
<1>4. req' = [req EXCEPT ![h] = Stored(p)]
  BY DEF PayStore, Stored
<1>5. status' \in [Tokens -> Statuses]
  BY <1>2 DEF PayStore, TypeOK, Request
<1>6. PICK new : rows' = [rows EXCEPT ![t] = new] /\ Mixed(new, rows[t], p.payments, p.saved)
  <2>1. CASE Len(p.payments) = p.saved
    <3>1. PICK i : i = FirstTotal(p.payments)
      OBVIOUS
    <3>2. i \in DOMAIN p.payments /\ rows' = [rows EXCEPT ![t] = [rows[t] EXCEPT ![i] = p.payments[i]]]
      BY <2>1, <3>1, RecreatedRow
    <3>3. Mixed([rows[t] EXCEPT ![i] = p.payments[i]], rows[t], p.payments, p.saved)
      BY <1>1, <1>2, <1>3, <2>1, <3>2, OneRow
    <3> QED
      BY <3>2, <3>3
  <2>2. CASE Len(p.payments) # p.saved
    <3>1. rows' = [rows EXCEPT ![t] = Merged(rows[t], p.payments, p.saved)]
      BY <2>2 DEF PayStore, SavedRows, Merged
    <3>2. Mixed(Merged(rows[t], p.payments, p.saved), rows[t], p.payments, p.saved)
      BY <1>1, <1>2, <1>3, SavedMixed
    <3> QED
      BY <3>1, <3>2
  <2> QED
    BY <2>1, <2>2
<1>7. new \in Seq(Payment)
  BY <1>6 DEF Mixed
<1>8. /\ rows' \in [Tokens -> Seq(Payment)] /\ rows'[t] = new
      /\ \A u \in Tokens : u # t => rows'[u] = rows[u]
  BY <1>2, <1>3, <1>6, <1>7
<1>9. Mixed(rows'[t], rows[t], p.payments, p.saved)
  BY <1>6, <1>8
<1> QED
  BY <1>1, <1>2, <1>3, <1>4, <1>5, <1>8, <1>9

\* A worker's step after which its invoice has no fewer rows.
LEMMA MoreRows ==
    ASSUME TypeOK, Copies, NEW w \in Workers, NEW q \in Request, req' = [req EXCEPT ![w] = q],
           NEW t \in Tokens, rows' \in [Tokens -> Seq(Payment)], Len(rows[t]) <= Len(rows'[t]),
           \A u \in Tokens : u # t => rows'[u] = rows[u], Copied(w)'
    PROVE  Copies' /\ req' \in [Workers -> Request]
<1>1. \A u \in Tokens : rows[u] \in Seq(Payment) /\ Len(rows[u]) <= Len(rows[u])
  BY DEF TypeOK
<1>2. \A u \in Tokens : rows[u] \in Seq(Payment) /\ rows'[u] \in Seq(Payment) /\ Len(rows[u]) <= Len(rows'[u])
  BY <1>1
<1>3. Copies'
  BY <1>2, CopiesStay
<1> QED
  BY <1>3 DEF TypeOK

LEMMA PayStoreTypes ==
    ASSUME TypeOK, Copies, NEW h \in Admins, PayStore(h)
    PROVE  TypeOK' /\ Copies'
<1>1. PICK p \in Request : p = req[h]
  BY DEF TypeOK, Workers
<1>2. PICK t : t = p.token
  OBVIOUS
<1>3. /\ h \in Workers /\ h # Poller /\ t \in Tokens /\ p.op \in Paying /\ rows[t] \in Seq(Payment)
      /\ req' = [req EXCEPT ![h] = Stored(p)]
      /\ rows' \in [Tokens -> Seq(Payment)] /\ Mixed(rows'[t], rows[t], p.payments, p.saved)
      /\ \A u \in Tokens : u # t => rows'[u] = rows[u]
      /\ status' \in [Tokens -> Statuses]
  BY <1>1, <1>2, PayStoreRows
<1>4. PICK q : q = Stored(p)
  OBVIOUS
<1>5. q \in Request /\ q.op \in Paying /\ q.step = "stored" /\ q.token = t /\ q.payments = <<>> /\ q.saved = 0
  BY <1>2, <1>3, <1>4, StoredParts
<1>6. req'[h] = q
  BY <1>3, <1>4 DEF TypeOK
<1>7. Copied(h)'
  BY <1>3, <1>5, <1>6 DEF Copied, Paying
<1>8. Copies' /\ req' \in [Workers -> Request]
  BY <1>3, <1>4, <1>5, <1>7, MoreRows DEF Mixed
<1> QED
  BY <1>3, <1>8 DEF TypeOK, PayStore, pdVars, pollVars, history

LEMMA PayPollTypes ==
    ASSUME TypeOK, Copies, NEW h \in Admins, PayPoll(h)
    PROVE  TypeOK' /\ Copies'
<1>1. h \in Workers /\ req[h] \in Request
  BY DEF TypeOK, Workers
<1>2. Copied(h)' /\ Idle \in Request /\ req' \in [Workers -> Request]
  BY <1>1, IdleCopied DEF PayPoll
<1>3. Copies'
  BY <1>1, <1>2, SameRows DEF PayPoll, dbVars
<1>4. polled' \in [Addresses -> Tokens \cup {NoToken}] /\ lapsed' \subseteq Addresses
  BY <1>1 DEF PayPoll, TypeOK, Request
<1> QED
  BY <1>2, <1>3, <1>4 DEF TypeOK, PayPoll, dbVars, pdVars, history

LEMMA UpdateAcceptTypes ==
    ASSUME TypeOK, Copies, NEW w \in Workers, UpdateAccept(w)
    PROVE  TypeOK' /\ Copies'
<1>1. PICK p \in Request : p = req[w]
  BY DEF TypeOK
<1>2. PICK q : q = [p EXCEPT !.step = "accepted", !.payments = MarkPaid(@, p.addr)]
  OBVIOUS
<1>3. /\ Copied(w) /\ p.step = "read" /\ p.op \in {"update", "poll"} /\ HasAddress(p.payments, p.addr)
      /\ p.payments \in Seq(Payment) /\ p.token \in Tokens
  BY <1>1 DEF UpdateAccept, Copies, Copied, Request
<1>4. MarkPaid(p.payments, p.addr) \in Seq(Payment) /\ Len(MarkPaid(p.payments, p.addr)) = Len(p.payments)
  BY <1>3, Marked
<1>5. q \in Request /\ req' = [req EXCEPT ![w] = q]
  BY <1>1, <1>2, <1>4 DEF Request, UpdateAccept
<1>6. req'[w] = q
  BY <1>5 DEF TypeOK
<1>7. /\ q.saved = p.saved /\ q.payments = MarkPaid(p.payments, p.addr) /\ q.token = p.token
      /\ q.op = p.op /\ q.step = "accepted"
  BY <1>1, <1>2 DEF Request
<1>8. /\ w = Poller => p.op \in {"none", "poll"}
      /\ p.saved <= Len(rows[p.token]) /\ Len(p.payments) = p.saved /\ p.saved \in Nat
  BY <1>1, <1>3 DEF Copied, Request
<1>9. Copied(w)'
  <2>1. rows' = rows
    BY DEF UpdateAccept, dbVars
  <2> QED
    BY <1>3, <1>4, <1>6, <1>7, <1>8, <2>1 DEF Copied, Paying, TotalAt
<1>10. Copies' /\ req' \in [Workers -> Request]
  BY <1>5, <1>9, SameRows DEF UpdateAccept, dbVars
<1>11. stream' \in [Tokens -> Seq(Payment)] /\ pdStatus' \in [Tokens -> Statuses]
  BY <1>1, <1>3, <1>4 DEF TypeOK, UpdateAccept, Statuses
<1> QED
  BY <1>10, <1>11 DEF TypeOK, UpdateAccept, dbVars, pollVars, history

\* The rows after a whole copy was saved that adds nothing.
LEMMA WholeRows ==
    ASSUME TypeOK, Copies, NEW w \in Workers, NEW p \in Request, p = req[w], NEW t, t = p.token,
           p.step = "accepted", p.op \notin Paying, rows' = [rows EXCEPT ![t] = SavedRows(p)]
    PROVE  /\ t \in Tokens /\ rows[t] \in Seq(Payment)
           /\ p.payments \in Seq(Payment) /\ p.saved \in Nat
           /\ p.saved = Len(p.payments) /\ p.saved <= Len(rows[t])
           /\ rows' \in [Tokens -> Seq(Payment)] /\ Mixed(rows'[t], rows[t], p.payments, p.saved)
           /\ \A u \in Tokens : u # t => rows'[u] = rows[u]
           /\ rows'[t] = Merged(rows[t], p.payments, p.saved)
<1>1. Copied(w) /\ p.payments \in Seq(Payment) /\ p.saved \in Nat
  BY DEF Copies, Request
<1>2. t \in Tokens /\ p.saved = Len(p.payments) /\ p.saved <= Len(rows[t])
  BY <1>1 DEF Copied
<1>3. rows[t] \in Seq(Payment) /\ rows \in [Tokens -> Seq(Payment)]
  BY <1>2 DEF TypeOK
<1> DEFINE new == Merged(rows[t], p.payments, p.saved)
<1>4. rows' = [rows EXCEPT ![t] = new]
  BY DEF SavedRows, Merged
<1>5. Mixed(new, rows[t], p.payments, p.saved)
  BY <1>1, <1>2, <1>3, SavedMixed
<1>6. new \in Seq(Payment)
  BY <1>5 DEF Mixed
<1> HIDE DEF new
<1>7. /\ rows' \in [Tokens -> Seq(Payment)] /\ rows'[t] = new
      /\ \A u \in Tokens : u # t => rows'[u] = rows[u]
  BY <1>2, <1>3, <1>4, <1>6
<1> QED
  BY <1>1, <1>2, <1>3, <1>5, <1>7 DEF new

\* A worker that saved it is done.
LEMMA WholeCopies ==
    ASSUME TypeOK, Copies, NEW w \in Workers, NEW p \in Request, p = req[w],
           p.step = "accepted", p.op \notin Paying, rows' = [rows EXCEPT ![p.token] = SavedRows(p)],
           req' = [req EXCEPT ![w] = Idle]
    PROVE  p.token \in Tokens /\ rows' \in [Tokens -> Seq(Payment)] /\ Copies' /\ req' \in [Workers -> Request]
<1>1. PICK t : t = p.token
  OBVIOUS
<1>2. /\ t \in Tokens /\ rows' \in [Tokens -> Seq(Payment)] /\ Mixed(rows'[t], rows[t], p.payments, p.saved)
      /\ \A u \in Tokens : u # t => rows'[u] = rows[u]
  BY <1>1, WholeRows
<1>3. Copied(w)' /\ Idle \in Request
  BY IdleCopied
<1> QED
  BY <1>1, <1>2, <1>3, MoreRows DEF Mixed

LEMMA UpdateStoreTypes ==
    ASSUME TypeOK, Copies, NEW w \in Workers, NEW replied \in BOOLEAN, UpdateStore(w, replied)
    PROVE  TypeOK' /\ Copies'
<1>1. PICK p \in Request : p = req[w]
  BY DEF TypeOK
<1>2. p.step = "accepted" /\ p.op \notin Paying /\ p.addr \in Addresses
  BY <1>1 DEF UpdateStore, Paying, Request
<1>3. p.token \in Tokens /\ rows' \in [Tokens -> Seq(Payment)] /\ Copies' /\ req' \in [Workers -> Request]
  BY <1>1, <1>2, WholeCopies DEF UpdateStore
<1>4. /\ status' \in [Tokens -> Statuses] /\ recorded' \subseteq Tokens \X Addresses
      /\ remove' \subseteq Addresses \cup Tokens
  BY <1>1, <1>2, <1>3 DEF UpdateStore, TypeOK, Statuses
<1> QED
  BY <1>3, <1>4 DEF TypeOK, UpdateStore, pdVars

LEMMA DecideAcceptTypes ==
    ASSUME TypeOK, Copies, NEW h \in Admins, DecideAccept(h)
    PROVE  TypeOK' /\ Copies'
<1> DEFINE q == [req[h] EXCEPT !.step = "accepted"]
           p == req[h]
<1>1. /\ h \in Workers /\ p \in Request /\ Copied(h) /\ p.step = "read"
      /\ p.op \in {"edit", "approve", "close"}
  BY DEF TypeOK, Workers, DecideAccept, Copies, Decision
<1>2. q \in Request /\ req' = [req EXCEPT ![h] = q]
  BY <1>1 DEF Request, DecideAccept
<1>3. req'[h] = q
  BY <1>1, <1>2 DEF TypeOK
<1>4. /\ q.saved = p.saved /\ q.payments = p.payments /\ q.token = p.token /\ q.op = p.op
      /\ q.step = "accepted"
  BY <1>1 DEF Request
<1> HIDE DEF q
<1>5. Copied(h)'
  BY <1>1, <1>3, <1>4 DEF Copied, DecideAccept, dbVars, Paying, TotalAt
<1>6. Copies' /\ req' \in [Workers -> Request]
  BY <1>1, <1>2, <1>5, SameRows DEF DecideAccept, dbVars
<1>7. pdStatus' \in [Tokens -> Statuses]
  <2>1. Decision[p.op] \in Statuses
    BY <1>1 DEF Decision, Statuses
  <2> QED
    BY <2>1 DEF TypeOK, DecideAccept
<1> QED
  BY <1>6, <1>7 DEF TypeOK, DecideAccept, dbVars, pollVars, history

LEMMA DecideStoreTypes ==
    ASSUME TypeOK, Copies, NEW h \in Admins, DecideStore(h)
    PROVE  TypeOK' /\ Copies'
<1>1. h \in Workers
  BY DEF Workers
<1>2. PICK p \in Request : p = req[h]
  BY <1>1 DEF TypeOK
<1>3. p.step = "accepted" /\ p.op \notin Paying /\ p.op \in {"edit", "approve", "close"}
  BY <1>2 DEF DecideStore, Paying, Decision
<1>4. p.token \in Tokens /\ rows' \in [Tokens -> Seq(Payment)] /\ Copies' /\ req' \in [Workers -> Request]
  BY <1>1, <1>2, <1>3, WholeCopies DEF DecideStore
<1>5. status' \in [Tokens -> Statuses]
  BY <1>2, <1>3, <1>4 DEF DecideStore, TypeOK, Statuses, Decision
<1> QED
  BY <1>4, <1>5 DEF TypeOK, DecideStore, pdVars, pollVars, history

\* A worker gives up.
LEMMA IdleTypes ==
    ASSUME TypeOK, Copies, NEW w \in Workers, req' = [req EXCEPT ![w] = Idle],
           UNCHANGED <<dbVars, pdVars, pollVars, arrived, restarts, contended, reused, recorded>>,
           missed' \subseteq Tokens
    PROVE  TypeOK' /\ Copies'
<1>1. Copied(w)' /\ Idle \in Request /\ req' \in [Workers -> Request]
  BY IdleCopied
<1>2. Copies'
  BY <1>1, SameRows DEF dbVars
<1> QED
  BY <1>1, <1>2 DEF TypeOK, dbVars, pdVars, pollVars

\* Nobody's copy changes.
LEMMA SameCopies ==
    ASSUME Copies, rows' = rows, req' = req
    PROVE  Copies'
  BY DEF Copies, Copied, TotalAt

LEMMA SnapshotTypes ==
    ASSUME TypeOK, Copies, Snapshot
    PROVE  TypeOK' /\ Copies'
<1>1. Copies'
  BY SameCopies DEF Snapshot, dbVars
<1> QED
  BY <1>1 DEF TypeOK, Snapshot, dbVars, pdVars, history

LEMMA RemoveFromPollingTypes ==
    ASSUME TypeOK, Copies, RemoveFromPolling
    PROVE  TypeOK' /\ Copies'
<1>1. Copies'
  BY SameCopies DEF RemoveFromPolling, dbVars
<1>2. polled' \in [Addresses -> Tokens \cup {NoToken}] /\ lapsed' \subseteq Addresses
  BY DEF TypeOK, RemoveFromPolling
<1> QED
  BY <1>1, <1>2 DEF TypeOK, RemoveFromPolling, dbVars, pdVars, history

LEMMA ArriveTypes ==
    ASSUME TypeOK, Copies, NEW a \in Addresses, Arrive(a)
    PROVE  TypeOK' /\ Copies'
<1>1. Copies'
  BY SameCopies DEF Arrive, dbVars
<1> QED
  BY <1>1 DEF TypeOK, Arrive, dbVars, pdVars, pollVars, history

LEMMA LapseTypes ==
    ASSUME TypeOK, Copies, NEW a \in Addresses, Lapse(a)
    PROVE  TypeOK' /\ Copies'
<1>1. Copies'
  BY SameCopies DEF Lapse, dbVars
<1> QED
  BY <1>1 DEF TypeOK, Lapse, dbVars, pdVars, history

LEMMA SaveStaleUserTypes ==
    ASSUME TypeOK, Copies, NEW n \in 1..MaxIndex, SaveStaleUser(n)
    PROVE  TypeOK' /\ Copies'
<1>1. Copies'
  BY SameCopies DEF SaveStaleUser
<1>2. index' \in Addresses
  BY ConstantsAssumption DEF SaveStaleUser, Addresses
<1> QED
  BY <1>1, <1>2 DEF TypeOK, SaveStaleUser, pdVars, pollVars

LEMMA RestartTypes ==
    ASSUME TypeOK, NEW loaded \in BOOLEAN, Restart(loaded)
    PROVE  TypeOK' /\ Copies'
<1>1. Idle \in Request
  BY ConstantsAssumption DEF Idle, Request, Addresses, Statuses
<1>2. req' = [w \in Workers |-> Idle]
  BY DEF Restart
<1>3. Copies'
  <2> SUFFICES ASSUME NEW w \in Workers PROVE Copied(w)'
    BY DEF Copies
  <2>1. req'[w] = Idle
    BY <1>2
  <2> QED
    BY <2>1 DEF Copied, Idle, Paying
<1>4. restarts' \in 0..MaxRestarts
  BY ConstantsAssumption DEF TypeOK, Restart
<1>5. polled' \in [Addresses -> Tokens \cup {NoToken}] /\ todo' \in [Addresses -> Tokens \cup {NoToken}]
  <2>1. ASSUME NEW at \in SUBSET Tokens
        PROVE  (IF at = {} THEN NoToken ELSE CHOOSE t \in at : TRUE) \in Tokens \cup {NoToken}
    OBVIOUS
  <2> DEFINE at(a) == {t \in Tokens \ NotLoaded(loaded) : a \in Unpaid(stream[t])}
  <2>2. polled' = [a \in Addresses |-> IF at(a) = {} THEN NoToken ELSE CHOOSE t \in at(a) : TRUE]
    BY DEF Restart
  <2>3. \A a \in Addresses : at(a) \in SUBSET Tokens
    OBVIOUS
  <2> HIDE DEF at
  <2>4. polled' \in [Addresses -> Tokens \cup {NoToken}]
    BY <2>1, <2>2, <2>3
  <2> QED
    BY <2>4 DEF Restart, Unwatched
<1>6. /\ rows' \in [Tokens -> Seq(Payment)] /\ status' \in [Tokens -> Statuses]
      /\ req' \in [Workers -> Request] /\ lapsed' \subseteq Addresses /\ old' \subseteq Addresses
      /\ remove' \subseteq Addresses \cup Tokens /\ missed' \subseteq Tokens
  BY <1>1, <1>2 DEF TypeOK, Restart, NotLoaded
<1> QED
  BY <1>3, <1>4, <1>5, <1>6 DEF TypeOK, Restart, pdVars

-----------------------------------------------------------------------------
(* Steps of workers, as long as no address is reused *)

\* What is named stays somebody's, and what comes in is the invoice's.
LEMMA NamedNext ==
    ASSUME TypeOK, TypeOK', Copies, Telling,
           NEW w \in Workers, NEW t \in Tokens, NEW q \in Request, Works(w, t, q),
           \A a \in Addresses : polled'[a] \in {polled[a], NoToken} \/ (polled'[a] = t /\ Owned(a, t)),
           \A a \in Addresses : todo'[a] \in {todo[a], NoToken},
           \A r \in recorded' \ recorded : Owned(r[2], t),
           \A a \in remove' \cap Addresses : a \in remove \/
               (Owned(a, t) /\ (t \in contended' \cup missed' \/ <<t, a>> \in recorded'))
    PROVE  Named'
<1>1. /\ \A u \in Tokens, a \in Addresses : Owned(a, u) => Owned(a, u)'
      /\ contended \subseteq contended' /\ missed \subseteq missed' /\ recorded \subseteq recorded'
      /\ \A r \in recorded' \ recorded : r[1] = t
  BY WorksOwners DEF Telling, Works
<1>2. Named
  BY DEF Telling
<1>3. ASSUME NEW a \in Addresses, polled'[a] # NoToken
      PROVE  \A u : u = polled'[a] => Owned(a, u)'
  <2>1. polled[a] \in Tokens \cup {NoToken}
    BY DEF TypeOK
  <2> QED
    BY <1>1, <1>2, <1>3, <2>1 DEF Named
<1>4. ASSUME NEW a \in Addresses, todo'[a] # NoToken
      PROVE  \A u : u = todo'[a] => Owned(a, u)'
  <2>1. todo[a] \in Tokens \cup {NoToken}
    BY DEF TypeOK
  <2> QED
    BY <1>1, <1>2, <1>4, <2>1 DEF Named
<1>5. ASSUME NEW r \in recorded'
      PROVE  \A u, a : u = r[1] /\ a = r[2] => Owned(a, u)'
  <2>1. r[1] \in Tokens /\ r[2] \in Addresses
    BY DEF TypeOK
  <2> QED
    BY <1>1, <1>2, <2>1 DEF Named
<1>6. ASSUME NEW a \in remove' \cap Addresses
      PROVE  \E u \in Tokens : Owned(a, u)' /\ (u \in contended' \cup missed' \/ <<u, a>> \in recorded')
  BY <1>1, <1>2 DEF Named
<1>7. \A a \in Addresses : polled'[a] # NoToken => Owned(a, polled[a])'
  BY <1>3 DEF Owned, Knows, HasAddress
<1>8. \A a \in Addresses : todo'[a] # NoToken => Owned(a, todo[a])'
  BY <1>4 DEF Owned, Knows, HasAddress
<1>9. \A r \in recorded' : Owned(r[2], r[1])'
  BY <1>5
<1>10. \A a \in remove' \cap Addresses : \E u \in Tokens :
           Owned(a, u)' /\ (u \in contended' \cup missed' \/ <<u, a>> \in recorded')
  BY <1>6
<1> QED
  BY <1>7, <1>8, <1>9, <1>10 DEF Named

\* A worker reads an invoice.
LEMMA FetchTelling ==
    ASSUME TypeOK, TypeOK', Copies, Telling,
           NEW w \in Workers, NEW t \in Tokens, NEW a \in Addresses, NEW op,
           op \in {"total", "extra", "update", "poll", "edit", "approve", "close"},
           w = Poller => op = "poll", op = "poll" => Owned(a, t),
           ~InFlight(w), GetInvoiceByToken(w, op, t, a),
           UNCHANGED <<rows, stream, index, polled, remove, recorded>>, missed \subseteq missed',
           \A b \in Addresses : todo'[b] \in {todo[b], NoToken}
    PROVE  Telling'
<1>1. PICK q : q = Fetched(op, t, a)
  OBVIOUS
<1>2. /\ q \in Request /\ req' = [req EXCEPT ![w] = q]
      /\ contended \subseteq contended'
      /\ \A v \in Workers \ {w} : req[v].token = t => t \in contended'
  BY <1>1, FetchedTypes
<1>3. q.op = op /\ q.step = "read" /\ q.token = t /\ q.addr = a /\ q.payments = rows[t] /\ q.saved = Len(rows[t])
  BY <1>1 DEF Fetched
<1>4. req[w].token = NoToken /\ req[w].step = "idle"
  BY DEF InFlight, Copies, Copied
<1>5. Single(t) /\ Settled(t)
  BY DEF Telling
<1>6. Works(w, t, q)
  BY <1>2, <1>3, <1>4, <1>5 DEF Works, Keeps, Single
<1>7. Named'
  BY <1>6, NamedNext, <1>2
<1>8. req'[w] = q /\ \A v \in Workers : v # w => req'[v] = req[v]
  BY <1>2, <1>6, WorksReq
<1>9. ASSUME NEW b, Entering(b) PROVE \E h \in Admins : req'[h].step = "stored" /\ req'[h].addr = b
  BY <1>4, <1>8, <1>9 DEF Entering, Workers
<1>10. Settled(t)'
  <2>1. t \notin contended' => t \notin contended
    BY <1>2
  <2> QED
    BY <1>5, <1>9, <2>1, SettledNext DEF Settled
<1>11. \A u \in Tokens, b \in Addresses : Owned(b, u) => Owned(b, u)'
  BY <1>2, <1>6, WorksOwners DEF Telling
<1>12. Holds(w)'
  <2>1. t \in Tokens \ contended' => \A r \in recorded' : r[1] = t => PaidOrGone(rows[t], r[2])
    BY <1>2, <1>5 DEF Settled
  <2>2. ~Late(q) /\ q.step = "read"
    BY <1>3 DEF Late
  <2>3. rows'[t] = rows[t]
    OBVIOUS
  <2> QED
    BY <1>3, <1>8, <1>11, <2>1, <2>2, <2>3, HoldsNext
<1> QED
  BY <1>2, <1>6, <1>7, <1>10, <1>12, WorkerStep

LEMMA PayReadTelling ==
    ASSUME TypeOK, TypeOK', Copies, Telling, NEW h \in Admins, NEW t \in Tokens,
           NEW op \in {"total", "extra"}, PayRead(h, t, op)
    PROVE  Telling'
<1>1. h \in Workers /\ h # Poller /\ 0 \in Addresses
  BY ConstantsAssumption DEF Workers, Addresses
<1>2. \A b \in Addresses : todo'[b] \in {todo[b], NoToken}
  BY DEF PayRead, pollVars
<1> QED
  BY <1>1, <1>2, FetchTelling DEF PayRead, dbVars, pdVars, pollVars

LEMMA UpdateReadTelling ==
    ASSUME TypeOK, TypeOK', Copies, Telling, NEW h \in Admins, NEW t \in Tokens,
           NEW a \in Addresses, UpdateRead(h, t, a)
    PROVE  Telling'
<1>1. h \in Workers /\ h # Poller
  BY ConstantsAssumption DEF Workers
<1>2. \A b \in Addresses : todo'[b] \in {todo[b], NoToken}
  BY DEF UpdateRead, pollVars
<1> QED
  BY <1>1, <1>2, FetchTelling DEF UpdateRead, dbVars, pdVars, pollVars

LEMMA DecideReadTelling ==
    ASSUME TypeOK, TypeOK', Copies, Telling, NEW h \in Admins, NEW t \in Tokens,
           NEW op \in DOMAIN Decision, DecideRead(h, t, op)
    PROVE  Telling'
<1>1. h \in Workers /\ h # Poller /\ 0 \in Addresses /\ op \in {"edit", "approve", "close"}
  BY ConstantsAssumption DEF Workers, Addresses, Decision
<1>2. \A b \in Addresses : todo'[b] \in {todo[b], NoToken}
  BY DEF DecideRead, pollVars
<1> QED
  BY <1>1, <1>2, FetchTelling DEF DecideRead, dbVars, pdVars, pollVars

\* A step that leaves the payments and the workers alone.
LEMMA SameOwners ==
    ASSUME UNCHANGED <<rows, stream, index, req>>
    PROVE  \A a, u : Owned(a, u)' <=> Owned(a, u)
  BY DEF Owned, Knows, HasAddress

LEMMA QuietStep ==
    ASSUME Telling, UNCHANGED <<rows, stream, index, req, contended, recorded>>,
           missed \subseteq missed', Named',
           \A t \in Tokens \ (contended \cup missed') : \A a \in Unpaid(rows[t]) :
               polled[a] = t => polled'[a] = t
    PROVE  Telling'
<1>1. \A t, a : Knows(t, a)' <=> Knows(t, a)
  BY DEF Knows, HasAddress
<1>2. Separate'
  BY <1>1, SameOwners DEF Telling, Separate
<1>3. ASSUME NEW t \in Tokens PROVE Single(t)' /\ Settled(t)'
  <2>1. Single(t) /\ Settled(t)
    BY DEF Telling
  <2>2. Settled(t)'
    BY <1>3, <2>1, SettledNext DEF Settled, Entering
  <2> QED
    BY <2>1, <2>2 DEF Single, OneEach
<1>4. ASSUME NEW w \in Workers PROVE Fits(w)' /\ Holds(w)'
  <2>1. Fits(w) /\ Holds(w)
    BY DEF Telling
  <2>2. Fits(w)'
    BY <2>1 DEF Fits, OneEach, Aligned
  <2>3. PICK q : q = req[w]
    OBVIOUS
  <2>4. PICK t : t = q.token
    OBVIOUS
  <2>5. \A a, u : Owned(a, u) => Owned(a, u)'
    BY SameOwners
  <2>6. rows'[t] = rows[t] /\ stream'[t] = stream[t] /\ req'[w] = q
    BY <2>3
  <2>7. t \in Tokens \ contended' => Alone(w)
    BY <2>1, <2>3, <2>4 DEF Holds
  <2>8. Holds(w)'
    BY <2>1, <2>3, <2>4, <2>5, <2>6, <2>7, HoldsNext DEF Holds, Alone
  <2> QED
    BY <2>2, <2>8
<1>5. \A w, v \in Workers : w # v => Together(w, v)'
  BY DEF Telling, Together, Aligned
<1> QED
  BY <1>2, <1>3, <1>4, <1>5 DEF Telling

\* ... and whose round it is.
LEMMA QuietNamed ==
    ASSUME TypeOK, Telling, UNCHANGED <<rows, stream, index, req, contended, recorded>>,
           missed \subseteq missed',
           \A a \in Addresses : polled'[a] \in {polled[a], NoToken},
           \A a \in Addresses : todo'[a] \in {polled[a], todo[a], NoToken},
           \A a \in remove' \cap Addresses : a \in remove \/
               \E t \in Tokens : Owned(a, t) /\ t \in missed'
    PROVE  Named'
<1>1. \A a, u : Owned(a, u)' <=> Owned(a, u)
  BY SameOwners
<1>2. Named
  BY DEF Telling
<1>3. ASSUME NEW a \in Addresses, polled'[a] # NoToken
      PROVE  \A u : u = polled'[a] => Owned(a, u)'
  BY <1>1, <1>2, <1>3 DEF Named
<1>4. ASSUME NEW a \in Addresses, todo'[a] # NoToken
      PROVE  \A u : u = todo'[a] => Owned(a, u)'
  BY <1>1, <1>2, <1>4 DEF Named
<1>5. ASSUME NEW r \in recorded'
      PROVE  \A u, a : u = r[1] /\ a = r[2] => Owned(a, u)'
  BY <1>1, <1>2 DEF Named
<1>6. \A a \in remove' \cap Addresses : \E u \in Tokens :
           Owned(a, u)' /\ (u \in contended' \cup missed' \/ <<u, a>> \in recorded')
  BY <1>1, <1>2 DEF Named
<1>7. \A a \in Addresses : polled'[a] # NoToken => Owned(a, polled[a])'
  BY <1>3 DEF Owned, Knows, HasAddress
<1>8. \A a \in Addresses : todo'[a] # NoToken => Owned(a, todo[a])'
  BY <1>4 DEF Owned, Knows, HasAddress
<1>9. \A r \in recorded' : Owned(r[2], r[1])'
  BY <1>5
<1> QED
  BY <1>6, <1>7, <1>8, <1>9 DEF Named

LEMMA SnapshotTelling ==
    ASSUME TypeOK, Telling, Snapshot
    PROVE  Telling'
<1>1. Named'
  BY QuietNamed DEF Snapshot, dbVars, pdVars, history
<1> QED
  BY <1>1, QuietStep DEF Snapshot, dbVars, pdVars, history

LEMMA ArriveTelling ==
    ASSUME TypeOK, Telling, NEW a \in Addresses, Arrive(a)
    PROVE  Telling'
<1>1. Named'
  BY QuietNamed DEF Arrive, dbVars, pdVars, pollVars, history
<1> QED
  BY <1>1, QuietStep DEF Arrive, dbVars, pdVars, pollVars, history

LEMMA LapseTelling ==
    ASSUME TypeOK, Telling, NEW a \in Addresses, Lapse(a)
    PROVE  Telling'
<1>1. Named'
  BY QuietNamed DEF Lapse, dbVars, pdVars, history
<1> QED
  BY <1>1, QuietStep DEF Lapse, dbVars, pdVars, history

\* What the poller removes late is paid, or its invoice's payments were
\* written by overlapping workers or missed.
LEMMA RemoveFromPollingTelling ==
    ASSUME TypeOK, Telling, RemoveFromPolling
    PROVE  Telling'
<1>1. UNCHANGED <<rows, stream, index, req, contended, recorded, missed, todo>>
  BY DEF RemoveFromPolling, dbVars, pdVars, history
<1>2. \A a \in Addresses : polled'[a] = IF a \in remove THEN NoToken ELSE polled[a]
  BY DEF RemoveFromPolling
<1>3. Named'
  BY <1>1, <1>2, QuietNamed DEF RemoveFromPolling
<1>4. ASSUME NEW t \in Tokens \ (contended \cup missed), NEW a \in Unpaid(rows[t]), polled[a] = t
      PROVE  polled'[a] = t
  <2>1. PICK k \in DOMAIN rows[t] : rows[t][k].addr = a /\ ~rows[t][k].paid
    BY DEF Unpaid
  <2>2. a \in Addresses
    <3>1. rows[t] \in Seq(Payment)
      BY DEF TypeOK
    <3>2. rows[t][k] \in Payment
      BY <3>1
    <3> QED
      BY <2>1, <3>2 DEF Payment
  <2>3. Knows(t, a)
    BY <2>1 DEF Knows, HasAddress
  <2>4. ASSUME a \in remove PROVE FALSE
    <3>1. PICK u \in Tokens : Owned(a, u) /\ (u \in contended \cup missed \/ <<u, a>> \in recorded)
      BY <2>2, <2>4 DEF Telling, Named
    <3>2. u = t
      BY <2>3, <3>1 DEF Owned
    <3>3. <<t, a>> \in recorded
      BY <3>1, <3>2
    <3>4. PaidOrGone(rows[t], a)
      BY <3>3 DEF Telling, Settled
    <3> QED
      BY <2>1, <3>4 DEF PaidOrGone
  <2> QED
    BY <1>2, <1>4, <2>2, <2>4
<1> QED
  BY <1>1, <1>3, <1>4, QuietStep

LEMMA PollReadTelling ==
    ASSUME TypeOK, TypeOK', Copies, Telling, NEW a \in Addresses, PollRead(a)
    PROVE  Telling'
<1>1. PICK t \in Tokens : t = todo[a]
  BY DEF PollRead, TypeOK
<1>2. Owned(a, t)
  BY <1>1, ConstantsAssumption DEF Telling, Named
<1>3. /\ UNCHANGED <<rows, stream, index, polled, recorded>>
      /\ missed' = IF status[t] = "paid" THEN missed \cup {t} ELSE missed
      /\ missed \subseteq missed' /\ \A b \in Addresses : todo'[b] \in {todo[b], NoToken}
      /\ ~InFlight(Poller)
  BY <1>1 DEF PollRead, TypeOK, dbVars, pdVars
<1>4. CASE GetInvoiceByToken(Poller, "poll", t, a) /\ UNCHANGED remove
  <2>1. Poller \in Workers
    BY DEF Workers
  <2> QED
    BY <1>2, <1>3, <1>4, <2>1, FetchTelling
<1>5. CASE /\ \/ status[t] = "paid" /\ remove' = remove \cup {a}
              \/ remove' = remove \cup {t}
           /\ UNCHANGED <<req, contended>>
  <2>1. t \notin Addresses
    BY ConstantsAssumption DEF Addresses
  <2>2. \A b \in remove' \cap Addresses : b \in remove \/ \E u \in Tokens : Owned(b, u) /\ u \in missed'
    BY <1>2, <1>3, <1>5, <2>1
  <2>3. Named'
    BY <1>3, <1>5, <2>2, QuietNamed
  <2> QED
    BY <1>3, <1>5, <2>3, QuietStep
<1> QED
  BY <1>1, <1>4, <1>5 DEF PollRead

\* Whose a copy's addresses are.
LEMMA CopyOwned ==
    ASSUME TypeOK, Copies, Telling, NEW w \in Workers, NEW p \in Request, p = req[w],
           p.token \in Tokens
    PROVE  /\ \A a : HasAddress(p.payments, a) => a \in Addresses /\ Owned(a, p.token)
           /\ \A a \in Unpaid(p.payments) : a \in Addresses /\ Owned(a, p.token)
<1>1. ASSUME NEW k \in DOMAIN p.payments
      PROVE  p.payments[k].addr \in Addresses /\ Owned(p.payments[k].addr, p.token)
  <2>1. p.payments \in Seq(Payment)
    BY DEF Request
  <2>2. p.payments[k] \in Payment
    BY <2>1
  <2>3. p.payments[k].addr \in Addresses
    BY <2>2 DEF Payment
  <2>4. Knows(p.token, p.payments[k].addr)
    BY DEF Knows, HasAddress
  <2> QED
    BY <2>3, <2>4 DEF Telling, Separate
<1> QED
  BY <1>1 DEF HasAddress, Unpaid

LEMMA RefreshTelling ==
    ASSUME TypeOK, TypeOK', Copies, Telling, NEW h \in Admins, Refresh(h)
    PROVE  Telling'
<1>1. PICK p \in Request : p = req[h]
  BY DEF TypeOK, Workers
<1>2. PICK t : t = p.token
  OBVIOUS
<1>3. PICK q : q = [p EXCEPT !.step = "refreshed"]
  OBVIOUS
<1>4. /\ h \in Workers /\ t \in Tokens
      /\ p.payments \in Seq(Payment) /\ p.saved \in Nat /\ rows[t] \in Seq(Payment)
      /\ p.saved = Len(p.payments) /\ p.saved <= Len(rows[t])
      /\ rows' = [rows EXCEPT ![t] = Refreshed(@, p.payments, p.saved)]
  BY <1>1, <1>2, RefreshRows
<1>5. /\ p.op \in Paying /\ p.step = "read"
      /\ UNCHANGED <<index, stream, todo, remove, contended, missed, recorded>>
  BY <1>1 DEF Refresh, Paying, pdVars, history
<1>6. q \in Request /\ req' = [req EXCEPT ![h] = q]
  BY <1>1, <1>3 DEF Request, Refresh
<1>7. /\ q.saved = p.saved /\ q.payments = p.payments /\ q.token = t /\ q.op = p.op
      /\ q.step = "refreshed"
  BY <1>2, <1>3 DEF Request
<1>8. rows'[t] = Refreshed(rows[t], p.payments, p.saved) /\ \A u \in Tokens : u # t => rows'[u] = rows[u]
  BY <1>4 DEF TypeOK
<1>9. Mixed(rows'[t], rows[t], p.payments, p.saved) /\ Unpaid(p.payments) \subseteq Unpaid(rows'[t])
  BY <1>4, <1>8, RefreshedMixed
<1>10. \A a \in Unpaid(p.payments) : a \in Addresses /\ Owned(a, t)
  BY <1>1, <1>2, <1>4, CopyOwned
<1>11. \A a \in Addresses : polled'[a] = IF a \in Unpaid(p.payments) THEN t ELSE polled[a]
  BY <1>1, <1>2 DEF Refresh
<1>12. Fits(h) /\ Holds(h) /\ Settled(t)
  BY <1>4 DEF Telling
<1>13. Works(h, t, q)
  <2>1. \A k \in DOMAIN q.payments : k \in DOMAIN p.payments /\ q.payments[k].addr = p.payments[k].addr
    BY <1>7
  <2>2. Keeps(h, t, q)
    BY <1>1, <1>2, <1>7, <2>1 DEF Keeps
  <2>3. OneEach(q.payments)
    BY <1>1, <1>7, <1>12 DEF Fits
  <2> QED
    BY <1>1, <1>2, <1>4, <1>5, <1>6, <1>7, <1>8, <1>9, <1>10, <1>11, <2>2, <2>3 DEF Works
<1>14. Named'
  BY <1>4, <1>5, <1>6, <1>10, <1>11, <1>13, NamedNext
<1>15. req'[h] = q /\ \A v \in Workers : v # h => req'[v] = req[v]
  BY <1>4, <1>6, <1>13, WorksReq
<1>16. t \in Tokens \ contended =>
           /\ \A r \in recorded : r[1] = t => PaidOrGone(p.payments, r[2])
           /\ Unpaid(p.payments) \subseteq Unpaid(rows[t])
  <2>1. ~Late(p)
    BY <1>5 DEF Late
  <2> QED
    BY <1>1, <1>2, <1>12, <2>1 DEF Holds, Alone
<1>17. /\ Unpaid(rows'[t]) \subseteq Unpaid(rows[t]) \cup Unpaid(p.payments)
       /\ \A a : PaidOrGone(rows[t], a) /\ PaidOrGone(p.payments, a) => PaidOrGone(rows'[t], a)
  BY <1>4, <1>9, MixedHas
<1>18. ASSUME NEW b, Entering(b) PROVE \E g \in Admins : req'[g].step = "stored" /\ req'[g].addr = b
  BY <1>1, <1>5, <1>15, <1>18 DEF Entering, Workers
<1>19. Settled(t)'
  <2>1. ASSUME t \notin contended, t \notin missed, NEW a \in Unpaid(rows'[t])
        PROVE  polled'[a] = t \/ \E g \in Admins : req'[g].step = "stored" /\ req'[g].addr = a
    <3>1. a \in Unpaid(rows[t])
      BY <1>4, <1>16, <1>17, <2>1
    <3>2. polled[a] = t \/ Entering(a)
      BY <1>12, <2>1, <3>1 DEF Settled
    <3>3. a \in Addresses
      <4>1. PICK k \in DOMAIN rows[t] : a = rows[t][k].addr
        BY <3>1 DEF Unpaid
      <4>2. rows[t][k] \in Payment
        BY <1>4
      <4> QED
        BY <4>1, <4>2 DEF Payment
    <3> QED
      BY <1>11, <1>18, <3>2, <3>3
  <2>2. t \notin contended => \A r \in recorded : r[1] = t => PaidOrGone(rows'[t], r[2]) /\ PaidOrGone(stream[t], r[2])
    BY <1>4, <1>12, <1>16, <1>17 DEF Settled
  <2> QED
    BY <1>5, <2>1, <2>2, SettledNext
<1>20. Holds(h)'
  <2>1. ~Late(q) /\ q.op # "poll" /\ q.op \notin Updating
    BY <1>5, <1>7 DEF Late, Paying, Updating
  <2> QED
    BY <1>5, <1>7, <1>9, <1>15, <1>16, <2>1, HoldsNext
<1> QED
  BY <1>4, <1>6, <1>13, <1>14, <1>19, <1>20, WorkerStep

\* The invoice stays settled when its rows and the map stay.
LEMMA SettledStays ==
    ASSUME Telling, NEW w \in Workers, NEW t \in Tokens, rows'[t] = rows[t],
           UNCHANGED <<polled, recorded, missed, contended>>,
           req[w].step # "stored", \A v \in Workers : v # w => req'[v] = req[v],
           t \notin contended => \A r \in recorded : r[1] = t => PaidOrGone(stream'[t], r[2])
    PROVE  Settled(t)'
<1>1. Settled(t)
  BY DEF Telling
<1>2. ASSUME NEW b, Entering(b) PROVE \E g \in Admins : req'[g].step = "stored" /\ req'[g].addr = b
  BY <1>2 DEF Entering, Workers
<1> QED
  BY <1>1, <1>2, SettledNext DEF Settled

LEMMA DeriveReadTelling ==
    ASSUME TypeOK, TypeOK', Copies, Telling, ~reused', NEW h \in Admins, DeriveRead(h)
    PROVE  Telling'
<1>1. PICK p \in Request : p = req[h] /\ h \in Workers
  BY DEF TypeOK, Workers
<1>2. PICK t : t = p.token
  OBVIOUS
<1>3. PICK q : q = [p EXCEPT !.step = "derived", !.addr = index]
  OBVIOUS
<1>4. /\ p.step = "refreshed" /\ p.op \in Paying /\ t \in Tokens
      /\ UNCHANGED <<rows, stream, index, polled, todo, remove, contended, missed, recorded>>
  BY <1>1, <1>2 DEF DeriveRead, dbVars, pdVars, pollVars, Copies, Copied
<1>5. q \in Request /\ req' = [req EXCEPT ![h] = q]
  <2>1. q \in Request
    BY <1>3 DEF Request, TypeOK
  <2>2. req' = [req EXCEPT ![h] = q]
    BY <1>1, <1>3 DEF DeriveRead
  <2> QED
    BY <2>1, <2>2
<1>6. /\ q.saved = p.saved /\ q.payments = p.payments /\ q.token = t /\ q.op = p.op
      /\ q.step = "derived" /\ q.addr = index
  BY <1>2, <1>3 DEF Request
<1>7. Fits(h) /\ Holds(h) /\ Settled(t)
  BY <1>1, <1>4 DEF Telling
<1>8. \A v \in Workers \ {h} : req[v].step # "derived"
  <2>1. \A g \in Admins \ {h} : req[g].step # "derived"
    BY DEF DeriveRead
  <2>2. req[Poller].step # "derived"
    BY DEF Copies, Copied, Workers, Paying
  <2> QED
    BY <2>1, <2>2 DEF Workers
<1>9. Works(h, t, q)
  <2>1. \A k \in DOMAIN q.payments : k \in DOMAIN p.payments /\ q.payments[k].addr = p.payments[k].addr
    BY <1>6
  <2>2. Keeps(h, t, q)
    BY <1>1, <1>2, <1>6, <2>1 DEF Keeps
  <2>3. OneEach(q.payments)
    BY <1>1, <1>6, <1>7 DEF Fits
  <2> QED
    BY <1>1, <1>2, <1>4, <1>5, <1>6, <1>8, <2>2, <2>3 DEF Works
<1>10. Named'
  BY <1>1, <1>4, <1>5, <1>9, NamedNext
<1>11. req'[h] = q /\ \A v \in Workers : v # h => req'[v] = req[v]
  BY <1>1, <1>4, <1>5, <1>9, WorksReq
<1>12. Settled(t)'
  BY <1>1, <1>4, <1>7, <1>11, SettledStays DEF Settled
<1>13. Holds(h)'
  <2>1. ~Late(q) /\ ~Late(p) /\ q.op # "poll" /\ q.op \notin Updating
    BY <1>4, <1>6 DEF Late, Paying, Updating
  <2>2. t \in Tokens \ contended =>
            /\ \A r \in recorded : r[1] = t => PaidOrGone(p.payments, r[2])
            /\ Unpaid(p.payments) \subseteq Unpaid(rows[t])
    BY <1>1, <1>2, <1>7, <2>1 DEF Holds, Alone
  <2> QED
    BY <1>4, <1>6, <1>11, <2>1, <2>2, HoldsNext
<1> QED
  BY <1>1, <1>4, <1>5, <1>9, <1>10, <1>12, <1>13, WorkerStep

LEMMA DeriveSaveTelling ==
    ASSUME TypeOK, TypeOK', Copies, Telling, NEW h \in Admins, DeriveSave(h)
    PROVE  Telling'
<1>1. PICK p \in Request : p = req[h]
  BY DEF TypeOK, Workers
<1>2. PICK t : t = p.token
  OBVIOUS
<1>3. PICK q : q = [p EXCEPT !.step = "ready", !.dropped = Replaced(p), !.payments = WithNewAddress(p)]
  OBVIOUS
<1>4. /\ h \in Workers /\ p.step = "derived"
      /\ q \in Request /\ req' = [req EXCEPT ![h] = q] /\ req'[h] = q
      /\ q.saved = p.saved /\ q.token = t /\ q.op = p.op /\ q.addr = p.addr /\ q.step = "ready"
      /\ q.dropped = Replaced(p) /\ q.payments = WithNewAddress(p)
  <2>1. q = [req[h] EXCEPT !.step = "ready", !.dropped = Replaced(req[h]),
                           !.payments = WithNewAddress(req[h])]
    BY <1>1, <1>3
  <2>2. /\ h \in Workers /\ req[h] \in Request /\ req[h].step = "derived"
        /\ q \in Request /\ req' = [req EXCEPT ![h] = q] /\ req'[h] = q
        /\ q.saved = req[h].saved /\ q.token = req[h].token /\ q.op = req[h].op
        /\ q.addr = req[h].addr /\ q.step = "ready"
        /\ q.dropped = Replaced(req[h]) /\ q.payments = WithNewAddress(req[h])
    BY <2>1, DeriveSaveReq
  <2> QED
    BY <1>1, <1>2, <2>2
<1>5. /\ p.op \in Paying /\ t \in Tokens /\ Len(p.payments) = p.saved
      /\ p.payments \in Seq(Payment) /\ p.saved \in Nat
      /\ UNCHANGED <<rows, stream, polled, todo, remove, contended, missed, recorded>>
      /\ index' = p.addr + 1
  BY <1>1, <1>2, <1>4 DEF DeriveSave, pdVars, pollVars, history, Copies, Copied, Request
<1>6. Fits(h) /\ Holds(h) /\ Settled(t)
  BY <1>4, <1>5 DEF Telling
<1>7. p.addr = index /\ index < index' /\ index \in Addresses
  <2>1. p.addr = index /\ index \in Nat /\ index \in Addresses
    BY <1>1, <1>4, <1>6, ConstantsAssumption DEF Holds, TypeOK, Addresses
  <2> QED
    BY <1>5, <2>1
<1>8. \A u \in Tokens : ~Knows(u, index)
  <2>1. ~(index < index)
    BY <1>7, ConstantsAssumption DEF Addresses
  <2> QED
    BY <1>7, <2>1 DEF Telling, Separate, Owned
<1>9. ~HasAddress(p.payments, index) /\ OneEach(p.payments)
  BY <1>1, <1>2, <1>4, <1>5, <1>6, <1>8 DEF Knows, Fits
<1>10. /\ \A a : HasAddress(q.payments, a) => HasAddress(p.payments, a) \/ a = index
       /\ Unpaid(q.payments) \subseteq Unpaid(p.payments) \cup {index}
       /\ \A a : a # index /\ PaidOrGone(p.payments, a) => PaidOrGone(q.payments, a)
       /\ OneEach(q.payments)
  BY <1>4, <1>7, <1>9, WithNewHas
<1>11. /\ q.payments \in Seq(Payment) /\ q.dropped \in Addresses
       /\ \/ /\ Len(q.payments) = p.saved
             /\ FirstTotal(q.payments) \in DOMAIN q.payments /\ FirstTotal(q.payments) \in DOMAIN p.payments
             /\ q.payments[FirstTotal(q.payments)].addr = index
             /\ p.payments[FirstTotal(q.payments)].addr = q.dropped
          \/ /\ Len(q.payments) = p.saved + 1 /\ q.payments[Len(q.payments)].addr = index
             /\ q.dropped = index
       /\ \A k \in DOMAIN q.payments :
              (k \in DOMAIN p.payments /\ q.payments[k] = p.payments[k]) \/ q.payments[k].addr = index
  BY <1>4, <1>5, <1>7, WithNew
<1>12. Works(h, t, q)
  <2>1. Keeps(h, t, q)
    BY <1>1, <1>2, <1>4, <1>7, <1>11 DEF Keeps
  <2> QED
    BY <1>1, <1>2, <1>4, <1>5, <1>7, <1>10, <2>1 DEF Works
<1>13. Named'
  BY <1>4, <1>5, <1>12, NamedNext
<1>14. \A v \in Workers : v # h => req'[v] = req[v]
  BY <1>4, <1>5, <1>12, WorksReq
<1>15. Settled(t)'
  BY <1>1, <1>4, <1>5, <1>6, <1>14, SettledStays DEF Settled
<1>16. /\ Separate'
       /\ \A u \in Tokens, a \in Addresses : Owned(a, u) => Owned(a, u)'
  BY <1>4, <1>5, <1>12, WorksOwners DEF Telling
<1>17. Owned(q.addr, t)' /\ Owned(q.dropped, t)'
  <2>1. HasAddress(q.payments, q.addr)
    <3>1. Len(q.payments) = p.saved + 1 => Len(q.payments) \in DOMAIN q.payments
      BY <1>5, <1>11
    <3> QED
      BY <1>4, <1>7, <1>11, <3>1 DEF HasAddress
  <2>2. Knows(t, q.addr)'
    BY <1>4, <2>1 DEF Knows, HasAddress
  <2>3. Owned(q.addr, t)'
    BY <1>4, <1>5, <1>7, <1>16, <2>2 DEF Separate
  <2>4. HasAddress(p.payments, q.dropped) \/ q.dropped = q.addr
    BY <1>4, <1>7, <1>11 DEF HasAddress
  <2>5. HasAddress(p.payments, q.dropped) => Owned(q.dropped, t)
    BY <1>1, <1>2, <1>4, <1>5, CopyOwned
  <2> QED
    BY <1>5, <1>11, <1>16, <2>3, <2>4, <2>5
<1>18. ASSUME t \notin contended
       PROVE  /\ \A r \in recorded : r[1] = t => PaidOrGone(q.payments, r[2])
              /\ Unpaid(q.payments) \subseteq Unpaid(rows[t]) \cup {q.addr}
              /\ q.dropped # q.addr =>
                     /\ \A k \in DOMAIN rows[t] : rows[t][k].addr = q.dropped => k = FirstTotal(q.payments)
                     /\ Len(q.payments) = q.saved
  <2>1. ~Late(p)
    BY <1>4 DEF Late
  <2>2. /\ \A r \in recorded : r[1] = t => PaidOrGone(p.payments, r[2])
        /\ Unpaid(p.payments) \subseteq Unpaid(rows[t])
    BY <1>1, <1>2, <1>5, <1>6, <1>18, <2>1 DEF Holds, Alone
  <2>3. \A r \in recorded : r[1] = t => r[2] # index
    <3>1. ~(index < index)
      BY <1>7, ConstantsAssumption DEF Addresses
    <3> QED
      BY <3>1 DEF Telling, Named, Owned
  <2>4. \A r \in recorded : r[1] = t => PaidOrGone(q.payments, r[2])
    BY <1>10, <2>2, <2>3
  <2>5. q.dropped # q.addr =>
            /\ Len(q.payments) = p.saved /\ FirstTotal(q.payments) \in DOMAIN p.payments
            /\ p.payments[FirstTotal(q.payments)].addr = q.dropped
    BY <1>4, <1>7, <1>11
  <2>6. Aligned(rows[t], Len(rows[t]), p.payments, p.saved)
    BY <1>1, <1>2, <1>5, <1>6 DEF Fits
  <2> QED
    BY <1>4, <1>7, <1>10, <2>2, <2>4, <2>5, <2>6 DEF Aligned
<1>19. Late(q) /\ q.op # "poll" /\ q.op \notin Updating
  BY <1>4, <1>5 DEF Late, Paying, Updating
<1>20. Len(q.payments) = q.saved => q.payments[FirstTotal(q.payments)].addr = q.addr
  BY <1>4, <1>5, <1>7, <1>11
<1>21. Holds(h)'
  BY <1>4, <1>5, <1>17, <1>18, <1>19, <1>20, HoldsNext
<1> QED
  BY <1>4, <1>5, <1>12, <1>13, <1>15, <1>21, WorkerStep

LEMMA PayAcceptTelling ==
    ASSUME TypeOK, TypeOK', Copies, Telling, NEW h \in Admins, PayAccept(h)
    PROVE  Telling'
<1>1. PICK p \in Request : p = req[h] /\ h \in Workers
  BY DEF TypeOK, Workers
<1>2. PICK t : t = p.token
  OBVIOUS
<1>3. PICK q : q = [p EXCEPT !.step = "accepted"]
  OBVIOUS
<1>4. /\ p.step = "ready" /\ p.op \in Paying /\ t \in Tokens
      /\ UNCHANGED <<rows, index, polled, todo, remove, contended, missed, recorded>>
      /\ stream' = [stream EXCEPT ![t] = p.payments]
  BY <1>1, <1>2 DEF PayAccept, dbVars, pollVars, history, Copies, Copied
<1>5. q \in Request /\ req' = [req EXCEPT ![h] = q]
  BY <1>1, <1>3 DEF Request, PayAccept
<1>6. /\ q.saved = p.saved /\ q.payments = p.payments /\ q.token = t /\ q.op = p.op
      /\ q.step = "accepted" /\ q.addr = p.addr /\ q.dropped = p.dropped
  BY <1>2, <1>3 DEF Request
<1>7. Fits(h) /\ Holds(h) /\ Settled(t)
  BY <1>1, <1>4 DEF Telling
<1>8. stream'[t] = p.payments /\ \A u \in Tokens : u # t => stream'[u] = stream[u]
  BY <1>4 DEF TypeOK
<1>9. Works(h, t, q)
  <2>1. \A k \in DOMAIN q.payments : k \in DOMAIN p.payments /\ q.payments[k].addr = p.payments[k].addr
    BY <1>6
  <2>2. Keeps(h, t, q)
    BY <1>1, <1>2, <1>6, <2>1 DEF Keeps
  <2>3. OneEach(q.payments)
    BY <1>1, <1>6, <1>7 DEF Fits
  <2> QED
    BY <1>1, <1>2, <1>4, <1>5, <1>6, <1>8, <2>2, <2>3 DEF Works
<1>10. Named'
  BY <1>1, <1>4, <1>5, <1>9, NamedNext
<1>11. req'[h] = q /\ \A v \in Workers : v # h => req'[v] = req[v]
  BY <1>1, <1>4, <1>5, <1>9, WorksReq
<1>12. Late(p) /\ Late(q) /\ q.op # "poll" /\ q.op \notin Updating
  BY <1>4, <1>6 DEF Late, Paying, Updating
<1>13. t \in Tokens \ contended =>
           /\ \A r \in recorded : r[1] = t => PaidOrGone(p.payments, r[2])
           /\ Unpaid(p.payments) \subseteq Unpaid(rows[t]) \cup {p.addr}
           /\ p.dropped # p.addr =>
                  /\ Len(p.payments) = p.saved =>
                         \A k \in DOMAIN rows[t] : rows[t][k].addr = p.dropped => k = FirstTotal(p.payments)
                  /\ Len(p.payments) = p.saved
  BY <1>1, <1>2, <1>4, <1>7, <1>12 DEF Holds, Alone
<1>14. Settled(t)'
  BY <1>1, <1>4, <1>8, <1>11, <1>13, SettledStays
<1>15. Owned(q.addr, t)' /\ Owned(q.dropped, t)'
  <2>1. Owned(p.addr, t) /\ Owned(p.dropped, t) /\ p.addr \in Addresses /\ p.dropped \in Addresses
    BY <1>1, <1>2, <1>7, <1>12 DEF Holds, Request
  <2> QED
    BY <1>1, <1>4, <1>5, <1>6, <1>9, <2>1, WorksOwners DEF Telling
<1>16. Len(p.payments) = p.saved => p.payments[FirstTotal(p.payments)].addr = p.addr
  BY <1>1, <1>4, <1>7, <1>12 DEF Holds
<1>17. Holds(h)'
  BY <1>4, <1>6, <1>11, <1>12, <1>13, <1>15, <1>16, HoldsNext
<1> QED
  BY <1>1, <1>4, <1>5, <1>9, <1>10, <1>14, <1>17, WorkerStep

\* What the saved rows show as unpaid was unpaid or is the new address, and
\* the replaced address is gone.
LEMMA PayStoreLeaves ==
    ASSUME TypeOK, Copies, Telling, NEW h \in Admins, NEW p \in Request, p = req[h],
           NEW t, t = p.token, t \notin contended, PayStore(h)
    PROVE  /\ Unpaid(rows'[t]) \subseteq Unpaid(rows[t]) \cup {p.addr}
           /\ \A r \in recorded : r[1] = t => PaidOrGone(rows'[t], r[2])
           /\ p.dropped # p.addr => ~HasAddress(rows'[t], p.dropped)
<1>1. /\ h \in Workers /\ t \in Tokens /\ p.op \in Paying /\ p.step = "accepted"
      /\ p.payments \in Seq(Payment) /\ p.saved \in Nat /\ rows[t] \in Seq(Payment)
      /\ p.saved <= Len(p.payments) /\ p.saved <= Len(rows[t])
      /\ Mixed(rows'[t], rows[t], p.payments, p.saved)
  BY PayStoreRows
<1>2. Late(p)
  BY <1>1 DEF Late
<1>3. Holds(h) /\ Settled(t)
  BY <1>1 DEF Telling
<1>4. /\ \A r \in recorded : r[1] = t => PaidOrGone(p.payments, r[2])
      /\ Unpaid(p.payments) \subseteq Unpaid(rows[t]) \cup {p.addr}
      /\ p.dropped # p.addr =>
             /\ Len(p.payments) = p.saved =>
                    \A k \in DOMAIN rows[t] : rows[t][k].addr = p.dropped => k = FirstTotal(p.payments)
             /\ Len(p.payments) = p.saved
      /\ Len(p.payments) = p.saved => p.payments[FirstTotal(p.payments)].addr = p.addr
  BY <1>1, <1>2, <1>3 DEF Holds, Alone
<1>5. /\ Unpaid(rows'[t]) \subseteq Unpaid(rows[t]) \cup Unpaid(p.payments)
      /\ \A a : PaidOrGone(rows[t], a) /\ PaidOrGone(p.payments, a) => PaidOrGone(rows'[t], a)
  BY <1>1, MixedHas
<1>6. \A r \in recorded : r[1] = t => PaidOrGone(rows[t], r[2])
  BY <1>3 DEF Settled
<1>7. ASSUME p.dropped # p.addr PROVE ~HasAddress(rows'[t], p.dropped)
  <2> DEFINE c == p.payments
  <2>0. PICK i : i = FirstTotal(c)
    OBVIOUS
  <2>1. i \in DOMAIN c /\ rows'[t] = [rows[t] EXCEPT ![i] = c[i]] /\ Len(c) = p.saved
    BY <1>4, <1>7, <2>0, RecreatedRow
  <2>2. c[i].addr = p.addr /\ \A k \in DOMAIN rows[t] : rows[t][k].addr = p.dropped => k = i
    BY <1>4, <1>7, <2>0
  <2>3. /\ i \in DOMAIN rows[t] /\ rows'[t][i] = c[i] /\ DOMAIN rows'[t] = DOMAIN rows[t]
        /\ \A k \in DOMAIN rows[t] : k # i => rows'[t][k] = rows[t][k]
    BY <1>1, <2>1, OneRow
  <2> QED
    BY <1>7, <2>2, <2>3 DEF HasAddress
<1> QED
  BY <1>4, <1>5, <1>6, <1>7

LEMMA PayStoreTelling ==
    ASSUME TypeOK, TypeOK', Copies, Telling, NEW h \in Admins, PayStore(h)
    PROVE  Telling'
<1>1. PICK p \in Request : p = req[h]
  BY DEF TypeOK, Workers
<1>2. PICK t : t = p.token
  OBVIOUS
<1>3. PICK q : q = Stored(p)
  OBVIOUS
<1>4. /\ h \in Workers /\ t \in Tokens /\ p.op \in Paying /\ p.step = "accepted"
      /\ req' = [req EXCEPT ![h] = q]
      /\ Mixed(rows'[t], rows[t], p.payments, p.saved)
      /\ \A u \in Tokens : u # t => rows'[u] = rows[u]
  BY <1>1, <1>2, <1>3, PayStoreRows
<1>5. UNCHANGED <<stream, index, polled, todo, remove, contended, missed, recorded>>
  BY DEF PayStore, pdVars, pollVars, history
<1>6. /\ q \in Request /\ q.op = p.op /\ q.step = "stored" /\ q.token = t
      /\ q.addr = p.addr /\ q.dropped = p.dropped /\ q.payments = <<>> /\ q.saved = 0
  BY <1>2, <1>3, StoredParts
<1>7. Works(h, t, q)
  <2>1. Keeps(h, t, q) /\ OneEach(q.payments)
    BY <1>6 DEF Keeps, OneEach
  <2> QED
    BY <1>1, <1>2, <1>4, <1>5, <1>6, <2>1 DEF Works
<1>8. Named'
  BY <1>4, <1>5, <1>6, <1>7, NamedNext
<1>9. req'[h] = q /\ \A v \in Workers : v # h => req'[v] = req[v]
  BY <1>4, <1>6, <1>7, WorksReq
<1>10. t \notin contended =>
           /\ Unpaid(rows'[t]) \subseteq Unpaid(rows[t]) \cup {p.addr}
           /\ \A r \in recorded : r[1] = t => PaidOrGone(rows'[t], r[2])
           /\ p.dropped # p.addr => ~HasAddress(rows'[t], p.dropped)
  BY <1>1, <1>2, PayStoreLeaves
<1>11. Late(p) /\ Late(q) /\ q.op # "poll" /\ q.op \notin Updating
  BY <1>4, <1>6 DEF Late, Paying, Updating
<1>12. Holds(h) /\ Settled(t)
  BY <1>4 DEF Telling
<1>13. Settled(t)'
  <2>1. ASSUME t \notin contended, t \notin missed, NEW a \in Unpaid(rows'[t])
        PROVE  polled[a] = t \/ \E g \in Admins : req'[g].step = "stored" /\ req'[g].addr = a
    <3>1. CASE a = p.addr
      BY <1>6, <1>9, <3>1
    <3>2. CASE a \in Unpaid(rows[t])
      <4>1. polled[a] = t \/ Entering(a)
        BY <1>12, <2>1, <3>2 DEF Settled
      <4>2. Entering(a) => \E g \in Admins : req'[g].step = "stored" /\ req'[g].addr = a
        BY <1>1, <1>4, <1>9 DEF Entering, Workers
      <4> QED
        BY <4>1, <4>2
    <3> QED
      BY <1>10, <2>1, <3>1, <3>2
  <2> QED
    BY <1>5, <1>10, <1>12, <2>1, SettledNext DEF Settled
<1>14. Owned(q.addr, t)' /\ Owned(q.dropped, t)'
  <2>1. Owned(p.addr, t) /\ Owned(p.dropped, t) /\ p.addr \in Addresses /\ p.dropped \in Addresses
    BY <1>1, <1>2, <1>11, <1>12 DEF Holds, Request
  <2> QED
    BY <1>4, <1>6, <1>7, <2>1, WorksOwners DEF Telling
<1>15. Holds(h)'
  <2>1. Unpaid(q.payments) = {} /\ \A a : PaidOrGone(q.payments, a)
    BY <1>6 DEF Unpaid, PaidOrGone
  <2> QED
    BY <1>5, <1>6, <1>9, <1>10, <1>11, <1>14, <2>1, HoldsNext
<1> QED
  BY <1>4, <1>6, <1>7, <1>8, <1>13, <1>15, WorkerStep

LEMMA PayPollTelling ==
    ASSUME TypeOK, TypeOK', Copies, Telling, NEW h \in Admins, PayPoll(h)
    PROVE  Telling'
<1>1. PICK p \in Request : p = req[h] /\ h \in Workers
  BY DEF TypeOK, Workers
<1>2. PICK t : t = p.token
  OBVIOUS
<1>3. /\ p.step = "stored" /\ p.op \in Paying /\ t \in Tokens
      /\ UNCHANGED <<rows, index, stream, todo, remove, contended, missed, recorded>>
      /\ polled' = [polled EXCEPT ![p.dropped] = NoToken, ![p.addr] = t]
      /\ req' = [req EXCEPT ![h] = Idle]
  BY <1>1, <1>2 DEF PayPoll, dbVars, pdVars, history, Copies, Copied
<1>4. Idle \in Request
  BY <1>1, <1>3, IdleCopied
<1>5. p.addr \in Addresses /\ p.dropped \in Addresses
  BY DEF Request
<1>6. \A a \in Addresses : polled'[a] = IF a = p.addr THEN t
                                        ELSE IF a = p.dropped THEN NoToken ELSE polled[a]
  BY <1>3, <1>5 DEF TypeOK
<1>7. Late(p) /\ Holds(h) /\ Settled(t)
  BY <1>1, <1>3 DEF Telling, Late
<1>8. Owned(p.addr, t) /\ Owned(p.dropped, t)
  BY <1>1, <1>2, <1>7 DEF Holds
<1>9. Idle.payments = <<>> /\ Idle.token = NoToken /\ Idle.step = "idle"
  BY DEF Idle
<1>10. Works(h, t, Idle)
  <2>1. Keeps(h, t, Idle) /\ OneEach(Idle.payments)
    BY <1>9 DEF Keeps, OneEach
  <2> QED
    BY <1>1, <1>2, <1>3, <1>6, <1>8, <1>9, <2>1 DEF Works
<1>11. Named'
  <2>1. \A a \in Addresses : polled'[a] \in {polled[a], NoToken} \/ (polled'[a] = t /\ Owned(a, t))
    BY <1>6, <1>8
  <2>2. /\ \A a \in Addresses : todo'[a] \in {todo[a], NoToken}
        /\ \A r \in recorded' \ recorded : Owned(r[2], t)
        /\ \A a \in remove' \cap Addresses : a \in remove
    BY <1>3
  <2>3. h \in Workers /\ t \in Tokens
    BY <1>1, <1>3
  <2> QED
    BY <1>4, <1>10, <2>1, <2>2, <2>3, NamedNext
<1>12. req'[h] = Idle /\ \A v \in Workers : v # h => req'[v] = req[v]
  BY <1>1, <1>3, <1>4, <1>10, WorksReq
<1>13. Settled(t)'
  <2>1. ASSUME t \notin contended, t \notin missed, NEW a \in Unpaid(rows[t])
        PROVE  polled'[a] = t \/ \E g \in Admins : req'[g].step = "stored" /\ req'[g].addr = a
    <3>1. HasAddress(rows[t], a) /\ a \in Addresses
      <4>1. PICK k \in DOMAIN rows[t] : a = rows[t][k].addr
        BY <2>1 DEF Unpaid
      <4>2. rows[t] \in Seq(Payment)
        BY <1>3 DEF TypeOK
      <4>3. rows[t][k] \in Payment
        BY <4>2
      <4> QED
        BY <4>1, <4>3 DEF Payment, HasAddress
    <3>2. a = p.dropped => a = p.addr
      BY <1>1, <1>2, <1>3, <1>7, <2>1, <3>1 DEF Holds, Alone
    <3>3. polled[a] = t \/ Entering(a)
      BY <1>7, <2>1 DEF Settled
    <3>4. Entering(a) => a = p.addr \/ \E g \in Admins : req'[g].step = "stored" /\ req'[g].addr = a
      BY <1>1, <1>12 DEF Entering, Workers
    <3> QED
      BY <1>6, <3>1, <3>2, <3>3, <3>4
  <2> QED
    BY <1>3, <1>7, <2>1, SettledNext DEF Settled
<1>14. Holds(h)'
  BY <1>12, HoldsIdle
<1> QED
  BY <1>1, <1>3, <1>4, <1>10, <1>11, <1>13, <1>14, WorkerStep

\* What a recorded transaction changes of a list.
LEMMA MarkedHas ==
    ASSUME NEW p \in Seq(Payment), NEW a, HasAddress(p, a), OneEach(p)
    PROVE  /\ OneEach(MarkPaid(p, a)) /\ HasAddress(MarkPaid(p, a), a) /\ PaidOrGone(MarkPaid(p, a), a)
           /\ \A k \in DOMAIN MarkPaid(p, a) : k \in DOMAIN p /\ MarkPaid(p, a)[k].addr = p[k].addr
           /\ Unpaid(MarkPaid(p, a)) \subseteq Unpaid(p)
           /\ \A b : PaidOrGone(p, b) => PaidOrGone(MarkPaid(p, a), b)
<1>1. PICK m : m = MarkPaid(p, a)
  OBVIOUS
<1>2. /\ DOMAIN m = DOMAIN p /\ PaidOrGone(m, a)
      /\ \A i \in DOMAIN p : m[i].addr = p[i].addr /\ (p[i].paid => m[i].paid)
  BY <1>1, Marked
<1>3. OneEach(m) /\ HasAddress(m, a)
  BY <1>2 DEF OneEach, HasAddress
<1>4. Unpaid(m) \subseteq Unpaid(p)
  BY <1>2 DEF Unpaid
<1>5. \A b : PaidOrGone(p, b) => PaidOrGone(m, b)
  BY <1>2 DEF PaidOrGone
<1> QED
  BY <1>1, <1>2, <1>3, <1>4, <1>5

LEMMA UpdateAcceptTelling ==
    ASSUME TypeOK, TypeOK', Copies, Telling, NEW w \in Workers, UpdateAccept(w)
    PROVE  Telling'
<1>1. PICK p \in Request : p = req[w]
  BY DEF TypeOK
<1>2. PICK t : t = p.token
  OBVIOUS
<1>3. PICK m : m = MarkPaid(p.payments, p.addr)
  OBVIOUS
<1>4. PICK q : q = [p EXCEPT !.step = "accepted", !.payments = m]
  OBVIOUS
<1>5. /\ p.step = "read" /\ p.op \in {"update", "poll"} /\ HasAddress(p.payments, p.addr)
      /\ t \in Tokens /\ p.payments \in Seq(Payment) /\ p.addr \in Addresses
      /\ UNCHANGED <<rows, index, polled, todo, remove, contended, missed, recorded>>
      /\ stream' = [stream EXCEPT ![t] = m]
  BY <1>1, <1>2, <1>3 DEF UpdateAccept, dbVars, pollVars, history, Copies, Copied, Request
<1>6. m \in Seq(Payment)
  BY <1>3, <1>5, Marked
<1>7. q \in Request /\ req' = [req EXCEPT ![w] = q]
  BY <1>1, <1>3, <1>4, <1>6 DEF Request, UpdateAccept
<1>8. /\ q.saved = p.saved /\ q.payments = m /\ q.token = t /\ q.op = p.op
      /\ q.step = "accepted" /\ q.addr = p.addr
  BY <1>2, <1>4 DEF Request
<1>9. Fits(w) /\ Holds(w) /\ Settled(t)
  BY <1>5 DEF Telling
<1>10. OneEach(p.payments)
  BY <1>1, <1>9 DEF Fits
<1>11. /\ OneEach(m) /\ HasAddress(m, p.addr) /\ PaidOrGone(m, p.addr)
       /\ \A k \in DOMAIN m : k \in DOMAIN p.payments /\ m[k].addr = p.payments[k].addr
       /\ Unpaid(m) \subseteq Unpaid(p.payments)
       /\ \A b : PaidOrGone(p.payments, b) => PaidOrGone(m, b)
  BY <1>3, <1>5, <1>10, MarkedHas
<1>12. stream'[t] = m /\ \A u \in Tokens : u # t => stream'[u] = stream[u]
  BY <1>5 DEF TypeOK
<1>13. Works(w, t, q)
  <2>1. Keeps(w, t, q)
    BY <1>1, <1>2, <1>8, <1>11 DEF Keeps
  <2> QED
    BY <1>1, <1>2, <1>5, <1>7, <1>8, <1>11, <1>12, <2>1 DEF Works
<1>14. Named'
  BY <1>5, <1>7, <1>13, NamedNext
<1>15. req'[w] = q /\ \A v \in Workers : v # w => req'[v] = req[v]
  BY <1>5, <1>7, <1>13, WorksReq
<1>16. ~Late(p) /\ ~Late(q)
  BY <1>5, <1>8 DEF Late, Paying
<1>17. t \in Tokens \ contended =>
           /\ \A r \in recorded : r[1] = t => PaidOrGone(m, r[2])
           /\ Unpaid(m) \subseteq Unpaid(rows[t])
  BY <1>1, <1>2, <1>9, <1>11, <1>16 DEF Holds, Alone
<1>18. Settled(t)'
  BY <1>1, <1>5, <1>12, <1>15, <1>17, SettledStays
<1>19. q.op = "poll" => Owned(q.addr, t)'
  <2>1. p.op = "poll" => Owned(p.addr, t)
    BY <1>1, <1>2, <1>9 DEF Holds
  <2> QED
    BY <1>5, <1>7, <1>8, <1>13, <2>1, WorksOwners DEF Telling
<1>20. Holds(w)'
  BY <1>5, <1>8, <1>11, <1>12, <1>15, <1>16, <1>17, <1>19, HoldsNext
<1> QED
  BY <1>5, <1>7, <1>13, <1>14, <1>18, <1>20, WorkerStep

\* A worker that saved a whole copy of invoice t that adds nothing.
LEMMA WholeTelling ==
    ASSUME TypeOK, TypeOK', Copies, Telling, NEW w \in Workers, NEW p \in Request, p = req[w],
           NEW t, t = p.token, p.step = "accepted", p.op \notin Paying,
           rows' = [rows EXCEPT ![t] = SavedRows(p)], req' = [req EXCEPT ![w] = Idle],
           UNCHANGED <<index, stream, polled, todo, contended, missed>>,
           recorded \subseteq recorded', \A r \in recorded' \ recorded : r = <<t, p.addr>>,
           recorded' # recorded => p.op \in Updating,
           \A a \in remove' \cap Addresses : a \in remove \/ (Owned(a, t) /\ <<t, a>> \in recorded')
    PROVE  Telling'
<1>1. /\ t \in Tokens /\ rows[t] \in Seq(Payment)
      /\ p.payments \in Seq(Payment) /\ p.saved \in Nat
      /\ p.saved = Len(p.payments) /\ p.saved <= Len(rows[t])
      /\ rows' \in [Tokens -> Seq(Payment)] /\ Mixed(rows'[t], rows[t], p.payments, p.saved)
      /\ \A u \in Tokens : u # t => rows'[u] = rows[u]
      /\ rows'[t] = Merged(rows[t], p.payments, p.saved)
  BY WholeRows
<1>a. \A k \in DOMAIN rows'[t] :
          rows'[t][k] = IF k <= p.saved THEN p.payments[k] ELSE rows[t][k]
  BY <1>1, SavedMixed
<1>2. Idle \in Request /\ Idle.payments = <<>> /\ Idle.token = NoToken /\ Idle.step = "idle"
  BY IdleCopied DEF Idle
<1>3. Fits(w) /\ Holds(w) /\ Settled(t) /\ Single(t)
  BY <1>1 DEF Telling
<1>4. Works(w, t, Idle)
  <2>1. Keeps(w, t, Idle) /\ OneEach(Idle.payments)
    BY <1>2 DEF Keeps, OneEach
  <2>2. \A r \in recorded' \ recorded : r[1] = t
    OBVIOUS
  <2> QED
    BY <1>1, <1>2, <2>1, <2>2 DEF Works
<1>5. \A r \in recorded' \ recorded : HasAddress(p.payments, p.addr) /\ Owned(r[2], t)
  <2> SUFFICES ASSUME NEW r \in recorded' \ recorded
               PROVE  HasAddress(p.payments, p.addr) /\ Owned(r[2], t)
    OBVIOUS
  <2>1. HasAddress(p.payments, p.addr) /\ r[2] = p.addr
    BY <1>3 DEF Holds
  <2> QED
    BY <1>1, <2>1, CopyOwned
<1>6. Named'
  BY <1>1, <1>2, <1>4, <1>5, NamedNext
<1>7. req'[w] = Idle /\ \A v \in Workers : v # w => req'[v] = req[v]
  BY <1>1, <1>2, <1>4, WorksReq
<1>8. t \in Tokens \ contended =>
          /\ \A r \in recorded : r[1] = t => PaidOrGone(p.payments, r[2])
          /\ Unpaid(p.payments) \subseteq Unpaid(rows[t])
          /\ p.op \in Updating => PaidOrGone(p.payments, p.addr) /\ PaidOrGone(stream[t], p.addr)
  <2>1. ~Late(p)
    BY DEF Late
  <2> QED
    BY <1>3, <2>1 DEF Holds, Alone
<1>9. /\ Unpaid(rows'[t]) \subseteq Unpaid(rows[t]) \cup Unpaid(p.payments)
      /\ \A a : PaidOrGone(rows[t], a) /\ PaidOrGone(p.payments, a) => PaidOrGone(rows'[t], a)
  BY <1>1, MixedHas
<1>10. ASSUME t \notin contended, NEW r \in recorded', r[1] = t
       PROVE  PaidOrGone(rows'[t], r[2]) /\ PaidOrGone(stream[t], r[2])
  <2>1. CASE r \in recorded
    BY <1>1, <1>3, <1>8, <1>9, <1>10, <2>1 DEF Settled
  <2>2. CASE r \notin recorded
    <3>1. r[2] = p.addr /\ PaidOrGone(p.payments, p.addr) /\ PaidOrGone(stream[t], p.addr)
      BY <1>1, <1>8, <1>10, <2>2
    <3>2. PICK k \in DOMAIN p.payments : p.payments[k].addr = p.addr
      BY <1>5, <2>2 DEF HasAddress
    <3>3. k \in DOMAIN rows'[t] /\ rows'[t][k] = p.payments[k]
      <4>1. k \in Nat /\ 1 <= k /\ k <= p.saved /\ rows'[t] \in Seq(Payment)
        BY <1>1
      <4>2. Len(rows[t]) <= Len(rows'[t])
        BY <1>1 DEF Mixed
      <4>3. k <= Len(rows'[t]) /\ DOMAIN rows'[t] = 1..Len(rows'[t])
        BY <1>1, <4>1, <4>2
      <4> QED
        BY <1>a, <4>1, <4>3
    <3>4. OneEach(rows'[t])
      BY <1>1, <1>3, MixedOneEach DEF Fits, Single
    <3>5. PaidOrGone(rows'[t], p.addr)
      BY <3>1, <3>2, <3>3, <3>4 DEF OneEach, PaidOrGone
    <3> QED
      BY <3>1, <3>5
  <2> QED
    BY <2>1, <2>2
<1>11. Settled(t)'
  <2>1. ASSUME t \notin contended, t \notin missed, NEW a \in Unpaid(rows'[t])
        PROVE  polled[a] = t \/ \E g \in Admins : req'[g].step = "stored" /\ req'[g].addr = a
    <3>1. a \in Unpaid(rows[t])
      BY <1>1, <1>8, <1>9, <2>1
    <3>2. polled[a] = t \/ Entering(a)
      BY <1>3, <2>1, <3>1 DEF Settled
    <3> QED
      BY <1>7, <3>2 DEF Entering, Workers
  <2> QED
    BY <1>10, <2>1, SettledNext
<1>12. Holds(w)'
  BY <1>7, HoldsIdle
<1> QED
  BY <1>1, <1>2, <1>4, <1>6, <1>11, <1>12, WorkerStep

LEMMA UpdateStoreTelling ==
    ASSUME TypeOK, TypeOK', Copies, Telling, NEW w \in Workers,
           NEW replied \in BOOLEAN, UpdateStore(w, replied)
    PROVE  Telling'
<1>1. PICK p \in Request : p = req[w]
  BY DEF TypeOK
<1>2. PICK t : t = p.token
  OBVIOUS
<1>3. /\ p.step = "accepted" /\ p.op \in Updating /\ p.op \notin Paying
      /\ rows' = [rows EXCEPT ![t] = SavedRows(p)] /\ req' = [req EXCEPT ![w] = Idle]
      /\ UNCHANGED <<index, stream, polled, todo, contended, missed>>
      /\ recorded' = IF replied THEN recorded \cup {<<t, p.addr>>} ELSE recorded
      /\ remove' = IF replied /\ p.op = "poll" THEN remove \cup {p.addr} ELSE remove
  BY <1>1, <1>2 DEF UpdateStore, pdVars, Paying, Updating
<1>4. p.op = "poll" => Owned(p.addr, t)
  BY <1>1, <1>2 DEF Telling, Holds
<1>5. \A a \in remove' \cap Addresses : a \in remove \/ (Owned(a, t) /\ <<t, a>> \in recorded')
  BY <1>3, <1>4
<1>6. recorded \subseteq recorded' /\ \A r \in recorded' \ recorded : r = <<t, p.addr>>
  BY <1>3
<1> QED
  BY <1>1, <1>2, <1>3, <1>5, <1>6, WholeTelling

LEMMA DecideStoreTelling ==
    ASSUME TypeOK, TypeOK', Copies, Telling, NEW h \in Admins, DecideStore(h)
    PROVE  Telling'
<1>1. PICK p \in Request : p = req[h] /\ h \in Workers
  BY DEF TypeOK, Workers
<1>2. PICK t : t = p.token
  OBVIOUS
<1>3. /\ p.step = "accepted" /\ p.op \notin Paying
      /\ rows' = [rows EXCEPT ![t] = SavedRows(p)] /\ req' = [req EXCEPT ![h] = Idle]
      /\ UNCHANGED <<index, stream, polled, todo, contended, missed, remove, recorded>>
  BY <1>1, <1>2 DEF DecideStore, pdVars, pollVars, history, Paying, Decision
<1> QED
  BY <1>1, <1>2, <1>3, WholeTelling

LEMMA DecideAcceptTelling ==
    ASSUME TypeOK, TypeOK', Copies, Telling, NEW h \in Admins, DecideAccept(h)
    PROVE  Telling'
<1>1. PICK p \in Request : p = req[h] /\ h \in Workers
  BY DEF TypeOK, Workers
<1>2. PICK t : t = p.token
  OBVIOUS
<1>3. PICK q : q = [p EXCEPT !.step = "accepted"]
  OBVIOUS
<1>4. /\ p.step = "read" /\ p.op \in {"edit", "approve", "close"} /\ t \in Tokens
      /\ UNCHANGED <<rows, index, stream, polled, todo, remove, contended, missed, recorded>>
  BY <1>1, <1>2 DEF DecideAccept, dbVars, pollVars, history, Copies, Copied, Decision
<1>5. q \in Request /\ req' = [req EXCEPT ![h] = q]
  BY <1>1, <1>3 DEF Request, DecideAccept
<1>6. /\ q.saved = p.saved /\ q.payments = p.payments /\ q.token = t /\ q.op = p.op
      /\ q.step = "accepted"
  BY <1>2, <1>3 DEF Request
<1>7. Fits(h) /\ Holds(h) /\ Settled(t)
  BY <1>1, <1>4 DEF Telling
<1>8. Works(h, t, q)
  <2>1. \A k \in DOMAIN q.payments : k \in DOMAIN p.payments /\ q.payments[k].addr = p.payments[k].addr
    BY <1>6
  <2>2. Keeps(h, t, q)
    BY <1>1, <1>2, <1>6, <2>1 DEF Keeps
  <2>3. OneEach(q.payments)
    BY <1>1, <1>6, <1>7 DEF Fits
  <2> QED
    BY <1>1, <1>2, <1>4, <1>5, <1>6, <2>2, <2>3 DEF Works
<1>9. Named'
  BY <1>1, <1>4, <1>5, <1>8, NamedNext
<1>10. req'[h] = q /\ \A v \in Workers : v # h => req'[v] = req[v]
  BY <1>1, <1>4, <1>5, <1>8, WorksReq
<1>11. Settled(t)'
  BY <1>1, <1>4, <1>7, <1>10, SettledStays DEF Settled
<1>12. ~Late(p) /\ ~Late(q) /\ q.op # "poll" /\ q.op \notin Updating
  BY <1>4, <1>6 DEF Late, Paying, Updating
<1>13. t \in Tokens \ contended =>
           /\ \A r \in recorded : r[1] = t => PaidOrGone(p.payments, r[2])
           /\ Unpaid(p.payments) \subseteq Unpaid(rows[t])
  BY <1>1, <1>2, <1>7, <1>12 DEF Holds, Alone
<1>14. Holds(h)'
  BY <1>4, <1>6, <1>10, <1>12, <1>13, HoldsNext
<1> QED
  BY <1>1, <1>4, <1>5, <1>8, <1>9, <1>11, <1>14, WorkerStep

\* A worker gives up.
LEMMA IdleTelling ==
    ASSUME TypeOK, TypeOK', Copies, Telling, NEW w \in Workers,
           InFlight(w), req' = [req EXCEPT ![w] = Idle],
           UNCHANGED <<rows, index, stream, polled, todo, remove, contended, recorded>>,
           missed \subseteq missed',
           (missed' = missed /\ req[w].step # "stored") \/ req[w].token \in missed'
    PROVE  Telling'
<1>1. PICK t : t = req[w].token
  OBVIOUS
<1>2. t \in Tokens
  BY <1>1 DEF InFlight, Copies, Copied
<1>3. Idle \in Request /\ Idle.payments = <<>> /\ Idle.token = NoToken /\ Idle.step = "idle"
  BY IdleCopied DEF Idle
<1>4. Works(w, t, Idle)
  <2>1. Keeps(w, t, Idle) /\ OneEach(Idle.payments)
    BY <1>3 DEF Keeps, OneEach
  <2> QED
    BY <1>1, <1>2, <1>3, <2>1 DEF Works
<1>5. Named'
  BY <1>2, <1>3, <1>4, NamedNext
<1>6. req'[w] = Idle /\ \A v \in Workers : v # w => req'[v] = req[v]
  BY <1>2, <1>3, <1>4, WorksReq
<1>7. Settled(t)'
  <2>1. Settled(t)
    BY <1>2 DEF Telling
  <2>2. CASE missed' = missed /\ req[w].step # "stored"
    BY <1>2, <1>6, <2>1, <2>2, SettledStays DEF Settled
  <2>3. CASE t \in missed'
    <3>1. t \notin contended =>
              \A r \in recorded : r[1] = t => PaidOrGone(rows[t], r[2]) /\ PaidOrGone(stream[t], r[2])
      BY <2>1 DEF Settled
    <3> QED
      BY <2>3, <3>1, SettledNext
  <2> QED
    BY <1>1, <2>2, <2>3
<1>8. Holds(w)'
  BY <1>6, HoldsIdle
<1> QED
  BY <1>2, <1>3, <1>4, <1>5, <1>7, <1>8, WorkerStep

-----------------------------------------------------------------------------
(* A restart, and the invariant *)

\* When every worker is idle they have nothing in hand.
LEMMA AllIdle ==
    ASSUME \A w \in Workers : req'[w] = Idle
    PROVE  /\ \A w \in Workers : Fits(w)' /\ Holds(w)'
           /\ \A w, v \in Workers : w # v => Together(w, v)'
<1>1. Idle.step = "idle" /\ Idle.token = NoToken /\ Idle.payments = <<>> /\ NoToken \notin Tokens
  BY ConstantsAssumption DEF Idle
<1>2. \A w \in Workers : Fits(w)'
  BY <1>1 DEF Fits, OneEach
<1>3. \A w \in Workers : Holds(w)'
  BY HoldsIdle
<1>4. \A w, v \in Workers : w # v => Together(w, v)'
  BY <1>1 DEF Together
<1> QED
  BY <1>2, <1>3, <1>4

LEMMA RestartTelling ==
    ASSUME TypeOK, Telling, NEW loaded \in BOOLEAN, Restart(loaded)
    PROVE  Telling'
<1>1. /\ rows' = stream /\ stream' = stream /\ index' = index
      /\ contended' = contended /\ recorded' = recorded /\ remove' = {}
      /\ missed' = NotLoaded(loaded)
      /\ todo' = Unwatched
      /\ \A w \in Workers : req'[w] = Idle
  BY DEF Restart, pdVars
<1>2. ASSUME NEW t \in Tokens, NEW a, HasAddress(stream[t], a)
      PROVE  a \in Addresses /\ Knows(t, a) /\ Owned(a, t)
  <2>1. PICK k \in DOMAIN stream[t] : stream[t][k].addr = a
    BY <1>2 DEF HasAddress
  <2>2. stream[t] \in Seq(Payment)
    BY DEF TypeOK
  <2>3. stream[t][k] \in Payment
    BY <2>2
  <2>4. a \in Addresses /\ Knows(t, a)
    BY <1>2, <2>1, <2>3 DEF Payment, Knows
  <2> QED
    BY <2>4 DEF Telling, Separate
<1>3. \A t, a : Knows(t, a)' => HasAddress(stream[t], a)
  <2>1. Idle.payments = <<>>
    BY DEF Idle
  <2> QED
    BY <1>1, <2>1 DEF Knows, HasAddress
<1>4. \A a, u : Owned(a, u) => Owned(a, u)'
  <2> SUFFICES ASSUME NEW a, NEW u, Owned(a, u) PROVE Owned(a, u)'
    OBVIOUS
  <2>1. \A t \in Tokens : Knows(t, a)' => t = u
    BY <1>2, <1>3 DEF Owned
  <2> QED
    BY <1>1, <2>1 DEF Owned
<1>5. Separate'
  <2>1. ASSUME NEW t \in Tokens, NEW a \in Addresses, Knows(t, a)' PROVE Owned(a, t)'
    BY <1>2, <1>3, <1>4, <2>1
  <2> QED
    BY <2>1 DEF Separate
<1>6. ASSUME NEW a \in Addresses
      PROVE  /\ polled'[a] # NoToken => polled'[a] \in Tokens /\ HasAddress(stream[polled'[a]], a)
             /\ \A t \in Tokens \ NotLoaded(loaded) : a \in Unpaid(stream[t]) => polled'[a] = t
  <2> DEFINE at == {t \in Tokens \ NotLoaded(loaded) : a \in Unpaid(stream[t])}
  <2>1. polled'[a] = IF at = {} THEN NoToken ELSE CHOOSE t \in at : TRUE
    BY DEF Restart
  <2>2. \A t \in at : t \in Tokens /\ HasAddress(stream[t], a)
    BY DEF Unpaid, HasAddress
  <2>3. \A t \in Tokens \ NotLoaded(loaded) : a \in Unpaid(stream[t]) => t \in at
    OBVIOUS
  <2> HIDE DEF at
  <2>4. \A t, u \in at : t = u
    <3> SUFFICES ASSUME NEW t \in at, NEW u \in at PROVE t = u
      OBVIOUS
    <3>1. t \in Tokens /\ u \in Tokens /\ HasAddress(stream[t], a) /\ HasAddress(stream[u], a)
      BY <2>2
    <3>2. Owned(a, t) /\ Knows(u, a)
      BY <1>2, <3>1
    <3> QED
      BY <3>1, <3>2 DEF Owned
  <2>5. at # {} => polled'[a] \in at
    BY <2>1
  <2> QED
    BY <2>1, <2>2, <2>3, <2>4, <2>5
<1>7. Named'
  <2>1. ASSUME NEW a \in Addresses, polled'[a] # NoToken
        PROVE  \A u : u = polled'[a] => Owned(a, u)'
    BY <1>2, <1>4, <1>6, <2>1
  <2>2. \A a \in Addresses : polled'[a] # NoToken => Owned(a, polled[a])'
    BY <2>1 DEF Owned, Knows, HasAddress
  <2>3. \A a \in Addresses : todo'[a] = NoToken
    BY <1>1 DEF Unwatched
  <2>4. \A r \in recorded' : Owned(r[2], r[1])'
    BY <1>1, <1>4 DEF Telling, Named
  <2> QED
    BY <1>1, <2>2, <2>3, <2>4 DEF Named
<1>8. ASSUME NEW t \in Tokens PROVE Single(t)' /\ Settled(t)'
  <2>1. Single(t) /\ Settled(t)
    BY DEF Telling
  <2>2. Single(t)'
    BY <1>1, <2>1 DEF Single, OneEach
  <2>3. ASSUME t \notin missed', NEW a \in Unpaid(stream[t]) PROVE polled'[a] = t
    <3>1. HasAddress(stream[t], a)
      BY DEF Unpaid, HasAddress
    <3> QED
      BY <1>1, <1>2, <1>6, <2>3, <3>1
  <2>4. Settled(t)'
    BY <1>1, <2>1, <2>3, SettledNext DEF Settled
  <2> QED
    BY <2>2, <2>4
<1> QED
  BY <1>1, <1>5, <1>7, <1>8, AllIdle DEF Telling

LEMMA InitInv == Init => IndInv
<1> SUFFICES ASSUME Init PROVE IndInv
  OBVIOUS
<1>1. TypeOK
  <2>1. Idle \in Request /\ <<>> \in Seq(Payment) /\ 0 \in Addresses /\ 0 \in 0..MaxRestarts
    BY ConstantsAssumption DEF Idle, Request, Addresses, Statuses
  <2>2. Unwatched \in [Addresses -> Tokens \cup {NoToken}]
    BY DEF Unwatched
  <2> QED
    BY <2>1, <2>2 DEF Init, TypeOK, Statuses
<1>2. \A w \in Workers : req[w] = Idle
  BY DEF Init
<1>3. /\ Idle.step = "idle" /\ Idle.token = NoToken /\ Idle.payments = <<>> /\ Idle.saved = 0
      /\ Idle.op = "none" /\ NoToken \notin Tokens
  BY ConstantsAssumption DEF Idle
<1>4. Copies
  BY <1>2, <1>3 DEF Copies, Copied, Paying
<1>5. \A t \in Tokens : \A a : ~Knows(t, a)
  BY <1>2, <1>3 DEF Init, Knows, HasAddress
<1>6. Separate
  BY <1>5 DEF Separate
<1>7. Named
  BY DEF Named, Init, Unwatched
<1>8. \A t \in Tokens : Single(t) /\ Settled(t)
  BY DEF Single, Settled, OneEach, Init, Unpaid
<1>9. \A w \in Workers : Fits(w) /\ Holds(w)
  BY <1>2, <1>3 DEF Fits, Holds, OneEach, Late, Paying, Updating
<1>10. \A w, v \in Workers : w # v => Together(w, v)
  BY <1>2, <1>3 DEF Together
<1> QED
  BY <1>1, <1>4, <1>6, <1>7, <1>8, <1>9, <1>10 DEF IndInv, Telling

\* The step keeps the types, and tells the addresses apart as long as none is
\* reused.
Stays == TypeOK' /\ Copies' /\ (~reused' => Telling')

LEMMA PayStepInv ==
    ASSUME IndInv, NEW h \in Admins, PayStep(h)
    PROVE  Stays
<1> USE DEF IndInv, Stays
<1>1. ASSUME NEW t \in Tokens, NEW op \in {"total", "extra"}, PayRead(h, t, op) PROVE Stays
  BY <1>1, PayReadTypes, PayReadTelling DEF PayRead
<1>2. ASSUME Refresh(h) PROVE Stays
  BY <1>2, RefreshTypes, RefreshTelling DEF Refresh, history
<1>3. ASSUME DeriveRead(h) PROVE Stays
  BY <1>3, DeriveReadTypes, DeriveReadTelling DEF DeriveRead
<1>4. ASSUME DeriveSave(h) PROVE Stays
  BY <1>4, DeriveSaveTypes, DeriveSaveTelling DEF DeriveSave, history
<1>5. ASSUME PayAccept(h) PROVE Stays
  BY <1>5, PayAcceptTypes, PayAcceptTelling DEF PayAccept, history
<1>6. ASSUME PayStore(h) PROVE Stays
  BY <1>6, PayStoreTypes, PayStoreTelling DEF PayStore, history
<1>7. ASSUME PayPoll(h) PROVE Stays
  BY <1>7, PayPollTypes, PayPollTelling DEF PayPoll, history
<1> QED
  BY <1>1, <1>2, <1>3, <1>4, <1>5, <1>6, <1>7 DEF PayStep

LEMMA StepIndInv == IndInv /\ [Next]_vars => IndInv'
<1> SUFFICES ASSUME IndInv, [Next]_vars PROVE IndInv'
  OBVIOUS
<1> SUFFICES Stays
  BY DEF Stays, IndInv
<1>0. TypeOK /\ Copies /\ (~reused => Telling)
  BY DEF IndInv
<1>1. ASSUME NEW h \in Admins, PayStep(h) PROVE Stays
  BY <1>1, PayStepInv
<1>2. ASSUME NEW h \in Admins, NEW t \in Tokens, NEW a \in Addresses, UpdateRead(h, t, a) PROVE Stays
  BY <1>0, <1>2, UpdateReadTypes, UpdateReadTelling DEF UpdateRead, Stays
<1>3. ASSUME NEW h \in Admins, NEW t \in Tokens, NEW op \in DOMAIN Decision, DecideRead(h, t, op) PROVE Stays
  BY <1>0, <1>3, DecideReadTypes, DecideReadTelling DEF DecideRead, Stays
<1>4. ASSUME NEW h \in Admins, DecideAccept(h) PROVE Stays
  BY <1>0, <1>4, DecideAcceptTypes, DecideAcceptTelling DEF DecideAccept, history, Stays
<1>5. ASSUME NEW h \in Admins, DecideStore(h) PROVE Stays
  BY <1>0, <1>5, DecideStoreTypes, DecideStoreTelling DEF DecideStore, history, Stays
<1>6. ASSUME NEW w \in Workers, UpdateAccept(w) PROVE Stays
  BY <1>0, <1>6, UpdateAcceptTypes, UpdateAcceptTelling DEF UpdateAccept, history, Stays
<1>7. ASSUME NEW w \in Workers, NEW replied \in BOOLEAN, UpdateStore(w, replied) PROVE Stays
  BY <1>0, <1>7, UpdateStoreTypes, UpdateStoreTelling DEF UpdateStore, Stays
<1>8. ASSUME Snapshot PROVE Stays
  BY <1>0, <1>8, SnapshotTypes, SnapshotTelling DEF Snapshot, history, Stays
<1>9. ASSUME NEW a \in Addresses, PollRead(a) PROVE Stays
  BY <1>0, <1>9, PollReadTypes, PollReadTelling DEF PollRead, Stays
<1>10. ASSUME NEW w \in Workers, InFlight(w), req' = [req EXCEPT ![w] = Idle],
              UNCHANGED <<dbVars, pdVars, pollVars, arrived, restarts, contended, reused, recorded>>,
              missed' = (IF req[w].step = "stored" THEN missed \cup {req[w].token} ELSE missed)
       PROVE  Stays
  <2>1. req[w].token \in Tokens
    BY <1>0, <1>10 DEF InFlight, Copies, Copied
  <2>2. missed' \subseteq Tokens
    BY <1>0, <1>10, <2>1 DEF TypeOK
  <2>3. TypeOK' /\ Copies'
    BY <1>0, <1>10, <2>2, IdleTypes
  <2>4. UNCHANGED <<rows, index, stream, polled, todo, remove, contended, recorded, reused>>
    BY <1>10 DEF dbVars, pdVars, pollVars
  <2>5. /\ missed \subseteq missed'
        /\ (missed' = missed /\ req[w].step # "stored") \/ req[w].token \in missed'
    BY <1>10
  <2>6. ASSUME Telling PROVE Telling'
    BY <1>0, <1>10, <2>3, <2>4, <2>5, <2>6, IdleTelling
  <2> QED
    BY <1>0, <2>3, <2>4, <2>6 DEF Stays
<1>11. ASSUME NothingFound PROVE Stays
  <2>1. Poller \in Workers /\ InFlight(Poller) /\ req[Poller].step # "stored"
    BY <1>11 DEF Workers, InFlight, NothingFound
  <2> QED
    BY <1>10, <1>11, <2>1 DEF NothingFound, history
<1>12. ASSUME RemoveFromPolling PROVE Stays
  BY <1>0, <1>12, RemoveFromPollingTypes, RemoveFromPollingTelling DEF RemoveFromPolling, history, Stays
<1>13. ASSUME NEW w \in Workers, Fail(w) PROVE Stays
  BY <1>10, <1>13 DEF Fail
<1>14. ASSUME NEW a \in Addresses, Arrive(a) PROVE Stays
  BY <1>0, <1>14, ArriveTypes, ArriveTelling DEF Arrive, history, Stays
<1>15. ASSUME NEW a \in Addresses, Lapse(a) PROVE Stays
  BY <1>0, <1>15, LapseTypes, LapseTelling DEF Lapse, history, Stays
<1>16. ASSUME NEW n \in 1..MaxIndex, SaveStaleUser(n) PROVE Stays
  BY <1>0, <1>16, SaveStaleUserTypes DEF SaveStaleUser, Stays
<1>17. ASSUME NEW loaded \in BOOLEAN, Restart(loaded) PROVE Stays
  BY <1>0, <1>17, RestartTypes, RestartTelling DEF Restart, Stays
<1>18. ASSUME UNCHANGED vars PROVE Stays
  <2>1. UNCHANGED <<rows, stream, index, req, contended, recorded, missed, polled, todo, remove, reused>>
    BY <1>18 DEF vars, dbVars, pdVars, pollVars, history
  <2>2. TypeOK'
    BY <1>0, <1>18 DEF TypeOK, vars, dbVars, pdVars, pollVars, history
  <2>3. Copies'
    BY <1>0, <2>1, SameCopies
  <2>4. Telling => Telling'
    <3> SUFFICES ASSUME Telling PROVE Telling'
      OBVIOUS
    <3>1. Named'
      BY <1>0, <2>1, QuietNamed
    <3> QED
      BY <2>1, <3>1, QuietStep
  <2> QED
    BY <1>0, <2>1, <2>2, <2>3, <2>4 DEF Stays
<1> QED
  BY <1>1, <1>2, <1>3, <1>4, <1>5, <1>6, <1>7, <1>8, <1>9, <1>11, <1>12, <1>13, <1>14, <1>15,
     <1>16, <1>17, <1>18 DEF Next

THEOREM Invariance == Spec => []IndInv
<1>1. Init => IndInv
  BY InitInv
<1>2. IndInv /\ [Next]_vars => IndInv'
  BY StepIndInv
<1> QED
  BY <1>1, <1>2, PTL DEF Spec

-----------------------------------------------------------------------------
(* The results *)

\* The tables, politeiad's streams, the map of polled payments, the poller's
\* lists and the copies of the requests keep their shape: no request or
\* restart stores a payment with an address the contractor's key cannot have.
THEOREM TypeCorrect == Spec => []TypeOK
<1>1. IndInv => TypeOK
  BY DEF IndInv
<1> QED
  BY <1>1, Invariance, PTL

\* derivePaymentInfo never hands out an address twice, to one invoice or to
\* two, unless saves of the user's row overlap: whatever requests fail between
\* the derivation and the payment's save, and whatever a restart loads.
THEOREM AddressesStayDistinct == Spec => []AddressesDistinct
<1>1. IndInv => AddressesDistinct
  <2> SUFFICES ASSUME Separate, \A t \in Tokens : Single(t), TypeOK,
                      NEW t \in Tokens, NEW u \in Tokens
               PROVE  /\ \A i \in DOMAIN rows[t], j \in DOMAIN rows[u] :
                             rows[t][i].addr = rows[u][j].addr => t = u /\ i = j
                      /\ \A i \in DOMAIN stream[t], j \in DOMAIN stream[u] :
                             stream[t][i].addr = stream[u][j].addr => t = u /\ i = j
    BY DEF AddressesDistinct, IndInv, Telling
  <2>1. ASSUME NEW p \in Seq(Payment), NEW r \in Seq(Payment), NEW i \in DOMAIN p, NEW j \in DOMAIN r,
               p[i].addr = r[j].addr,
               \A a : HasAddress(p, a) => Knows(t, a), \A a : HasAddress(r, a) => Knows(u, a)
        PROVE  t = u
    <3>1. p[i] \in Payment
      OBVIOUS
    <3>2. p[i].addr \in Addresses /\ HasAddress(p, p[i].addr) /\ HasAddress(r, p[i].addr)
      BY <2>1, <3>1 DEF Payment, HasAddress
    <3> QED
      BY <2>1, <3>2 DEF Separate, Owned
  <2>2. /\ rows[t] \in Seq(Payment) /\ rows[u] \in Seq(Payment)
        /\ stream[t] \in Seq(Payment) /\ stream[u] \in Seq(Payment)
    BY DEF TypeOK
  <2>3. /\ \A a : HasAddress(rows[t], a) => Knows(t, a)
        /\ \A a : HasAddress(rows[u], a) => Knows(u, a)
        /\ \A a : HasAddress(stream[t], a) => Knows(t, a)
        /\ \A a : HasAddress(stream[u], a) => Knows(u, a)
    BY DEF Knows
  <2>4. OneEach(rows[t]) /\ OneEach(stream[t])
    BY DEF Single
  <2>5. ASSUME NEW i \in DOMAIN rows[t], NEW j \in DOMAIN rows[u], rows[t][i].addr = rows[u][j].addr
        PROVE  t = u /\ i = j
    <3>1. t = u
      BY <2>1, <2>2, <2>3, <2>5
    <3> QED
      BY <2>4, <2>5, <3>1 DEF OneEach
  <2>6. ASSUME NEW i \in DOMAIN stream[t], NEW j \in DOMAIN stream[u], stream[t][i].addr = stream[u][j].addr
        PROVE  t = u /\ i = j
    <3>1. t = u
      BY <2>1, <2>2, <2>3, <2>6
    <3> QED
      BY <2>4, <2>6, <3>1 DEF OneEach
  <2> QED
    BY <2>5, <2>6
<1> QED
  BY <1>1, Invariance, PTL

\* A transaction that updateInvoicePayment recorded stays recorded, in the
\* table and in politeiad, as long as no other worker wrote the invoice at the
\* same time: no later payment, review, poller round or restart undoes it.
THEOREM RecordedStay == Spec => []RecordedStaysPaid
<1>1. IndInv => RecordedStaysPaid
  <2> SUFFICES ASSUME TypeOK, Telling, NEW r \in recorded, r[1] \notin contended
               PROVE  PaidOrGone(rows[r[1]], r[2]) /\ PaidOrGone(stream[r[1]], r[2])
    BY DEF RecordedStaysPaid, IndInv
  <2>1. r[1] \in Tokens
    BY DEF TypeOK
  <2> QED
    BY <2>1 DEF Telling, Settled
<1> QED
  BY <1>1, Invariance, PTL

\* The poller watches every unpaid payment of an approved invoice, however its
\* rounds on old snapshots, refreshed and recreated payments, failing calls and
\* restarts interleave.  The exceptions are those of the code: overlapping
\* workers wrote the invoice, the poller or a start passed it over while it was
\* not approved, the load at the last start failed, or the save of a payment
\* was done and reported as failed, and no start has loaded the invoice since.
THEOREM UnpaidAreWatched == Spec => []UnpaidIsWatched
<1>1. IndInv => UnpaidIsWatched
  BY DEF UnpaidIsWatched, IndInv, Telling, Settled
<1> QED
  BY <1>1, Invariance, PTL
=============================================================================
