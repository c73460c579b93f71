------------------------- MODULE UserAccountsProofs -------------------------
(***************************************************************************)
(* Proofs about UserAccounts, for any number of overlapping requests, any  *)
(* limit of failed logins and any number of tokens.                        *)
(***************************************************************************)
EXTENDS UserAccounts, SequenceTheorems, TLAPS

-----------------------------------------------------------------------------
(* The inductive invariant, in named parts *)

\* Request r has a copy that it is going to save.
Drafting(r) == req[r].step \in {"save", "mailFirst"}

Linking   == {"invite", "resend", "link"}
Redeeming == {"register", "redeem"}

\* A user who can log in, or has a session, has registered.
Registered ==
    /\ row.exists => row.tok["register"] # Nil
    /\ ~row.exists => row.ids = <<>> /\ row.failed = 0
    /\ row.tok["register"] = Cleared => row.ids # <<>>
    /\ session => row.ids # <<>>
    /\ \A r \in Requests :
           /\ req[r].op = "login" \/ req[r].step = "session" => row.ids # <<>>
           /\ Drafting(r) /\ req[r].op # "invite" => row.exists

\* A copy has all identities that the row had when it was read.  It says
\* that the user has registered only with an identity.
CopyLengths ==
    \A r \in Requests : Drafting(r) =>
        IF req[r].op = "invite"
        THEN req[r].copy.ids = <<>> /\ req[r].copy.tok["register"] \in Tokens
        ELSE /\ req[r].had <= Len(row.ids)
             /\ req[r].had <= Len(req[r].copy.ids)
             /\ req[r].copy.tok["register"] = Cleared => req[r].copy.ids # <<>>

SomeActive(ids, n) == \E i \in 1..n : IsActive(ids[i])

\* The identities that a copy writes over those of the row have an active
\* one; the first one that is inserted is active.
CopiesActive ==
    /\ row.ids # <<>> => SomeActive(row.ids, Len(row.ids))
    /\ \A r \in Requests : Drafting(r) /\ req[r].op # "invite" =>
           IF req[r].had = 0
           THEN req[r].copy.ids # <<>> => IsActive(req[r].copy.ids[1])
           ELSE SomeActive(req[r].copy.ids, req[r].had)

\* The failures that are in a row's counter at most: none, when it is zero.
Counted == IF row.failed = 0 THEN 0 ELSE failures

\* Without an admin's lock and a skipped reset no counter is higher than the
\* failures: a counter that is not zero stays so, and then no reset is saved.
CountersReached ==
    \/ adminLock
    \/ unreset
    \/ /\ row.failed <= Counted
       /\ \A r \in Requests : Drafting(r) =>
              \/ req[r].op = "lock"
              \/ req[r].op = "fail" /\ req[r].copy.failed <= Counted + 1
              \/ req[r].copy.failed <= Counted

\* What is mailed is a token.
Mailed ==
    \A r \in Requests :
        /\ req[r].step \in {"mail", "mailFirst"} => req[r].op \in Linking
        /\ req[r].op \in Linking => req[r].token \in Tokens

\* Requests that have not overlapped follow each other.
OneAtATime ==
    ~contended => \A r, s \in Requests : InFlight(r) /\ InFlight(s) => r = s

\* What the row and the copies hold was issued.
TokensIssued ==
    /\ \A k \in Kinds : row.tok[k] <= issued
    /\ \A n \in Tokens : n > issued => redeemed[n] = 0
    /\ \A r \in Requests : Drafting(r) =>
           req[r].token <= issued /\ \A k \in Kinds : req[r].copy.tok[k] <= issued

\* The row's tokens differ, and none of them has been redeemed.
TokensUnused ==
    ~contended =>
        /\ \A k, l \in Kinds : row.tok[k] = row.tok[l] /\ row.tok[k] \in Tokens => k = l
        /\ \A n \in Tokens : redeemed[n] <= 1 /\ (redeemed[n] = 1 => \A k \in Kinds : row.tok[k] # n)

\* A request that overlaps no other replaces one token by a new one, or
\* redeems it, and leaves the others as they are.
TokensDrafted ==
    ~contended => \A r \in Requests : Drafting(r) =>
        /\ req[r].op \in Linking =>
               /\ req[r].token \in Tokens /\ redeemed[req[r].token] = 0
               /\ \A k \in Kinds : row.tok[k] # req[r].token
               /\ req[r].copy.tok[req[r].kind] = req[r].token
        /\ req[r].op \in Redeeming =>
               /\ req[r].token \in Tokens /\ row.tok[req[r].kind] = req[r].token
               /\ req[r].copy.tok[req[r].kind] = Cleared
        /\ \A k \in Kinds : k # req[r].kind \/ req[r].op \notin Linking \cup Redeeming =>
               req[r].copy.tok[k] \in {Nil, row.tok[k]}

\* Identities none of which, but for the last, was abandoned: the one
\* verified last is active, and no other.
LastActive(ids) ==
    (\A i \in DOMAIN ids : i < Len(ids) => ids[i].activated)
        => \A i \in DOMAIN ids :
               IsActive(ids[i]) <=> ids[i].activated /\ \A j \in DOMAIN ids : ids[j].activated => j <= i

\* So it is with identities that were not written by overlapping requests.
NewestActive ==
    ~contended =>
        /\ LastActive(row.ids)
        /\ row.ids # <<>> => row.tok["register"] = Cleared
        /\ \A r \in Requests : Drafting(r) /\ req[r].op # "invite" =>
               /\ req[r].had = Len(row.ids)
               /\ LastActive(req[r].copy.ids)
               /\ req[r].copy.ids # <<>> => req[r].copy.tok["register"] = Cleared

IndInv ==
    /\ TypeOK
    /\ Registered
    /\ CopyLengths
    /\ CopiesActive
    /\ CountersReached
    /\ Mailed
    /\ OneAtATime
    /\ TokensIssued
    /\ TokensUnused
    /\ TokensDrafted
    /\ NewestActive

-----------------------------------------------------------------------------
(* The operators on identities *)

\* A part of a list of identities.
LEMMA PartOf ==
    ASSUME NEW s \in Seq(Identity), NEW m \in Nat, NEW l \in Nat, 1 <= m, m <= l + 1, l <= Len(s)
    PROVE  /\ SubSeq(s, m, l) \in Seq(Identity)
           /\ Len(SubSeq(s, m, l)) = l - m + 1
           /\ \A i \in 1..(l - m + 1) : SubSeq(s, m, l)[i] = s[m + i - 1]
<1>1. /\ SubSeq(s, m, l) \in Seq(Identity)
      /\ Len(SubSeq(s, m, l)) = l - m + 1
  OBVIOUS
<1>2. \A i \in 1..(l - m + 1) : SubSeq(s, m, l)[i] = s[m + i - 1]
  OBVIOUS
<1> QED
  BY <1>1, <1>2

\* Two lists of identities joined.
LEMMA Joined ==
    ASSUME NEW a \in Seq(Identity), NEW b \in Seq(Identity)
    PROVE  /\ a \o b \in Seq(Identity) /\ Len(a \o b) = Len(a) + Len(b)
           /\ \A i \in 1..(Len(a) + Len(b)) :
                  (a \o b)[i] = IF i <= Len(a) THEN a[i] ELSE b[i - Len(a)]
<1>1. a \o b \in Seq(Identity) /\ Len(a \o b) = Len(a) + Len(b)
  OBVIOUS
<1>2. \A i \in 1..(Len(a) + Len(b)) : (a \o b)[i] = IF i <= Len(a) THEN a[i] ELSE b[i - Len(a)]
  OBVIOUS
<1> QED
  BY <1>1, <1>2

\* The place in the copy of an identity that is inserted.
LEMMA Offset ==
    ASSUME NEW i \in Nat, NEW l \in Nat, NEW m \in Nat, NEW n \in Nat, n <= m, l < i, i <= l + m - n
    PROVE  i - l \in 1..(m - n) /\ n + (i - l) = i - l + n
  OBVIOUS

\* What is saved when the copy has at least the identities it was read with.
Merged(s, c, n) == SubSeq(c, 1, n) \o SubSeq(s, n + 1, Len(s)) \o SubSeq(c, n + 1, Len(c))

\* Length and members of what is saved.
LEMMA MergedIds ==
    ASSUME NEW s \in Seq(Identity), NEW c \in Seq(Identity),
           NEW n \in Nat, n <= Len(s), n <= Len(c)
    PROVE  /\ Merged(s, c, n) \in Seq(Identity)
           /\ Len(Merged(s, c, n)) = Len(s) + Len(c) - n
           /\ \A i \in 1..(Len(s) + Len(c) - n) :
                  Merged(s, c, n)[i] = IF i <= n THEN c[i]
                                       ELSE IF i <= Len(s) THEN s[i]
                                       ELSE c[i - Len(s) + n]
<1> DEFINE a == SubSeq(c, 1, n)
           b == SubSeq(s, n + 1, Len(s))
           d == SubSeq(c, n + 1, Len(c))
<1>0. Len(s) \in Nat /\ Len(c) \in Nat /\ n + 1 \in Nat
  OBVIOUS
<1>1. /\ a \in Seq(Identity) /\ Len(a) = n
      /\ \A i \in 1..n : a[i] = c[i]
  <2>1. /\ a \in Seq(Identity) /\ Len(a) = n - 1 + 1
        /\ \A i \in 1..(n - 1 + 1) : a[i] = c[1 + i - 1]
    BY <1>0, PartOf
  <2> QED
    BY <2>1
<1>2. /\ b \in Seq(Identity) /\ Len(b) = Len(s) - n
      /\ \A i \in 1..(Len(s) - n) : b[i] = s[n + i]
  <2> DEFINE m == n + 1
             l == Len(s)
  <2>1. /\ b \in Seq(Identity) /\ Len(b) = l - m + 1
        /\ \A i \in 1..(l - m + 1) : b[i] = s[m + i - 1]
    BY <1>0, PartOf
  <2>2. \A i \in 1..(l - n) : i \in 1..(l - m + 1) /\ m + i - 1 = n + i
    BY <1>0
  <2> QED
    BY <2>1, <2>2, <1>0
<1>3. /\ d \in Seq(Identity) /\ Len(d) = Len(c) - n
      /\ \A i \in 1..(Len(c) - n) : d[i] = c[n + i]
  <2> DEFINE m == n + 1
             l == Len(c)
  <2>1. /\ d \in Seq(Identity) /\ Len(d) = l - m + 1
        /\ \A i \in 1..(l - m + 1) : d[i] = c[m + i - 1]
    BY <1>0, PartOf
  <2>2. \A i \in 1..(l - n) : i \in 1..(l - m + 1) /\ m + i - 1 = n + i
    BY <1>0
  <2> QED
    BY <2>1, <2>2, <1>0
<1> HIDE DEF a, b, d
<1>4. /\ a \o b \in Seq(Identity) /\ Len(a \o b) = Len(s)
      /\ \A i \in 1..Len(s) : (a \o b)[i] = IF i <= n THEN c[i] ELSE s[i]
  <2>1. /\ a \o b \in Seq(Identity) /\ Len(a \o b) = Len(a) + Len(b)
        /\ \A i \in 1..(Len(a) + Len(b)) :
               (a \o b)[i] = IF i <= Len(a) THEN a[i] ELSE b[i - Len(a)]
    BY <1>1, <1>2, Joined
  <2>2. Len(a) + Len(b) = Len(s)
    BY <1>0, <1>1, <1>2
  <2>3. ASSUME NEW i \in 1..Len(s)
        PROVE  (a \o b)[i] = IF i <= n THEN c[i] ELSE s[i]
    <3>1. (a \o b)[i] = IF i <= n THEN a[i] ELSE b[i - n]
      BY <2>1, <2>2, <1>1
    <3>2. CASE i <= n
      BY <3>1, <3>2, <1>1
    <3>3. CASE ~(i <= n)
      <4>1. i - n \in 1..(Len(s) - n) /\ n + (i - n) = i
        BY <3>3, <1>0
      <4>2. b[i - n] = s[n + (i - n)]
        BY <4>1, <1>2
      <4> QED
        BY <4>1, <4>2, <3>1, <3>3
    <3> QED
      BY <3>2, <3>3
  <2> QED
    BY <2>1, <2>2, <2>3
<1> DEFINE ab == a \o b
<1> HIDE DEF ab
<1>5. /\ ab \o d \in Seq(Identity) /\ Len(ab \o d) = Len(s) + Len(c) - n
      /\ \A i \in 1..(Len(s) + Len(c) - n) :
             (ab \o d)[i] = IF i <= Len(s) THEN ab[i] ELSE c[i - Len(s) + n]
  <2>0. ab \in Seq(Identity) /\ Len(ab) = Len(s)
    BY <1>4 DEF ab
  <2>1. /\ ab \o d \in Seq(Identity) /\ Len(ab \o d) = Len(ab) + Len(d)
        /\ \A i \in 1..(Len(ab) + Len(d)) :
               (ab \o d)[i] = IF i <= Len(ab) THEN ab[i] ELSE d[i - Len(ab)]
    BY <2>0, <1>3, Joined
  <2>2. Len(ab) + Len(d) = Len(s) + Len(c) - n
    BY <2>0, <1>0, <1>3
  <2>3. ASSUME NEW i \in 1..(Len(s) + Len(c) - n)
        PROVE  (ab \o d)[i] = IF i <= Len(s) THEN ab[i] ELSE c[i - Len(s) + n]
    <3>1. (ab \o d)[i] = IF i <= Len(s) THEN ab[i] ELSE d[i - Len(s)]
      BY <2>0, <2>1, <2>2
    <3>2. CASE ~(i <= Len(s))
      <4>0. i \in Nat /\ Len(s) < i /\ i <= Len(s) + Len(c) - n
        BY <3>2, <1>0
      <4>1. i - Len(s) \in 1..(Len(c) - n) /\ n + (i - Len(s)) = i - Len(s) + n
        BY <4>0, <1>0, Offset
      <4>2. d[i - Len(s)] = c[n + (i - Len(s))]
        BY <4>1, <1>3
      <4> QED
        BY <4>1, <4>2, <3>1, <3>2
    <3> QED
      BY <3>1, <3>2
  <2> QED
    BY <2>1, <2>2, <2>3
<1>6. Merged(s, c, n) = ab \o d
  BY DEF Merged, ab, a, b, d
<1>7. ASSUME NEW i \in 1..(Len(s) + Len(c) - n)
      PROVE  (ab \o d)[i] = IF i <= n THEN c[i]
                                   ELSE IF i <= Len(s) THEN s[i]
                                   ELSE c[i - Len(s) + n]
  <2>1. i \in Nat /\ 1 <= i
    BY <1>0
  <2>2. CASE i <= Len(s)
    <3>1. i \in 1..Len(s)
      BY <2>1, <2>2, <1>0
    <3> QED
      BY <2>2, <3>1, <1>0, <1>4, <1>5 DEF ab
  <2>3. CASE ~(i <= Len(s))
    BY <2>1, <2>3, <1>0, <1>5
  <2> QED
    BY <2>2, <2>3
<1> QED
  BY <1>5, <1>6, <1>7

\* A copy that was read from the row as it still is replaces its identities.
LEMMA MergedAll ==
    ASSUME NEW s \in Seq(Identity), NEW c \in Seq(Identity), NEW n \in Nat,
           n = Len(s), n <= Len(c)
    PROVE  Merged(s, c, n) = c
<1> DEFINE m == Merged(s, c, n)
<1>1. /\ m \in Seq(Identity) /\ Len(m) = Len(s) + Len(c) - n
      /\ \A i \in 1..(Len(s) + Len(c) - n) :
             m[i] = IF i <= n THEN c[i] ELSE IF i <= Len(s) THEN s[i] ELSE c[i - Len(s) + n]
  <2>1. n <= Len(s)
    OBVIOUS
  <2> QED
    BY <2>1, ZenonT(30), MergedIds
<1> HIDE DEF m
<1>2. Len(m) = Len(c) /\ \A i \in 1..Len(c) : m[i] = c[i]
  BY <1>1
<1>3. m = c
  BY <1>1, <1>2
<1> QED
  BY <1>3 DEF m

\* Replacing an identity keeps how many there are and leaves the last active.
LEMMA ReplacedIds ==
    ASSUME NEW ids \in Seq(Identity), ids # <<>>
    PROVE  /\ Replaced(ids) \in Seq(Identity)
           /\ Len(Replaced(ids)) = Len(ids)
           /\ IsActive(Replaced(ids)[Len(ids)])
           /\ LastActive(ids) => LastActive(Replaced(ids))
<1> DEFINE P(j) == ~ids[j].deactivated /\ \A k \in 1..(j - 1) : ids[k].deactivated
           i == CHOOSE j \in DOMAIN ids : P(j)
           n == Len(ids)
           new == [activated |-> TRUE, deactivated |-> FALSE]
           one == [ids EXCEPT ![i].deactivated = TRUE]
           res == [one EXCEPT ![n] = new]
<1>0. n \in Nat \ {0} /\ DOMAIN ids = 1..n /\ n = Len(ids) /\ \A j \in 1..n : ids[j] \in Identity
  BY EmptySeq
<1>n. n \in Nat \ {0}
  BY <1>0
<1>1. Replaced(ids) = res
  BY DEF Replaced
<1> HIDE DEF i, n
<1>2. /\ DOMAIN res = 1..n
      /\ res[n] = new
      /\ \A j \in 1..n : j # n => res[j] = IF j = i THEN [ids[j] EXCEPT !.deactivated = TRUE] ELSE ids[j]
  <2>1. ids = [j \in 1..n |-> ids[j]]
    BY <1>0
  <2>2. DOMAIN one = 1..n
    BY <1>0
  <2>3. \A j \in 1..n : one[j] = IF j = i THEN [ids[j] EXCEPT !.deactivated = TRUE] ELSE ids[j]
    BY <1>0
  <2> HIDE DEF one, new
  <2>4. DOMAIN res = 1..n
    BY <2>2
  <2>5. res[n] = new
    BY <2>2, <1>n
  <2>6. \A j \in 1..n : j # n => res[j] = one[j]
    BY <2>2
  <2> QED
    BY <2>3, <2>4, <2>5, <2>6
<1>3. \A j \in 1..n : res[j] \in Identity
  <2> HIDE DEF res
  <2>1. new \in Identity
    BY DEF Identity
  <2>2. \A j \in 1..n : [ids[j] EXCEPT !.deactivated = TRUE] \in Identity
    BY <1>0 DEF Identity
  <2> HIDE DEF new
  <2> QED
    BY <1>0, <1>2, <2>1, <2>2
<1> HIDE DEF res
<1>4. res \in Seq(Identity) /\ Len(res) = n
  <2>1. res = [j \in 1..n |-> res[j]]
    BY <1>1, <1>2 DEF res
  <2>2. res \in [1..n -> Identity]
    BY <2>1, <1>3
  <2> QED
    BY <2>2, <1>0
<1>5. IsActive(res[n])
  BY <1>2 DEF IsActive
<1>6. ASSUME LastActive(ids), \A j \in 1..n : j < n => res[j].activated, NEW j \in 1..n
      PROVE  IsActive(res[j]) <=> res[j].activated /\ \A k \in 1..n : res[k].activated => k <= j
  <2>1. \A k \in 1..n : k < n => ids[k].activated
    BY <1>0, <1>2, <1>6 DEF Identity
  <2>2. \A k \in 1..n : IsActive(ids[k]) <=> ids[k].activated /\ \A l \in 1..n : ids[l].activated => l <= k
    BY <1>0, <1>6, <2>1 DEF LastActive
  <2>3. res[n].activated
    BY <1>2
  <2>4. CASE j = n
    BY <2>4, <1>0, <1>5, <2>3
  <2>5. CASE j # n
    <3>1. j < n
      BY <2>5, <1>n
    <3>2. ~IsActive(res[j])
      <4>1. CASE j < n - 1 \/ ids[n].activated
        <5>1. ~IsActive(ids[j])
          <6>1. CASE j < n - 1
            <7>1. n - 1 \in 1..n /\ n - 1 < n /\ ~(n - 1 <= j)
              BY <6>1, <1>0
            <7> QED
              BY <7>1, <2>1, <2>2
          <6>2. CASE ids[n].activated
            BY <6>2, <3>1, <1>0, <2>2
          <6> QED
            BY <4>1, <6>1, <6>2
        <5> QED
          BY <5>1, <2>5, <1>0, <1>2 DEF IsActive, Identity
      <4>2. CASE j = n - 1 /\ ~ids[n].activated
        <5>1. IsActive(ids[j])
          <6>1. ids[j].activated
            BY <3>1, <2>1
          <6>2. ASSUME NEW l \in 1..n, ids[l].activated PROVE l <= j
            BY <6>2, <4>2, <1>0
          <6> QED
            BY <6>1, <6>2, <2>2
        <5>2. \A k \in 1..(j - 1) : ids[k].deactivated
          <6> TAKE k \in 1..(j - 1)
          <6>1. k \in 1..n /\ k < n /\ ~(j <= k)
            BY <1>0
          <6>2. ~IsActive(ids[k])
            BY <6>1, <5>1, <2>2 DEF IsActive
          <6> QED
            BY <6>1, <6>2, <2>1 DEF IsActive
        <5>3. P(j)
          BY <5>1, <5>2 DEF IsActive
        <5>4. ASSUME NEW l \in 1..n, P(l) PROVE l = j
          <6>1. CASE l < j
            BY <6>1, <5>4, <5>2
          <6>2. CASE j < l
            <7>1. j \in 1..(l - 1)
              BY <6>2
            <7> QED
              BY <7>1, <5>4, <5>3
          <6> QED
            BY <6>1, <6>2
        <5>5. i = j
          <6>1. i \in 1..n /\ P(i)
            BY <5>3, <1>0 DEF i
          <6> QED
            BY <6>1, <5>4
        <5> QED
          BY <5>5, <2>5, <1>0, <1>2 DEF IsActive, Identity
      <4> QED
        BY <3>1, <1>n, <4>1, <4>2
    <3>3. ~(n <= j) /\ n \in 1..n
      BY <3>1, <1>0
    <3> QED
      BY <3>2, <3>3, <2>3
  <2> QED
    BY <2>4, <2>5
<1>7. LastActive(ids) => LastActive(res)
  BY <1>0, <1>4, <1>2, <1>6 DEF LastActive
<1> QED
  BY <1>0, <1>1, <1>4, <1>5, <1>7

\* An identity that is added: verified at once if it is the first, else not yet.
LEMMA AppendedIds ==
    ASSUME NEW ids \in Seq(Identity), NEW a \in BOOLEAN,
           LastActive(ids), a <=> ids = <<>>
    PROVE  LastActive(Append(ids, [activated |-> a, deactivated |-> FALSE]))
<1> DEFINE e == [activated |-> a, deactivated |-> FALSE]
           n == Len(ids)
           res == Append(ids, e)
<1>0. n \in Nat /\ DOMAIN ids = 1..n /\ (a <=> n = 0) /\ e \in Identity
  BY EmptySeq DEF Identity
<1>1. /\ res \in Seq(Identity) /\ Len(res) = n + 1 /\ DOMAIN res = 1..(n + 1)
      /\ res[n + 1] = e
      /\ \A i \in 1..n : res[i] = ids[i]
  BY <1>0, AppendProperties
<1> HIDE DEF res
<1>2. ASSUME \A i \in 1..(n + 1) : i < n + 1 => res[i].activated, NEW i \in 1..(n + 1)
      PROVE  IsActive(res[i]) <=> res[i].activated /\ \A j \in 1..(n + 1) : res[j].activated => j <= i
  <2>1. CASE n = 0
    BY <2>1, <1>0, <1>1 DEF IsActive
  <2>2. CASE n # 0 /\ i = n + 1
    BY <2>2, <1>0, <1>1 DEF IsActive
  <2>3. CASE n # 0 /\ i # n + 1
    <3>1. i \in 1..n /\ res[i] = ids[i]
      BY <2>3, <1>0, <1>1
    <3>2. \A j \in 1..n : j < n => ids[j].activated
      BY <1>0, <1>1, <1>2
    <3>3. IsActive(ids[i]) <=> ids[i].activated /\ \A j \in 1..n : ids[j].activated => j <= i
      BY <3>1, <3>2, <1>0 DEF LastActive
    <3>4. ~res[n + 1].activated
      BY <2>3, <1>0, <1>1
    <3> QED
      BY <3>1, <3>3, <3>4, <1>0, <1>1
  <2> QED
    BY <2>1, <2>2, <2>3
<1>3. LastActive(res)
  BY <1>0, <1>1, <1>2 DEF LastActive
<1> QED
  BY <1>3 DEF res

-----------------------------------------------------------------------------
(* What a request that has read the user is going to save *)

\* Its operation, and that the copy is a user.
Drafted(op, step, c, kind, token) ==
    /\ op \in {"invite", "resend", "register", "login", "fail", "link",
               "redeem", "edit", "expire", "unlock", "lock"}
    /\ step \in {"save", "mailFirst"}
    /\ step = "mailFirst" => op \in Linking
    /\ kind \in Kinds
    /\ token \in {Nil} \cup Tokens
    /\ c \in User
    /\ op # "invite" => row.exists
    /\ op = "login" => row.ids # <<>>
    /\ op = "invite" => c.ids = <<>> /\ c.tok["register"] \in Tokens

\* Its identities are those of the row, one more, or the last replaces one.
DraftedIds(op, c) ==
    op # "invite" =>
        /\ \/ c.ids = row.ids
           \/ \E a \in BOOLEAN :
                  /\ c.ids = Append(row.ids, [activated |-> a, deactivated |-> FALSE])
                  /\ a \/ row.ids # <<>>
                  /\ ~contended => (a <=> row.ids = <<>>)
           \/ row.ids # <<>> /\ c.ids = Replaced(row.ids)
        /\ c.tok["register"] = Cleared => c.ids # <<>>
        /\ ~contended /\ c.ids # <<>> => c.tok["register"] = Cleared

\* Its counter of failed logins.
DraftedFailed(op, c) ==
    \/ op = "lock"
    \/ op = "fail" /\ c.failed = row.failed + 1
    \/ c.failed = 0 \/ c.failed = row.failed

\* Its tokens.
DraftedTokens(op, c, kind, token) ==
    /\ issued' \in {issued, issued + 1} /\ issued' <= MaxTokens + 1
    /\ op \in Linking => token = issued + 1 /\ issued' = issued + 1 /\ c.tok[kind] = token
    /\ op \in Redeeming => token \in Tokens /\ row.tok[kind] = token /\ c.tok[kind] = Cleared
    /\ op \notin Linking \cup Redeeming => token = Nil
    /\ \A k \in Kinds : k # kind \/ op \notin Linking \cup Redeeming => c.tok[k] \in {Nil, row.tok[k]}

\* What TypeOK says of the row.
LEMMA RowType ==
    ASSUME TypeOK
    PROVE  /\ row.ids \in Seq(Identity) /\ Len(row.ids) \in Nat /\ row.exists \in BOOLEAN
           /\ row.failed \in 0..LoginAttemptsToLockUser
           /\ \A k \in Kinds : row.tok[k] \in {Nil, Cleared} \cup Tokens
           /\ row.tok \in [Kinds -> {Nil, Cleared} \cup Tokens]
  BY DEF TypeOK, User

\* What TypeOK says of a request.
LEMMA CopyType ==
    ASSUME TypeOK, NEW r \in Requests
    PROVE  /\ req[r] \in Request /\ req[r].copy \in User
           /\ req[r].copy.ids \in Seq(Identity) /\ Len(req[r].copy.ids) \in Nat
           /\ req[r].copy.failed \in 0..LoginAttemptsToLockUser
           /\ \A k \in Kinds : req[r].copy.tok[k] \in {Nil, Cleared} \cup Tokens
           /\ req[r].copy.tok \in [Kinds -> {Nil, Cleared} \cup Tokens]
           /\ req[r].had \in Nat /\ req[r].kind \in Kinds /\ req[r].token \in {Nil} \cup Tokens
<1>1. req[r] \in Request
  BY DEF TypeOK
<1>2. req[r].copy \in User
  BY <1>1 DEF Request
<1> QED
  BY <1>1, <1>2 DEF Request, User

\* The identities of a copy, as the invariant has them.
LEMMA DraftedIdentities ==
    ASSUME TypeOK, CopiesActive, NewestActive, NEW op, NEW c \in User,
           DraftedIds(op, c), op # "invite"
    PROVE  /\ Len(row.ids) <= Len(c.ids)
           /\ c.tok["register"] = Cleared => c.ids # <<>>
           /\ Len(row.ids) = 0 => (c.ids # <<>> => IsActive(c.ids[1]))
           /\ Len(row.ids) # 0 => SomeActive(c.ids, Len(row.ids))
           /\ ~contended => LastActive(c.ids)
<1> DEFINE ids == row.ids
           n == Len(ids)
<1>1. ids \in Seq(Identity) /\ n \in Nat /\ DOMAIN ids = 1..n /\ n = Len(ids)
  BY RowType
<1>2. /\ ids # <<>> => SomeActive(ids, n)
      /\ ~contended => LastActive(ids)
  BY DEF CopiesActive, NewestActive
<1>3. ids = <<>> <=> n = 0
  BY <1>1, EmptySeq
<1> HIDE DEF n
<1>4. CASE c.ids = ids
  BY <1>1, <1>2, <1>3, <1>4 DEF DraftedIds, n
<1>5. ASSUME NEW a \in BOOLEAN,
             c.ids = Append(ids, [activated |-> a, deactivated |-> FALSE]),
             a \/ ids # <<>>,
             ~contended => (a <=> ids = <<>>)
      PROVE  /\ n <= Len(c.ids)
             /\ n = 0 => (c.ids # <<>> => IsActive(c.ids[1]))
             /\ n # 0 => SomeActive(c.ids, n)
             /\ ~contended => LastActive(c.ids)
  <2> DEFINE e == [activated |-> a, deactivated |-> FALSE]
  <2>1. e \in Identity
    BY DEF Identity
  <2>2. IsActive(e) <=> a
    BY DEF IsActive
  <2> HIDE DEF e
  <2>3. /\ Len(Append(ids, e)) = n + 1 /\ Append(ids, e)[n + 1] = e
        /\ \A i \in 1..n : Append(ids, e)[i] = ids[i]
    BY <1>1, <2>1, AppendProperties
  <2>4. c.ids = Append(ids, e)
    BY <1>5 DEF e
  <2> DEFINE s == Append(ids, e)
  <2> HIDE DEF s
  <2>5. Len(s) = n + 1 /\ s[n + 1] = e /\ \A i \in 1..n : s[i] = ids[i]
    BY <2>3 DEF s
  <2>6. n <= Len(s)
    BY <1>1, <2>5
  <2>7. n = 0 => IsActive(s[1])
    BY <1>1, <1>3, <1>5, <2>2, <2>5
  <2>8. n # 0 => SomeActive(s, n)
    BY <1>2, <1>3, <2>5 DEF SomeActive
  <2>9. ~contended => LastActive(Append(ids, [activated |-> a, deactivated |-> FALSE]))
    BY <1>1, <1>2, <1>5, AppendedIds
  <2> QED
    BY <2>4, <2>6, <2>7, <2>8, <2>9 DEF s, e
<1>6. CASE ids # <<>> /\ c.ids = Replaced(ids)
  <2>1. /\ Len(c.ids) = n /\ IsActive(c.ids[n])
        /\ LastActive(ids) => LastActive(c.ids)
    BY <1>1, <1>6, ReplacedIds
  <2>2. n # 0 /\ n \in 1..n
    BY <1>1, <1>3, <1>6
  <2> QED
    BY <1>1, <1>2, <2>1, <2>2 DEF DraftedIds, SomeActive, n
<1>7. \/ c.ids = ids
      \/ \E a \in BOOLEAN :
             /\ c.ids = Append(ids, [activated |-> a, deactivated |-> FALSE])
             /\ a \/ ids # <<>>
             /\ ~contended => (a <=> ids = <<>>)
      \/ ids # <<>> /\ c.ids = Replaced(ids)
  BY DEF DraftedIds
<1>8. c.tok["register"] = Cleared => c.ids # <<>>
  BY DEF DraftedIds
<1> QED
  BY <1>4, <1>5, <1>6, <1>7, <1>8 DEF n

-----------------------------------------------------------------------------
(* Steps that preserve the invariant *)

\* A request that reads the user.
LEMMA BeginPreserves ==
    ASSUME IndInv, NEW r \in Requests, NEW op, NEW step, NEW c, NEW kind, NEW token,
           Drafted(op, step, c, kind, token), DraftedIds(op, c), DraftedFailed(op, c),
           DraftedTokens(op, c, kind, token), Begin(r, op, step, c, kind, token)
    PROVE  IndInv'
<1> DEFINE q == [op |-> op, kind |-> kind, step |-> step, copy |-> c,
                 had |-> Len(row.ids), token |-> token]
<1>1. /\ TypeOK /\ Registered /\ CopyLengths /\ CopiesActive /\ CountersReached /\ Mailed /\ OneAtATime
      /\ TokensIssued /\ TokensUnused /\ TokensDrafted /\ NewestActive
  BY DEF IndInv
<1>2. /\ ~InFlight(r)
      /\ req' = [req EXCEPT ![r] = q]
      /\ contended' = (contended \/ \E o \in Requests \ {r} : InFlight(o))
      /\ row' = row /\ expired' = expired /\ known' = known /\ session' = session
      /\ failures' = failures /\ unreset' = unreset /\ adminLock' = adminLock /\ redeemed' = redeemed
  BY DEF Begin
<1>3. /\ op \in {"invite", "resend", "register", "login", "fail", "link",
                 "redeem", "edit", "expire", "unlock", "lock"}
      /\ step \in {"save", "mailFirst"} /\ kind \in Kinds /\ token \in {Nil} \cup Tokens /\ c \in User
  BY DEF Drafted
<1>4. q \in Request
  BY <1>1, <1>3, RowType DEF Request
<1>5. /\ q.op = op /\ q.step = step /\ q.copy = c /\ q.kind = kind /\ q.token = token
      /\ q.had = Len(row.ids)
  OBVIOUS
<1> HIDE DEF q
<1>6. /\ req'[r] = q
      /\ \A s \in Requests : s # r => req'[s] = req[s]
      /\ req' \in [Requests -> Request]
  BY <1>1, <1>2, <1>4 DEF TypeOK
<1>7. \A s \in Requests : Drafting(s) => InFlight(s)
  BY DEF Drafting, InFlight
<1>8. ~contended' => ~contended /\ \A s \in Requests : s # r => ~InFlight(s) /\ ~Drafting(s)
  BY <1>2, <1>7
<1>9. /\ issued \in Nat /\ 1 <= issued /\ issued' \in 1..(MaxTokens + 1) /\ issued <= issued'
      /\ expired \in 1..issued' /\ MaxTokens \in Nat
  BY <1>1, <1>2, ConstantsAssumption DEF TypeOK, DraftedTokens
<1>10. TypeOK'
  BY <1>1, <1>2, <1>6, <1>9 DEF TypeOK
<1>11. Registered'
  BY <1>1, <1>2, <1>3, <1>5, <1>6 DEF Registered, Drafting, Drafted
<1>12. op # "invite" =>
          /\ Len(row.ids) <= Len(c.ids)
          /\ c.tok["register"] = Cleared => c.ids # <<>>
          /\ Len(row.ids) = 0 => (c.ids # <<>> => IsActive(c.ids[1]))
          /\ Len(row.ids) # 0 => SomeActive(c.ids, Len(row.ids))
          /\ ~contended => LastActive(c.ids)
  BY <1>1, <1>3, DraftedIdentities
<1>13. CopyLengths'
  <2> SUFFICES ASSUME NEW s \in Requests, Drafting(s)'
               PROVE  IF req'[s].op = "invite"
                      THEN req'[s].copy.ids = <<>> /\ req'[s].copy.tok["register"] \in Tokens
                      ELSE /\ req'[s].had <= Len(row.ids)
                           /\ req'[s].had <= Len(req'[s].copy.ids)
                           /\ req'[s].copy.tok["register"] = Cleared => req'[s].copy.ids # <<>>
    BY <1>2 DEF CopyLengths
  <2>1. CASE s = r
    <3>1. Len(row.ids) <= Len(row.ids)
      BY <1>1, RowType
    <3> QED
      BY <2>1, <3>1, <1>5, <1>6, <1>12 DEF Drafted
  <2>2. CASE s # r
    BY <2>2, <1>1, <1>6 DEF CopyLengths, Drafting
  <2> QED
    BY <2>1, <2>2
<1>14. CopiesActive'
  <2>1. ASSUME NEW s \in Requests, Drafting(s)', req'[s].op # "invite"
        PROVE  IF req'[s].had = 0
               THEN req'[s].copy.ids # <<>> => IsActive(req'[s].copy.ids[1])
               ELSE SomeActive(req'[s].copy.ids, req'[s].had)
    <3>1. CASE s = r
      BY <2>1, <3>1, <1>5, <1>6, <1>12
    <3>2. CASE s # r
      BY <2>1, <3>2, <1>1, <1>6 DEF CopiesActive, Drafting
    <3> QED
      BY <3>1, <3>2
  <2>2. row'.ids # <<>> => SomeActive(row'.ids, Len(row'.ids))
    BY <1>1, <1>2 DEF CopiesActive
  <2> QED
    BY <2>1, <2>2 DEF CopiesActive, SomeActive, IsActive
<1>15. CountersReached'
  <2>1. CASE adminLock \/ unreset
    BY <2>1, <1>2 DEF CountersReached
  <2>2. CASE ~adminLock /\ ~unreset
    <3>1. row.failed \in Nat /\ Counted \in Nat /\ row.failed <= Counted
      BY <2>2, <1>1, RowType DEF CountersReached, Counted, TypeOK
    <3>0. Counted' = Counted
      BY <1>2 DEF Counted
    <3>2. op = "lock" \/ (op = "fail" /\ c.failed <= Counted + 1) \/ c.failed <= Counted
      <4>1. row.failed + 1 <= Counted + 1 /\ 0 <= Counted
        BY <3>1
      <4>2. CASE op = "fail" /\ c.failed = row.failed + 1
        BY <4>1, <4>2
      <4>3. CASE c.failed = 0 \/ c.failed = row.failed
        BY <3>1, <4>1, <4>3
      <4> QED
        BY <4>2, <4>3 DEF DraftedFailed
    <3>3. ASSUME NEW s \in Requests, Drafting(s)'
          PROVE  \/ req'[s].op = "lock"
                 \/ req'[s].op = "fail" /\ req'[s].copy.failed <= Counted + 1
                 \/ req'[s].copy.failed <= Counted
      <4>1. CASE s = r
        BY <4>1, <3>2, <1>5, <1>6
      <4>2. CASE s # r
        BY <2>2, <3>3, <4>2, <1>1, <1>6 DEF CountersReached, Drafting
      <4> QED
        BY <4>1, <4>2
    <3> QED
      BY <3>0, <3>1, <3>3, <1>2 DEF CountersReached
  <2> QED
    BY <2>1, <2>2
<1>16. OneAtATime'
  BY <1>6, <1>8 DEF OneAtATime, InFlight
<1>17. \A k \in Kinds : row.tok[k] \in Nat /\ row.tok[k] <= issued
  BY <1>1, RowType DEF TokensIssued, Tokens, Nil, Cleared
<1>18. TokensIssued'
  <2>1. \A k \in Kinds : row'.tok[k] <= issued'
    BY <1>2, <1>9, <1>17
  <2>2. \A n \in Tokens : n > issued' => redeemed'[n] = 0
    BY <1>1, <1>2, <1>9 DEF TokensIssued, Tokens
  <2>3. ASSUME NEW s \in Requests, Drafting(s)'
        PROVE  req'[s].token <= issued' /\ \A k \in Kinds : req'[s].copy.tok[k] <= issued'
    <3>1. CASE s = r
      <4>1. token <= issued'
        BY <1>3, <1>9, <1>17 DEF DraftedTokens, Nil
      <4>2. ASSUME NEW k \in Kinds PROVE c.tok[k] <= issued'
        <5>1. c.tok[k] \in {Nil, Cleared, token, row.tok[k]}
          BY <4>2, <1>3 DEF DraftedTokens
        <5> QED
          BY <5>1, <4>1, <1>9, <1>17 DEF Nil, Cleared
      <4> QED
        BY <3>1, <4>1, <4>2, <1>5, <1>6
    <3>2. CASE s # r
      <4>1. req'[s] = req[s] /\ Drafting(s)
        BY <2>3, <3>2, <1>6 DEF Drafting
      <4>2. req[s].token \in Nat /\ \A k \in Kinds : req[s].copy.tok[k] \in Nat
        BY <1>1, CopyType DEF Nil, Cleared, Tokens
      <4>3. req[s].token <= issued /\ \A k \in Kinds : req[s].copy.tok[k] <= issued
        BY <4>1, <1>1 DEF TokensIssued
      <4> QED
        BY <4>1, <4>2, <4>3, <1>9
    <3> QED
      BY <3>1, <3>2
  <2> QED
    BY <2>1, <2>2, <2>3 DEF TokensIssued
<1>19. TokensUnused'
  BY <1>1, <1>2, <1>8 DEF TokensUnused
<1>20. TokensDrafted'
  <2> SUFFICES ASSUME ~contended', NEW s \in Requests, Drafting(s)'
               PROVE  /\ req'[s].op \in Linking =>
                             /\ req'[s].token \in Tokens /\ redeemed[req'[s].token] = 0
                             /\ \A k \in Kinds : row.tok[k] # req'[s].token
                             /\ req'[s].copy.tok[req'[s].kind] = req'[s].token
                      /\ req'[s].op \in Redeeming =>
                             /\ req'[s].token \in Tokens /\ row.tok[req'[s].kind] = req'[s].token
                             /\ req'[s].copy.tok[req'[s].kind] = Cleared
                      /\ \A k \in Kinds : k # req'[s].kind \/ req'[s].op \notin Linking \cup Redeeming =>
                             req'[s].copy.tok[k] \in {Nil, row.tok[k]}
    BY <1>2 DEF TokensDrafted
  <2>1. s = r
    BY <1>6, <1>8 DEF Drafting
  <2>2. op \in Linking =>
            /\ token \in Tokens /\ redeemed[token] = 0
            /\ \A k \in Kinds : row.tok[k] # token
            /\ c.tok[kind] = token
    <3> SUFFICES ASSUME op \in Linking
                 PROVE  /\ token \in Tokens /\ redeemed[token] = 0
                        /\ \A k \in Kinds : row.tok[k] # token
                        /\ c.tok[kind] = token
      OBVIOUS
    <3>1. token = issued + 1 /\ issued' = issued + 1 /\ c.tok[kind] = token
      BY DEF DraftedTokens
    <3>2. token \in Tokens /\ token > issued
      BY <3>1, <1>9 DEF Tokens
    <3>3. redeemed[token] = 0
      BY <3>2, <1>1 DEF TokensIssued
    <3>4. \A k \in Kinds : row.tok[k] # token
      BY <3>1, <1>9, <1>17
    <3> QED
      BY <3>1, <3>2, <3>3, <3>4
  <2>3. /\ op \in Redeeming => token \in Tokens /\ row.tok[kind] = token /\ c.tok[kind] = Cleared
        /\ \A k \in Kinds : k # kind \/ op \notin Linking \cup Redeeming => c.tok[k] \in {Nil, row.tok[k]}
    BY DEF DraftedTokens
  <2> QED
    BY <2>1, <2>2, <2>3, <1>5, <1>6
<1>21. NewestActive'
  <2> SUFFICES ASSUME ~contended'
               PROVE  /\ LastActive(row.ids)
                      /\ row.ids # <<>> => row.tok["register"] = Cleared
                      /\ \A s \in Requests : Drafting(s)' /\ req'[s].op # "invite" =>
                             /\ req'[s].had = Len(row.ids)
                             /\ LastActive(req'[s].copy.ids)
                             /\ req'[s].copy.ids # <<>> => req'[s].copy.tok["register"] = Cleared
    BY <1>2 DEF NewestActive, LastActive, IsActive
  <2>1. LastActive(row.ids) /\ (row.ids # <<>> => row.tok["register"] = Cleared)
    BY <1>1, <1>8 DEF NewestActive
  <2>2. ASSUME NEW s \in Requests, Drafting(s)', req'[s].op # "invite"
        PROVE  /\ req'[s].had = Len(row.ids)
               /\ LastActive(req'[s].copy.ids)
               /\ req'[s].copy.ids # <<>> => req'[s].copy.tok["register"] = Cleared
    <3>1. s = r
      BY <2>2, <1>6, <1>8 DEF Drafting
    <3> QED
      BY <2>2, <3>1, <1>5, <1>6, <1>8, <1>12 DEF DraftedIds
  <2> QED
    BY <2>1, <2>2
<1>22. Mailed'
  <2>1. op \in Linking => token \in Tokens
    BY <1>9 DEF DraftedTokens, Tokens
  <2>2. step \in {"mail", "mailFirst"} => op \in Linking
    BY <1>3 DEF Drafted
  <2> QED
    BY <2>1, <2>2, <1>1, <1>5, <1>6 DEF Mailed
<1> QED
  BY <1>10, <1>11, <1>13, <1>14, <1>15, <1>16, <1>18, <1>19, <1>20, <1>21, <1>22 DEF IndInv

\* Steps that leave the row, and only take requests on or end them.
Continues(s) ==
    \/ req'[s] = req[s]
    \/ req'[s] = Idle
    \/ Drafting(s) /\ req'[s] = [req[s] EXCEPT !.step = "save"]

\* Such steps preserve the invariant.
LEMMA OthersPreserve ==
    ASSUME IndInv, TypeOK',
           UNCHANGED <<row, issued, history>>,
           session' => session \/ row.ids # <<>>,
           \A s \in Requests : Continues(s)
    PROVE  IndInv'
<1>1. /\ TypeOK /\ Registered /\ CopyLengths /\ CopiesActive /\ CountersReached /\ Mailed /\ OneAtATime
      /\ TokensIssued /\ TokensUnused /\ TokensDrafted /\ NewestActive
  BY DEF IndInv
<1>2. /\ row' = row /\ issued' = issued /\ contended' = contended
      /\ failures' = failures /\ unreset' = unreset /\ adminLock' = adminLock /\ redeemed' = redeemed
  BY DEF history
<1>3. ASSUME NEW s \in Requests, Drafting(s)'
      PROVE  /\ Drafting(s)
             /\ req'[s].op = req[s].op /\ req'[s].kind = req[s].kind /\ req'[s].copy = req[s].copy
             /\ req'[s].had = req[s].had /\ req'[s].token = req[s].token
  <2>1. req[s] \in Request
    BY <1>1 DEF TypeOK
  <2>2. req'[s] # Idle
    BY <1>3 DEF Drafting, Idle
  <2>3. CASE req'[s] = req[s]
    BY <1>3, <2>3 DEF Drafting
  <2>4. CASE Drafting(s) /\ req'[s] = [req[s] EXCEPT !.step = "save"]
    BY <2>1, <2>4 DEF Request
  <2> QED
    BY <2>2, <2>3, <2>4 DEF Continues
<1>4. \A s \in Requests : InFlight(s)' => InFlight(s)
  <2> TAKE s \in Requests
  <2>1. CASE req'[s] = Idle
    BY <2>1 DEF InFlight, Idle
  <2>2. CASE req'[s] # Idle
    BY <2>2 DEF Continues, InFlight, Drafting
  <2> QED
    BY <2>1, <2>2
<1>5. ASSUME NEW s \in Requests, req'[s].op = "login" \/ req'[s].step = "session"
      PROVE  row.ids # <<>>
  <2>1. req[s] \in Request
    BY <1>1 DEF TypeOK
  <2>2. req'[s] # Idle
    BY <1>5 DEF Idle
  <2>3. req[s].op = "login" \/ req[s].step = "session"
    BY <2>1, <2>2, <1>5 DEF Continues, Request
  <2> QED
    BY <2>3, <1>1 DEF Registered
<1>6. Registered'
  BY <1>1, <1>2, <1>3, <1>5 DEF Registered
<1>7. CopyLengths'
  BY <1>1, <1>2, <1>3 DEF CopyLengths
<1>8. CopiesActive'
  <2>1. \A s \in Requests : Drafting(s)' /\ req'[s].op # "invite" =>
            IF req'[s].had = 0
            THEN req'[s].copy.ids # <<>> => IsActive(req'[s].copy.ids[1])
            ELSE SomeActive(req'[s].copy.ids, req'[s].had)
    BY <1>1, <1>3 DEF CopiesActive
  <2>2. row'.ids # <<>> => SomeActive(row'.ids, Len(row'.ids))
    BY <1>1, <1>2 DEF CopiesActive
  <2> QED
    BY <2>1, <2>2 DEF CopiesActive, SomeActive, IsActive
<1>9. CountersReached'
  <2>1. Counted' = Counted
    BY <1>2 DEF Counted
  <2> QED
    BY <2>1, <1>1, <1>2, <1>3 DEF CountersReached
<1>10. OneAtATime'
  BY <1>1, <1>2, <1>4 DEF OneAtATime
<1>11. TokensIssued'
  BY <1>1, <1>2, <1>3 DEF TokensIssued
<1>12. TokensUnused'
  BY <1>1, <1>2 DEF TokensUnused
<1>13. TokensDrafted'
  BY <1>1, <1>2, <1>3 DEF TokensDrafted
<1>14. NewestActive'
  <2>1. ~contended' => \A s \in Requests : Drafting(s)' /\ req'[s].op # "invite" =>
            /\ req'[s].had = Len(row'.ids)
            /\ LastActive(req'[s].copy.ids)
            /\ req'[s].copy.ids # <<>> => req'[s].copy.tok["register"] = Cleared
    BY <1>1, <1>2, <1>3 DEF NewestActive
  <2>2. ~contended' => LastActive(row'.ids) /\ (row'.ids # <<>> => row'.tok["register"] = Cleared)
    BY <1>1, <1>2 DEF NewestActive
  <2> QED
    BY <2>1, <2>2 DEF NewestActive, LastActive, IsActive
<1>15. Mailed'
  <2> SUFFICES ASSUME NEW s \in Requests
               PROVE  /\ req'[s].step \in {"mail", "mailFirst"} => req'[s].op \in Linking
                      /\ req'[s].op \in Linking => req'[s].token \in Tokens
    BY DEF Mailed
  <2>1. req[s] \in Request
    BY <1>1 DEF TypeOK
  <2>2. CASE req'[s] = Idle
    BY <2>2 DEF Idle, Linking
  <2>3. CASE req'[s] = req[s]
    BY <2>3, <1>1 DEF Mailed
  <2>4. CASE req'[s] = [req[s] EXCEPT !.step = "save"]
    BY <2>1, <2>4, <1>1 DEF Mailed, Request
  <2> QED
    BY <2>2, <2>3, <2>4 DEF Continues
<1> QED
  BY <1>6, <1>7, <1>8, <1>9, <1>10, <1>11, <1>12, <1>13, <1>14, <1>15 DEF IndInv

\* A user who does not exist yet is a user.
LEMMA NewUserType == NewUser \in User
<1>1. [k \in Kinds |-> Nil] \in [Kinds -> {Nil, Cleared} \cup Tokens]
  OBVIOUS
<1>2. 0 \in 0..LoginAttemptsToLockUser
  BY ConstantsAssumption
<1>3. <<>> \in Seq(Identity)
  OBVIOUS
<1> QED
  BY <1>1, <1>2, <1>3 DEF NewUser, User

\* What follows a save is no draft.
LEMMA AfterSave ==
    ASSUME NEW q \in Request
    PROVE  /\ After(q) \in Request
           /\ After(q).step \in {"idle", "mail", "session"}
           /\ After(q).op = "login" \/ After(q).step = "session" => q.op = "login"
           /\ After(q).step = "mail" => After(q).op \in Linking
           /\ After(q).op \in Linking => q.op \in Linking /\ After(q).token = q.token
<1>1. CASE q.op = "link"
  <2>1. NewUser \in User
    BY NewUserType
  <2>2. After(q) = [q EXCEPT !.step = "mail", !.copy = NewUser]
    BY <1>1 DEF After
  <2> QED
    BY <1>1, <2>1, <2>2 DEF Request, Linking
<1>2. Idle \in Request
  BY NewUserType DEF Idle, Request, Kinds
<1>3. CASE q.op = "login"
  <2>1. After(q) = [Idle EXCEPT !.op = "login", !.step = "session"]
    BY <1>3 DEF After
  <2> QED
    BY <1>2, <1>3, <2>1 DEF Request, Linking
<1>4. CASE q.op \notin {"link", "login"}
  <2>1. After(q) = Idle
    BY <1>4 DEF After
  <2> QED
    BY <1>2, <2>1 DEF Idle, Linking
<1> QED
  BY <1>1, <1>3, <1>4

\* A counter that is reached stays so.
LEMMA StillBelow ==
    ASSUME NEW f \in Nat, NEW a \in Nat, NEW b \in Nat, a <= b
    PROVE  (f <= a + 1 => f <= b + 1) /\ (f <= a => f <= b)
  OBVIOUS

\* The save of a copy: what each conjunct needs of the copy was drafted.
LEMMA SavePreserves ==
    ASSUME IndInv, NEW r \in Requests, Save(r)
    PROVE  IndInv'
<1> DEFINE c == req[r].copy
           n == req[r].had
           ids == row.ids
<1>1. /\ TypeOK /\ Registered /\ CopyLengths /\ CopiesActive /\ CountersReached /\ Mailed /\ OneAtATime
      /\ TokensIssued /\ TokensUnused /\ TokensDrafted /\ NewestActive
  BY DEF IndInv
<1>2. /\ req[r].step = "save" /\ req[r].op # "invite"
      /\ row' = UpdateUser(row, c, n)
      /\ req' = [req EXCEPT ![r] = After(req[r])]
      /\ issued' = issued /\ expired' = expired /\ known' = known /\ session' = session
      /\ contended' = contended
  BY DEF Save
<1>3. Drafting(r) /\ InFlight(r)
  BY <1>2 DEF Drafting, InFlight
<1>4. /\ ids \in Seq(Identity) /\ c.ids \in Seq(Identity) /\ n \in Nat
      /\ n <= Len(ids) /\ n <= Len(c.ids) /\ req[r] \in Request /\ c \in User
  BY <1>1, <1>2, <1>3, RowType, CopyType DEF CopyLengths
<1>5. row'.ids = Merged(ids, c.ids, n)
  BY <1>2 DEF UpdateUser, SavedIdentities, Merged
<1>6. /\ row'.exists = TRUE
      /\ \A k \in Kinds : row'.tok[k] = IF c.tok[k] = Nil THEN row.tok[k] ELSE c.tok[k]
      /\ row'.failed = IF c.failed = 0 THEN row.failed ELSE c.failed
  BY <1>2 DEF UpdateUser
<1>7. /\ req'[r] = After(req[r])
      /\ \A s \in Requests : s # r => req'[s] = req[s]
      /\ req' \in [Requests -> Request]
  BY <1>1, <1>2, <1>4, AfterSave DEF TypeOK
<1>8. /\ ~Drafting(r)'
      /\ req'[r].op = "login" \/ req'[r].step = "session" => req[r].op = "login"
  BY <1>4, <1>7, AfterSave DEF Drafting
<1>9. \A s \in Requests : Drafting(s)' => s # r /\ Drafting(s) /\ req'[s] = req[s]
  BY <1>7, <1>8 DEF Drafting
<1>10. \A s \in Requests : Drafting(s) => InFlight(s)
  BY DEF Drafting, InFlight
<1>11. ~contended' => ~contended /\ \A s \in Requests : ~Drafting(s)'
  BY <1>1, <1>2, <1>3, <1>9, <1>10 DEF OneAtATime
<1> HIDE DEF c, n, ids
<1>12. /\ row'.ids \in Seq(Identity)
       /\ Len(row'.ids) = Len(ids) + Len(c.ids) - n
       /\ \A i \in 1..(Len(ids) + Len(c.ids) - n) :
              row'.ids[i] = IF i <= n THEN c.ids[i]
                            ELSE IF i <= Len(ids) THEN ids[i] ELSE c.ids[i - Len(ids) + n]
  <2> DEFINE t == c.ids
  <2>1. t \in Seq(Identity) /\ n <= Len(t)
    BY <1>4
  <2> HIDE DEF t
  <2>2. /\ Merged(ids, t, n) \in Seq(Identity)
        /\ Len(Merged(ids, t, n)) = Len(ids) + Len(t) - n
        /\ \A i \in 1..(Len(ids) + Len(t) - n) :
               Merged(ids, t, n)[i] = IF i <= n THEN t[i]
                                      ELSE IF i <= Len(ids) THEN ids[i] ELSE t[i - Len(ids) + n]
    BY <1>4, <2>1, MergedIds
  <2> QED
    BY <1>5, <2>2 DEF t
<1>13. /\ Len(ids) \in Nat /\ Len(c.ids) \in Nat /\ Len(row'.ids) \in Nat
       /\ Len(ids) <= Len(row'.ids) /\ Len(c.ids) <= Len(row'.ids)
  <2> DEFINE a == Len(ids)
             b == Len(c.ids)
             d == Len(row'.ids)
  <2>1. a \in Nat /\ b \in Nat /\ d = a + b - n /\ n \in Nat /\ n <= a /\ n <= b
    BY <1>4, <1>12
  <2> HIDE DEF a, b, d
  <2>2. d \in Nat /\ a <= d /\ b <= d
    BY <2>1
  <2> QED
    BY <2>1, <2>2 DEF a, b, d
<1>14. ids # <<>> \/ c.ids # <<>> => row'.ids # <<>>
  <2>1. ids # <<>> => Len(ids) # 0
    BY <1>4, EmptySeq
  <2>2. c.ids # <<>> => Len(c.ids) # 0
    BY <1>4, EmptySeq
  <2>3. row'.ids = <<>> => Len(row'.ids) = 0
    OBVIOUS
  <2> QED
    BY <2>1, <2>2, <2>3, <1>13
<1>15. \A k \in Kinds : /\ c.tok[k] \in {Nil, Cleared} \cup Tokens
                        /\ row.tok[k] \in {Nil, Cleared} \cup Tokens
  BY <1>1, RowType, CopyType DEF c
<1>16. c.failed \in 0..LoginAttemptsToLockUser /\ row.failed \in 0..LoginAttemptsToLockUser
  BY <1>1, RowType, CopyType DEF c
<1>17. row' \in User
  <2> DEFINE tok == [k \in Kinds |-> IF c.tok[k] = Nil THEN row.tok[k] ELSE c.tok[k]]
             early == IF c.tok["identity"] = Nil THEN row.early ELSE c.early
             failed == IF c.failed = 0 THEN row.failed ELSE c.failed
             saved == SavedIdentities(row, c, n)
  <2>1. tok \in [Kinds -> {Nil, Cleared} \cup Tokens]
    BY <1>15
  <2>2. early \in BOOLEAN
    <3>1. row.early \in BOOLEAN
      BY <1>1 DEF TypeOK, User
    <3>2. c.early \in BOOLEAN
      BY <1>4 DEF User, c
    <3> QED
      BY <3>1, <3>2
  <2>3. failed \in 0..LoginAttemptsToLockUser
    BY <1>16
  <2>4. row' = [exists |-> TRUE, tok |-> tok, early |-> early, failed |-> failed, ids |-> saved]
    BY <1>2 DEF UpdateUser, c, n
  <2> HIDE DEF tok, early, failed, saved
  <2>5. saved \in Seq(Identity)
    BY <2>4, <1>12
  <2> QED
    BY <2>1, <2>2, <2>3, <2>4, <2>5 DEF User
<1>18. /\ failures' = IF Resets(req[r]) THEN 0
                      ELSE IF req[r].op = "fail" /\ failures < LoginAttemptsToLockUser
                           THEN failures + 1 ELSE failures
       /\ unreset' = (unreset \/ (Resets(req[r]) /\ row'.failed # 0))
       /\ Resets(req[r]) => req[r].op # "fail"
       /\ adminLock' = (adminLock \/ req[r].op = "lock")
       /\ redeemed' = IF req[r].op \in Redeeming /\ redeemed[req[r].token] < 2
                      THEN [redeemed EXCEPT ![req[r].token] = @ + 1] ELSE redeemed
  BY DEF Save, Record, Resets, Redeeming
<1>19. /\ failures \in 0..LoginAttemptsToLockUser /\ adminLock \in BOOLEAN /\ unreset \in BOOLEAN
       /\ redeemed \in [Tokens -> 0..2] /\ LoginAttemptsToLockUser \in Nat /\ issued \in Nat /\ 1 <= issued
  BY <1>1, ConstantsAssumption DEF TypeOK
<1>20. /\ redeemed' \in [Tokens -> 0..2]
       /\ \A t \in Tokens : t # req[r].token \/ req[r].op \notin Redeeming => redeemed'[t] = redeemed[t]
       /\ \A t \in Tokens : redeemed[t] = 0 => redeemed'[t] <= 1
  <2>1. CASE req[r].op \in Redeeming /\ redeemed[req[r].token] < 2 /\ req[r].token \in Tokens
    <3>1. redeemed' = [redeemed EXCEPT ![req[r].token] = @ + 1]
      BY <2>1, <1>18
    <3>2. redeemed[req[r].token] \in 0..2 /\ redeemed[req[r].token] + 1 \in 0..2
      BY <2>1, <1>19
    <3> QED
      BY <2>1, <3>1, <3>2, <1>19
  <2>2. CASE ~(req[r].op \in Redeeming /\ redeemed[req[r].token] < 2 /\ req[r].token \in Tokens)
    <3>1. redeemed' = redeemed
      <4>1. CASE ~(req[r].op \in Redeeming /\ redeemed[req[r].token] < 2)
        BY <4>1, <1>18
      <4>2. CASE req[r].token \notin Tokens
        <5>1. [redeemed EXCEPT ![req[r].token] = @ + 1] = redeemed
          BY <4>2, <1>19
        <5> QED
          BY <5>1, <1>18
      <4> QED
        BY <4>1, <4>2, <2>2
    <3> QED
      BY <3>1, <1>19
  <2> QED
    BY <2>1, <2>2
<1>21. TypeOK'
  <2>1. failures' \in 0..LoginAttemptsToLockUser
    BY <1>18, <1>19
  <2>2. adminLock' \in BOOLEAN /\ unreset' \in BOOLEAN
    BY <1>18, <1>19
  <2> QED
    BY <2>1, <2>2, <1>1, <1>2, <1>7, <1>17, <1>20 DEF TypeOK
<1>22. Registered'
  <2>1. row.exists
    BY <1>1, <1>2, <1>3 DEF Registered
  <2>2. row'.tok["register"] = IF c.tok["register"] = Nil THEN row.tok["register"] ELSE c.tok["register"]
    BY <1>6 DEF Kinds
  <2>3. row'.tok["register"] # Nil
    BY <2>1, <2>2, <1>1 DEF Registered
  <2>4. row'.tok["register"] = Cleared => row'.ids # <<>>
    <3>1. row.tok["register"] = Cleared => ids # <<>>
      BY <1>1 DEF Registered, ids
    <3>2. c.tok["register"] = Cleared => c.ids # <<>>
      BY <1>1, <1>2, <1>3 DEF CopyLengths, c
    <3> QED
      BY <2>2, <3>1, <3>2, <1>14
  <2>5. session' => row'.ids # <<>>
    BY <1>1, <1>2, <1>14 DEF Registered, ids
  <2>6. ASSUME NEW s \in Requests, req'[s].op = "login" \/ req'[s].step = "session"
        PROVE  row'.ids # <<>>
    <3>1. req[s].op = "login" \/ req[s].step = "session"
      BY <2>6, <1>7, <1>8
    <3> QED
      BY <3>1, <1>1, <1>14 DEF Registered, ids
  <2> QED
    BY <2>3, <2>4, <2>5, <2>6, <1>6 DEF Registered
<1>23. CopyLengths'
  <2> SUFFICES ASSUME NEW s \in Requests, Drafting(s)'
               PROVE  IF req[s].op = "invite"
                      THEN req[s].copy.ids = <<>> /\ req[s].copy.tok["register"] \in Tokens
                      ELSE /\ req[s].had <= Len(row'.ids)
                           /\ req[s].had <= Len(req[s].copy.ids)
                           /\ req[s].copy.tok["register"] = Cleared => req[s].copy.ids # <<>>
    BY <1>9 DEF CopyLengths
  <2>1. Drafting(s)
    BY <1>9
  <2>2. CASE req[s].op = "invite"
    BY <2>1, <2>2, <1>1 DEF CopyLengths
  <2>3. CASE req[s].op # "invite"
    <3>1. /\ req[s].had <= Len(ids)
          /\ req[s].had <= Len(req[s].copy.ids)
          /\ req[s].copy.tok["register"] = Cleared => req[s].copy.ids # <<>>
      BY <2>1, <2>3, <1>1 DEF CopyLengths, ids
    <3> DEFINE a == Len(ids)
               d == Len(row'.ids)
               h == req[s].had
    <3>2. h <= a /\ a <= d /\ a \in Nat /\ d \in Nat /\ h \in Nat
      BY <3>1, <1>1, <1>13, CopyType
    <3> HIDE DEF a, d, h
    <3>3. h <= d
      BY <3>2
    <3> QED
      BY <2>3, <3>1, <3>3 DEF h, d
  <2> QED
    BY <2>2, <2>3
<1>24. CopiesActive'
  <2>1. ASSUME NEW s \in Requests, Drafting(s)', req'[s].op # "invite"
        PROVE  IF req'[s].had = 0
               THEN req'[s].copy.ids # <<>> => IsActive(req'[s].copy.ids[1])
               ELSE SomeActive(req'[s].copy.ids, req'[s].had)
    BY <2>1, <1>1, <1>9 DEF CopiesActive
  <2>2. ASSUME row'.ids # <<>> PROVE SomeActive(row'.ids, Len(row'.ids))
    <3> DEFINE a == Len(ids)
               b == Len(c.ids)
               new == row'.ids
    <3>1. /\ a \in Nat /\ b \in Nat /\ n \in Nat /\ n <= a /\ n <= b /\ Len(new) = a + b - n
          /\ \A i \in 1..(a + b - n) :
                 new[i] = IF i <= n THEN c.ids[i] ELSE IF i <= a THEN ids[i] ELSE c.ids[i - a + n]
      BY <1>4, <1>12, <1>13
    <3>2. /\ n = 0 => (c.ids # <<>> => IsActive(c.ids[1]))
          /\ n # 0 => SomeActive(c.ids, n)
          /\ ids # <<>> => SomeActive(ids, a)
      BY <1>1, <1>2, <1>3 DEF CopiesActive, c, n, ids
    <3>3. (ids = <<>> <=> a = 0) /\ (c.ids = <<>> <=> b = 0) /\ (new = <<>> => Len(new) = 0)
      BY <1>4, EmptySeq
    <3>4. new # <<>>
      BY <2>2
    <3>5. a + b - n # 0
      <4>1. new \in Seq(Identity)
        BY <1>12
      <4> QED
        BY <4>1, <3>1, <3>4, EmptySeq
    <3> HIDE DEF a, b, new
    <3>6. CASE n # 0
      <4>1. PICK i \in 1..n : IsActive(c.ids[i])
        BY <3>2, <3>6 DEF SomeActive
      <4>2. i \in 1..(a + b - n) /\ i <= n
        BY <4>1, <3>1
      <4> QED
        BY <4>1, <4>2, <3>1 DEF SomeActive, new
    <3>7. CASE n = 0 /\ a # 0
      <4>1. PICK i \in 1..a : IsActive(ids[i])
        BY <3>2, <3>3, <3>7 DEF SomeActive
      <4>2. i \in 1..(a + b - n) /\ ~(i <= n) /\ i <= a
        BY <4>1, <3>1, <3>7
      <4> QED
        BY <4>1, <4>2, <3>1 DEF SomeActive, new
    <3>8. CASE n = 0 /\ a = 0
      <4>1. b # 0 /\ IsActive(c.ids[1])
        BY <3>1, <3>2, <3>3, <3>5, <3>8
      <4>2. 1 \in 1..(a + b - n) /\ ~(1 <= n) /\ ~(1 <= a) /\ 1 - a + n = 1
        BY <4>1, <3>1, <3>8
      <4>3. new[1] = c.ids[1]
        BY <4>2, <3>1
      <4> QED
        BY <4>1, <4>2, <4>3, <3>1 DEF SomeActive, new
    <3> QED
      BY <3>6, <3>7, <3>8
  <2> QED
    BY <2>1, <2>2 DEF CopiesActive, SomeActive, IsActive
<1>25. CountersReached'
  <2> SUFFICES ASSUME ~adminLock, ~unreset', req[r].op # "lock"
               PROVE  /\ row'.failed <= Counted'
                      /\ \A s \in Requests : Drafting(s)' =>
                             \/ req'[s].op = "lock"
                             \/ req'[s].op = "fail" /\ req'[s].copy.failed <= Counted' + 1
                             \/ req'[s].copy.failed <= Counted'
    BY <1>18, <1>19 DEF CountersReached
  <2>0. /\ row.failed <= Counted
        /\ \A s \in Requests : Drafting(s) =>
               \/ req[s].op = "lock"
               \/ req[s].op = "fail" /\ req[s].copy.failed <= Counted + 1
               \/ req[s].copy.failed <= Counted
    BY <1>1, <1>18 DEF CountersReached
  <2>1. /\ row.failed <= Counted /\ Counted <= Counted' /\ Counted' \in Nat /\ Counted \in Nat
        /\ row'.failed = 0 => row.failed = 0
        /\ row'.failed # 0 => Counted' = failures'
        /\ row'.failed # 0 /\ req[r].op = "fail" /\ Counted < LoginAttemptsToLockUser => Counted + 1 <= Counted'
    <3>1. row'.failed = 0 => row.failed = 0
      BY <1>6
    <3>2. row'.failed # 0 => ~Resets(req[r])
      BY <1>18
    <3>3. row'.failed # 0 => failures <= failures'
      BY <3>2, <1>18, <1>19
    <3>4. row'.failed # 0 /\ req[r].op = "fail" /\ failures < LoginAttemptsToLockUser => failures + 1 <= failures'
      BY <3>2, <1>18, <1>19
    <3>5. failures \in Nat /\ failures' \in Nat /\ failures <= LoginAttemptsToLockUser
      BY <1>18, <1>19
    <3>6. /\ Counted = IF row.failed = 0 THEN 0 ELSE failures
          /\ Counted' = IF row'.failed = 0 THEN 0 ELSE failures'
      BY DEF Counted
    <3>7. row'.failed # 0 /\ req[r].op = "fail" => 1 <= failures'
      BY <3>2, <1>18, <1>19, ConstantsAssumption
    <3> QED
      BY <2>0, <3>1, <3>3, <3>4, <3>5, <3>6, <3>7
  <2>2. row'.failed <= Counted'
    <3> DEFINE f == c.failed
               g == row.failed
    <3>1. row'.failed = IF f = 0 THEN g ELSE f
      BY <1>6
    <3>2. /\ f \in 0..LoginAttemptsToLockUser /\ g \in 0..LoginAttemptsToLockUser /\ g <= Counted
          /\ (req[r].op = "fail" /\ f <= Counted + 1) \/ f <= Counted
      BY <2>0, <1>3, <1>16 DEF c
    <3> HIDE DEF f, g
    <3>3. row'.failed # 0 => f <= Counted' /\ g <= Counted'
      BY <3>2, <2>1, <1>19
    <3> QED
      BY <3>1, <3>3, <2>1
  <2>3. ASSUME NEW s \in Requests, Drafting(s)'
        PROVE  \/ req'[s].op = "lock"
               \/ req'[s].op = "fail" /\ req'[s].copy.failed <= Counted' + 1
               \/ req'[s].copy.failed <= Counted'
    <3>1. /\ req'[s] = req[s]
          /\ \/ req[s].op = "lock"
             \/ req[s].op = "fail" /\ req[s].copy.failed <= Counted + 1
             \/ req[s].copy.failed <= Counted
      BY <2>0, <2>3, <1>9
    <3> DEFINE f == req[s].copy.failed
    <3>2. f \in Nat
      BY <1>1, <1>19, CopyType
    <3> HIDE DEF f
    <3>3. (f <= Counted + 1 => f <= Counted' + 1) /\ (f <= Counted => f <= Counted')
      <4>1. Counted <= Counted' /\ Counted' \in Nat /\ Counted \in Nat
        BY <2>1
      <4> QED
        BY <3>2, <4>1, StillBelow
    <3> QED
      BY <3>1, <3>3 DEF f
  <2> QED
    BY <2>2, <2>3
<1>26. OneAtATime'
  <2>1. \A s \in Requests : InFlight(s)' => InFlight(s)
    BY <1>3, <1>7 DEF InFlight
  <2> QED
    BY <2>1, <1>1, <1>2 DEF OneAtATime
<1>27. TokensIssued'
  <2>1. \A k \in Kinds : row'.tok[k] <= issued
    BY <1>1, <1>3, <1>6 DEF TokensIssued, c
  <2>2. ASSUME NEW t \in Tokens, t > issued
        PROVE  redeemed'[t] = 0
    <3>1. redeemed[t] = 0
      BY <2>2, <1>1 DEF TokensIssued
    <3>2. t # req[r].token
      <4>1. req[r].token <= issued /\ req[r].token \in Nat /\ t \in Nat
        BY <1>1, <1>3, CopyType DEF TokensIssued, Nil, Tokens
      <4> QED
        BY <4>1, <2>2, <1>19
    <3> QED
      BY <3>1, <3>2, <1>20
  <2>3. ASSUME NEW s \in Requests, Drafting(s)'
        PROVE  req'[s].token <= issued /\ \A k \in Kinds : req'[s].copy.tok[k] <= issued
    BY <2>3, <1>1, <1>9 DEF TokensIssued
  <2> QED
    BY <2>1, <2>2, <2>3, <1>2 DEF TokensIssued
<1>28. TokensDrafted'
  BY <1>11 DEF TokensDrafted
<1>29. TokensUnused'
  <2> SUFFICES ASSUME ~contended
               PROVE  /\ \A k, l \in Kinds : row'.tok[k] = row'.tok[l] /\ row'.tok[k] \in Tokens => k = l
                      /\ \A t \in Tokens : /\ redeemed'[t] <= 1
                                           /\ redeemed'[t] = 1 => \A k \in Kinds : row'.tok[k] # t
    BY <1>2 DEF TokensUnused
  <2> DEFINE op == req[r].op
             token == req[r].token
             kind == req[r].kind
  <2>1. /\ op \in Linking =>
               /\ token \in Tokens /\ redeemed[token] = 0
               /\ \A k \in Kinds : row.tok[k] # token
               /\ c.tok[kind] = token
        /\ op \in Redeeming =>
               /\ token \in Tokens /\ row.tok[kind] = token
               /\ c.tok[kind] = Cleared
        /\ \A k \in Kinds : k # kind \/ op \notin Linking \cup Redeeming => c.tok[k] \in {Nil, row.tok[k]}
    BY <1>1, <1>3 DEF TokensDrafted, c
  <2>2. /\ \A k, l \in Kinds : row.tok[k] = row.tok[l] /\ row.tok[k] \in Tokens => k = l
        /\ \A t \in Tokens : redeemed[t] <= 1 /\ (redeemed[t] = 1 => \A k \in Kinds : row.tok[k] # t)
    BY <1>1 DEF TokensUnused
  <2>3. Nil \notin Tokens /\ Cleared \notin Tokens /\ Nil # Cleared /\ kind \in Kinds
    BY <1>1, CopyType DEF Nil, Cleared, Tokens
  <2> HIDE DEF op, token, kind
  <2>4. \A k \in Kinds : k # kind \/ op \notin Linking \cup Redeeming => row'.tok[k] = row.tok[k]
    BY <2>1, <1>6
  <2>5. CASE op \notin Linking \cup Redeeming
    <3>1. \A t \in Tokens : redeemed'[t] = redeemed[t]
      BY <2>5, <1>20 DEF op
    <3> QED
      BY <2>2, <2>4, <2>5, <3>1
  <2>6. CASE op \in Linking
    <3>1. row'.tok[kind] = token
      BY <2>1, <2>3, <2>6, <1>6
    <3>2. op \notin Redeeming
      BY <2>6 DEF Linking, Redeeming
    <3>3. \A t \in Tokens : redeemed'[t] = redeemed[t]
      BY <3>2, <1>20 DEF op
    <3>4. \A k, l \in Kinds : row'.tok[k] = row'.tok[l] /\ row'.tok[k] \in Tokens => k = l
      BY <2>1, <2>2, <2>4, <2>6, <3>1
    <3>5. ASSUME NEW t \in Tokens, redeemed[t] = 1, NEW k \in Kinds
          PROVE  row'.tok[k] # t
      <4>1. token # t
        BY <3>5, <2>1, <2>6
      <4> QED
        BY <4>1, <3>1, <3>5, <2>2, <2>4
    <3> QED
      BY <2>2, <3>3, <3>4, <3>5
  <2>7. CASE op \in Redeeming
    <3>1. row'.tok[kind] = Cleared
      BY <2>1, <2>3, <2>7, <1>6
    <3>2. redeemed[token] = 0
      <4>1. redeemed[token] \in 0..2 /\ redeemed[token] <= 1 /\ redeemed[token] # 1
        BY <2>1, <2>2, <2>3, <2>7, <1>19
      <4> QED
        BY <4>1
    <3>3. \A k, l \in Kinds : row'.tok[k] = row'.tok[l] /\ row'.tok[k] \in Tokens => k = l
      BY <2>2, <2>3, <2>4, <3>1
    <3>4. ASSUME NEW t \in Tokens
          PROVE  redeemed'[t] <= 1 /\ (redeemed'[t] = 1 => \A k \in Kinds : row'.tok[k] # t)
      <4>1. CASE t = token
        <5>1. redeemed'[t] <= 1
          BY <4>1, <3>2, <1>20
        <5>2. ASSUME NEW k \in Kinds PROVE row'.tok[k] # t
          BY <4>1, <2>1, <2>2, <2>3, <2>4, <2>7, <3>1
        <5> QED
          BY <5>1, <5>2
      <4>2. CASE t # token
        <5>1. redeemed'[t] = redeemed[t]
          BY <4>2, <1>20 DEF token
        <5> QED
          BY <5>1, <2>2, <2>3, <2>4, <3>1
      <4> QED
        BY <4>1, <4>2
    <3> QED
      BY <3>3, <3>4
  <2> QED
    BY <2>5, <2>6, <2>7
<1>30. NewestActive'
  <2> SUFFICES ASSUME ~contended
               PROVE  LastActive(row.ids)' /\ (row'.ids # <<>> => row'.tok["register"] = Cleared)
    BY <1>2, <1>11 DEF NewestActive
  <2>1. /\ n = Len(ids) /\ LastActive(c.ids)
        /\ c.ids # <<>> => c.tok["register"] = Cleared
    BY <1>1, <1>2, <1>3 DEF NewestActive, c, n, ids
  <2>2. Merged(ids, c.ids, n) = c.ids
    <3> DEFINE t == c.ids
    <3>1. t \in Seq(Identity) /\ n <= Len(t)
      BY <1>4
    <3> HIDE DEF t
    <3>2. Merged(ids, t, n) = t
      BY <1>4, <2>1, <3>1, MergedAll
    <3> QED
      BY <3>2 DEF t
  <2>3. row'.ids = c.ids
    BY <1>5, <2>2 DEF c, n, ids
  <2>4. row'.tok["register"] = IF c.tok["register"] = Nil THEN row.tok["register"] ELSE c.tok["register"]
    BY <1>6 DEF Kinds
  <2>5. Cleared # Nil
    BY DEF Cleared, Nil
  <2> QED
    BY <2>1, <2>3, <2>4, <2>5 DEF LastActive, IsActive
<1>31. Mailed'
  <2> SUFFICES ASSUME NEW s \in Requests
               PROVE  /\ req'[s].step \in {"mail", "mailFirst"} => req'[s].op \in Linking
                      /\ req'[s].op \in Linking => req'[s].token \in Tokens
    BY DEF Mailed
  <2>1. CASE s = r
    <3>1. After(req[r]).step \in {"mail", "mailFirst"} => After(req[r]).op \in Linking
      BY <1>4, AfterSave
    <3>2. After(req[r]).op \in Linking => After(req[r]).token \in Tokens
      BY <1>1, <1>4, AfterSave DEF Mailed
    <3> QED
      BY <2>1, <3>1, <3>2, <1>7
  <2>2. CASE s # r
    BY <2>2, <1>1, <1>7 DEF Mailed
  <2> QED
    BY <2>1, <2>2
<1> QED
  BY <1>21, <1>22, <1>23, <1>24, <1>25, <1>26, <1>27, <1>28, <1>29, <1>30, <1>31 DEF IndInv

\* The insertion of an invited user, and the invitation that comes too late.
LEMMA CreatePreserves ==
    ASSUME IndInv, NEW r \in Requests, CreateUser(r)
    PROVE  IndInv'
<1>1. /\ TypeOK /\ Registered /\ CopyLengths /\ CopiesActive /\ CountersReached /\ Mailed /\ OneAtATime
      /\ TokensIssued /\ TokensUnused /\ TokensDrafted /\ NewestActive
  BY DEF IndInv
<1>2. /\ req[r].step = "save" /\ req[r].op = "invite"
      /\ row' = IF row.exists THEN row ELSE [req[r].copy EXCEPT !.exists = TRUE]
      /\ req' = [req EXCEPT ![r] = Idle]
      /\ issued' = issued /\ expired' = expired /\ known' = known /\ session' = session
      /\ contended' = contended /\ failures' = failures /\ unreset' = unreset
      /\ adminLock' = adminLock /\ redeemed' = redeemed
  BY DEF CreateUser, history
<1>3. Idle \in Request
  BY NewUserType DEF Idle, Request, Kinds
<1>4. /\ req'[r] = Idle
      /\ \A s \in Requests : s # r => req'[s] = req[s]
      /\ req' \in [Requests -> Request]
  BY <1>1, <1>2, <1>3 DEF TypeOK
<1>5. ~Drafting(r)' /\ ~InFlight(r)' /\ Drafting(r) /\ InFlight(r)
  BY <1>2, <1>4 DEF Drafting, InFlight, Idle
<1>6. CASE row.exists
  <2>1. row' = row
    BY <1>2, <1>6
  <2>2. TypeOK'
    BY <2>1, <1>1, <1>2, <1>4 DEF TypeOK
  <2>3. \A s \in Requests : Continues(s)
    BY <1>4 DEF Continues
  <2> QED
    BY <2>1, <2>2, <2>3, <1>2, OthersPreserve DEF history
<1>7. CASE ~row.exists
  <2> DEFINE c == req[r].copy
  <2>1. c \in User
    BY <1>1, CopyType
  <2>2. /\ row'.exists = TRUE /\ row'.tok = c.tok /\ row'.failed = c.failed /\ row'.ids = c.ids
        /\ row' \in User
    BY <2>1, <1>2, <1>7 DEF User
  <2>3. row'.ids = <<>> /\ row.ids = <<>> /\ row'.tok["register"] \in Tokens
    BY <2>2, <1>1, <1>2, <1>5, <1>7 DEF CopyLengths, Registered
  <2>4. Len(row'.ids) = 0 /\ Nil \notin Tokens /\ Cleared \notin Tokens
    BY <2>3 DEF Nil, Cleared, Tokens
  <2> HIDE DEF c
  <2>5. \A s \in Requests : Drafting(s)' => s # r /\ Drafting(s) /\ req'[s] = req[s] /\ req[s].op = "invite"
    BY <1>1, <1>4, <1>5, <1>7 DEF Drafting, Registered
  <2>6. TypeOK'
    BY <2>2, <1>1, <1>2, <1>4 DEF TypeOK
  <2>7. Registered'
    <3>1. ~session
      BY <2>3, <1>1 DEF Registered
    <3>2. \A s \in Requests : ~(req'[s].op = "login" \/ req'[s].step = "session")
      BY <2>3, <1>1, <1>4 DEF Registered, Idle
    <3> QED
      BY <2>2, <2>3, <2>4, <2>5, <3>1, <3>2, <1>2 DEF Registered
  <2>8. CopyLengths'
    BY <2>5, <1>1 DEF CopyLengths
  <2>9. CopiesActive'
    BY <2>3, <2>5 DEF CopiesActive
  <2>10. CountersReached'
    <3>1. \A s \in Requests : Drafting(s)' =>
              \/ adminLock \/ unreset
              \/ req'[s].op = "lock"
              \/ req'[s].op = "fail" /\ req'[s].copy.failed <= Counted + 1
              \/ req'[s].copy.failed <= Counted
      BY <2>5, <1>1 DEF CountersReached
    <3>2. adminLock \/ unreset \/ c.failed <= Counted
      BY <1>1, <1>2, <1>5 DEF CountersReached, c
    <3>3. Counted = 0 /\ Counted' \in Nat
      BY <1>1, <1>2, <1>7 DEF Counted, Registered, TypeOK
    <3>4. ASSUME NEW s \in Requests, Drafting(s)', ~adminLock, ~unreset
          PROVE  \/ req'[s].op = "lock"
                 \/ req'[s].op = "fail" /\ req'[s].copy.failed <= Counted' + 1
                 \/ req'[s].copy.failed <= Counted'
      <4> DEFINE f == req[s].copy.failed
      <4>1. f \in Nat /\ req'[s] = req[s]
        BY <2>5, <3>4, <1>1, CopyType, ConstantsAssumption
      <4>2. \/ req[s].op = "lock" \/ (req[s].op = "fail" /\ f <= Counted + 1) \/ f <= Counted
        BY <3>1, <3>4, <4>1
      <4> HIDE DEF f
      <4>3. (f <= Counted + 1 => f <= Counted' + 1) /\ (f <= Counted => f <= Counted')
        BY <3>3, <4>1
      <4> QED
        BY <4>1, <4>2, <4>3 DEF f
    <3>5. adminLock \/ unreset \/ row'.failed <= Counted'
      BY <2>1, <2>2, <3>2, <3>3, ConstantsAssumption DEF User
    <3> QED
      BY <3>4, <3>5, <1>2 DEF CountersReached
  <2>11. OneAtATime'
    <3>1. \A s \in Requests : InFlight(s)' => InFlight(s)
      BY <1>4, <1>5 DEF InFlight
    <3> QED
      BY <3>1, <1>1, <1>2 DEF OneAtATime
  <2>12. TokensIssued'
    <3>1. \A k \in Kinds : row'.tok[k] <= issued
      BY <2>2, <1>1, <1>5 DEF TokensIssued, c
    <3>2. \A s \in Requests : Drafting(s)' =>
              req'[s].token <= issued /\ \A k \in Kinds : req'[s].copy.tok[k] <= issued
      BY <2>5, <1>1 DEF TokensIssued
    <3> QED
      BY <3>1, <3>2, <1>1, <1>2 DEF TokensIssued
  <2>13. ~contended' => \A s \in Requests : ~Drafting(s)'
    BY <2>5, <1>1, <1>2, <1>5 DEF OneAtATime, Drafting, InFlight
  <2>14. TokensDrafted'
    BY <2>13 DEF TokensDrafted
  <2>15. NewestActive'
    BY <2>3, <2>13 DEF NewestActive, LastActive, IsActive
  <2>16. TokensUnused'
    <3> SUFFICES ASSUME ~contended
                 PROVE  /\ \A k, l \in Kinds : c.tok[k] = c.tok[l] /\ c.tok[k] \in Tokens => k = l
                        /\ \A t \in Tokens : /\ redeemed[t] <= 1
                                             /\ redeemed[t] = 1 => \A k \in Kinds : c.tok[k] # t
      BY <2>2, <1>2 DEF TokensUnused
    <3> DEFINE token == req[r].token
               kind == req[r].kind
    <3>1. /\ token \in Tokens /\ redeemed[token] = 0
          /\ \A k \in Kinds : row.tok[k] # token
          /\ c.tok[kind] = token
          /\ \A k \in Kinds : k # kind => c.tok[k] \in {Nil, row.tok[k]}
      BY <1>1, <1>2, <1>5 DEF TokensDrafted, Linking, c
    <3>2. /\ \A k, l \in Kinds : row.tok[k] = row.tok[l] /\ row.tok[k] \in Tokens => k = l
          /\ \A t \in Tokens : redeemed[t] <= 1 /\ (redeemed[t] = 1 => \A k \in Kinds : row.tok[k] # t)
      BY <1>1 DEF TokensUnused
    <3> HIDE DEF token, kind
    <3>3. \A k, l \in Kinds : c.tok[k] = c.tok[l] /\ c.tok[k] \in Tokens => k = l
      BY <3>1, <3>2, <2>4
    <3>4. ASSUME NEW t \in Tokens, redeemed[t] = 1, NEW k \in Kinds
          PROVE  c.tok[k] # t
      <4>1. token # t
        BY <3>1, <3>4
      <4> QED
        BY <4>1, <3>1, <3>2, <3>4, <2>4
    <3> QED
      BY <3>2, <3>3, <3>4
  <2>17. Mailed'
    BY <1>1, <1>4 DEF Mailed, Idle, Linking
  <2> QED
    BY <2>6, <2>7, <2>8, <2>9, <2>10, <2>11, <2>12, <2>14, <2>15, <2>16, <2>17 DEF IndInv
<1> QED
  BY <1>6, <1>7

-----------------------------------------------------------------------------
(* The handlers up to their reading of the user *)

\* A user with one token replaced.
LEMMA TokenSet ==
    ASSUME NEW u \in User, NEW k \in Kinds, NEW v \in {Nil, Cleared} \cup Tokens
    PROVE  /\ [u EXCEPT !.tok[k] = v] \in User
           /\ [u EXCEPT !.tok[k] = v].ids = u.ids
           /\ [u EXCEPT !.tok[k] = v].failed = u.failed
           /\ [u EXCEPT !.tok[k] = v].tok[k] = v
           /\ \A l \in Kinds : l # k => [u EXCEPT !.tok[k] = v].tok[l] = u.tok[l]
<1>1. u.tok \in [Kinds -> {Nil, Cleared} \cup Tokens]
  BY DEF User
<1>2. /\ [u.tok EXCEPT ![k] = v] \in [Kinds -> {Nil, Cleared} \cup Tokens]
      /\ [u.tok EXCEPT ![k] = v][k] = v
      /\ \A l \in Kinds : l # k => [u.tok EXCEPT ![k] = v][l] = u.tok[l]
  BY <1>1
<1>3. [u EXCEPT !.tok[k] = v] = [u EXCEPT !.tok = [u.tok EXCEPT ![k] = v]]
  BY DEF User
<1> QED
  BY <1>2, <1>3 DEF User

\* A generated token is new.
LEMMA GeneratedToken ==
    ASSUME TypeOK, Generate
    PROVE  /\ issued' = issued + 1 /\ issued' <= MaxTokens + 1 /\ issued \in Nat
           /\ issued' \in Tokens /\ issued' # Nil /\ issued' # Cleared
  BY ConstantsAssumption DEF TypeOK, Generate, Tokens, Nil, Cleared

\* A copy with the identities of the row and its registration token.
LEMMA IdentitiesKept ==
    ASSUME Registered, NewestActive, NEW op, NEW c,
           c.ids = row.ids, c.tok["register"] = row.tok["register"]
    PROVE  DraftedIds(op, c)
  BY DEF DraftedIds, Registered, NewestActive

\* HandleInviteNewUser and resendInvite.
LEMMA InvitePreserves ==
    ASSUME IndInv, NEW r \in Requests, InviteRead(r) \/ ResendRead(r)
    PROVE  IndInv'
<1>1. TypeOK /\ Registered /\ NewestActive
  BY DEF IndInv
<1>2. Generate
  BY DEF InviteRead, ResendRead
<1>3. /\ issued' = issued + 1 /\ issued' <= MaxTokens + 1
      /\ issued' \in Tokens /\ issued' # Nil /\ issued' # Cleared
  BY <1>1, <1>2, GeneratedToken
<1>4. "register" \in Kinds /\ \A k \in Kinds : NewUser.tok[k] = Nil
  BY DEF Kinds, NewUser
<1>5. CASE InviteRead(r)
  <2> DEFINE c == [NewUser EXCEPT !.tok["register"] = issued']
  <2>1. /\ c \in User /\ c.ids = <<>> /\ c.failed = 0 /\ c.tok["register"] = issued'
        /\ \A k \in Kinds : k # "register" => c.tok[k] = Nil
    BY <1>3, <1>4, NewUserType, TokenSet DEF NewUser
  <2>2. Begin(r, "invite", "mailFirst", c, "register", issued')
    BY <1>5 DEF InviteRead
  <2> HIDE DEF c
  <2>3. Drafted("invite", "mailFirst", c, "register", issued')
    BY <1>3, <1>4, <2>1 DEF Drafted, Linking
  <2>4. DraftedIds("invite", c) /\ DraftedFailed("invite", c)
    BY <2>1 DEF DraftedIds, DraftedFailed
  <2>5. DraftedTokens("invite", c, "register", issued')
    BY <1>3, <2>1 DEF DraftedTokens, Linking, Redeeming
  <2> QED
    BY <2>2, <2>3, <2>4, <2>5, BeginPreserves
<1>6. CASE ResendRead(r)
  <2> DEFINE c == [row EXCEPT !.tok["register"] = issued']
  <2>1. /\ c \in User /\ c.ids = row.ids /\ c.failed = row.failed /\ c.tok["register"] = issued'
        /\ \A k \in Kinds : k # "register" => c.tok[k] = row.tok[k]
    <3>1. row \in User
      BY <1>1 DEF TypeOK
    <3> QED
      BY <3>1, <1>3, <1>4, TokenSet
  <2>2. Begin(r, "resend", "mailFirst", c, "register", issued') /\ row.exists /\ IsVerified(row)
    BY <1>6 DEF ResendRead
  <2> HIDE DEF c
  <2>3. Drafted("resend", "mailFirst", c, "register", issued')
    BY <1>3, <1>4, <2>1, <2>2 DEF Drafted, Linking
  <2>4. DraftedIds("resend", c)
    BY <1>1, <1>3, <2>1, <2>2 DEF DraftedIds, NewestActive, IsVerified
  <2>5. DraftedFailed("resend", c)
    BY <2>1 DEF DraftedFailed
  <2>6. DraftedTokens("resend", c, "register", issued')
    BY <1>3, <2>1 DEF DraftedTokens, Linking, Redeeming
  <2> QED
    BY <2>2, <2>3, <2>4, <2>5, <2>6, BeginPreserves
<1> QED
  BY <1>5, <1>6

\* HandleRegister.
LEMMA RegisterPreserves ==
    ASSUME IndInv, NEW r \in Requests, RegisterRead(r)
    PROVE  IndInv'
<1> DEFINE e == [activated |-> TRUE, deactivated |-> FALSE]
           u == Redeemed(row, "register")
           c == [u EXCEPT !.ids = Append(@, e)]
<1>1. TypeOK /\ Registered /\ NewestActive /\ row \in User /\ row.ids \in Seq(Identity)
  BY RowType DEF IndInv, TypeOK
<1>2. /\ row.exists /\ row.tok["register"] \notin {Nil, Cleared}
      /\ Begin(r, "register", "save", c, "register", row.tok["register"])
      /\ issued' = issued
  BY DEF RegisterRead, Usable
<1>3. "register" \in Kinds /\ row.tok["register"] \in Tokens
  BY <1>1, <1>2, RowType DEF Kinds
<1>4. /\ u \in User /\ u.ids = row.ids /\ u.failed = row.failed /\ u.tok["register"] = Cleared
      /\ \A k \in Kinds : k # "register" => u.tok[k] = row.tok[k]
  BY <1>1, <1>3, TokenSet DEF Redeemed
<1>5. e \in Identity
  BY DEF Identity
<1> HIDE DEF u
<1>6. c \in User /\ c.ids = Append(row.ids, e) /\ c.failed = row.failed /\ c.tok = u.tok
  <2>1. PICK s \in Seq(Identity) : s = Append(row.ids, e)
    BY <1>1, <1>5, AppendProperties
  <2>2. c = [u EXCEPT !.ids = s]
    BY <1>4, <2>1
  <2> HIDE DEF c, e
  <2> QED
    BY <1>4, <2>1, <2>2 DEF User
<1>7. c.ids # <<>>
  <2>1. Append(row.ids, e) # <<>>
    BY <1>1, <1>5, AppendProperties
  <2> QED
    BY <2>1, <1>6
<1> HIDE DEF c
<1>8. Drafted("register", "save", c, "register", row.tok["register"])
  BY <1>2, <1>3, <1>6 DEF Drafted
<1>9. DraftedIds("register", c)
  <2>1. ~contended => row.ids = <<>>
    BY <1>1, <1>2 DEF NewestActive
  <2> QED
    BY <2>1, <1>4, <1>6, <1>7 DEF DraftedIds
<1>10. DraftedFailed("register", c)
  BY <1>6 DEF DraftedFailed
<1>11. DraftedTokens("register", c, "register", row.tok["register"])
  <2>1. issued \in Nat /\ issued <= MaxTokens + 1
    BY <1>1, ConstantsAssumption DEF TypeOK
  <2> QED
    BY <2>1, <1>2, <1>3, <1>4, <1>6 DEF DraftedTokens, Linking, Redeeming
<1> QED
  BY <1>2, <1>8, <1>9, <1>10, <1>11, BeginPreserves

\* Requests that keep the row's identities and tokens.
LEMMA PlainPreserves ==
    ASSUME IndInv, NEW r \in Requests, NEW op \in {"login", "fail", "edit", "expire", "unlock", "lock"},
           NEW c \in User, c.ids = row.ids, c.tok = row.tok, row.exists,
           op = "login" => row.ids # <<>>,
           DraftedFailed(op, c),
           Begin(r, op, "save", c, "register", Nil), issued' = issued
    PROVE  IndInv'
<1>1. TypeOK /\ Registered /\ NewestActive
  BY DEF IndInv
<1>2. Drafted(op, "save", c, "register", Nil)
  BY DEF Drafted, Kinds
<1>3. DraftedIds(op, c)
  BY <1>1, IdentitiesKept
<1>4. DraftedTokens(op, c, "register", Nil)
  <2>1. issued \in Nat /\ issued <= MaxTokens + 1
    BY <1>1, ConstantsAssumption DEF TypeOK
  <2> QED
    BY <2>1 DEF DraftedTokens, Linking, Redeeming
<1> QED
  BY <1>2, <1>3, <1>4, BeginPreserves

\* login, with a wrong and with the right password.
LEMMA LoginPreserves ==
    ASSUME IndInv, NEW r \in Requests, LoginWrong(r) \/ LoginRight(r)
    PROVE  IndInv'
<1>1. TypeOK /\ Registered /\ row \in User
  BY DEF IndInv, TypeOK
<1>2. /\ row.exists /\ row.tok["register"] \in {Nil, Cleared} /\ ~IsUserLocked(row.failed)
      /\ issued' = issued
  BY DEF LoginWrong, LoginRight, IsVerified
<1>3. row.ids # <<>>
  BY <1>1, <1>2 DEF Registered
<1>4. CASE LoginWrong(r)
  <2> DEFINE c == [row EXCEPT !.failed = row.failed + 1]
  <2>1. row.failed + 1 \in 0..LoginAttemptsToLockUser
    BY <1>1, <1>2, RowType, ConstantsAssumption DEF IsUserLocked
  <2>2. c \in User /\ c.ids = row.ids /\ c.tok = row.tok /\ c.failed = row.failed + 1
    BY <2>1, <1>1 DEF User
  <2>3. Begin(r, "fail", "save", c, "register", Nil)
    BY <1>4 DEF LoginWrong
  <2> HIDE DEF c
  <2>4. DraftedFailed("fail", c)
    BY <2>2 DEF DraftedFailed
  <2> QED
    BY <2>2, <2>3, <2>4, <1>2, PlainPreserves
<1>5. CASE LoginRight(r)
  <2> DEFINE c == [row EXCEPT !.failed = 0]
  <2>1. c \in User /\ c.ids = row.ids /\ c.tok = row.tok /\ c.failed = 0
    BY <1>1, ConstantsAssumption DEF User
  <2>2. Begin(r, "login", "save", c, "register", Nil)
    BY <1>5 DEF LoginRight
  <2> HIDE DEF c
  <2>3. DraftedFailed("login", c)
    BY <2>1 DEF DraftedFailed
  <2> QED
    BY <2>1, <2>2, <2>3, <1>2, <1>3, PlainPreserves
<1> QED
  BY <1>4, <1>5

\* The requests for a link.
LEMMA LinkPreserves ==
    ASSUME IndInv, NEW r \in Requests,
           ResetLinkRead(r) \/ XpubLinkRead(r) \/ IdentityLinkRead(r)
    PROVE  IndInv'
<1>1. /\ TypeOK /\ Registered /\ NewestActive
      /\ row \in User /\ row.ids \in Seq(Identity)
  BY RowType DEF IndInv, TypeOK
<1>2. ASSUME NEW k \in Kinds \ {"register"}, NEW c \in User, row.exists,
             DraftedIds("link", c), c.failed = row.failed, c.tok = row.tok, RequestLink(r, k, c)
      PROVE  IndInv'
  <2> DEFINE d == [c EXCEPT !.tok[k] = issued']
  <2>1. Generate /\ Begin(r, "link", "save", d, k, issued')
    BY <1>2 DEF RequestLink
  <2>2. /\ issued' = issued + 1 /\ issued' <= MaxTokens + 1
        /\ issued' \in Tokens /\ issued' # Nil /\ issued' # Cleared
    BY <1>1, <2>1, GeneratedToken
  <2>3. /\ d \in User /\ d.ids = c.ids /\ d.failed = c.failed /\ d.tok[k] = issued'
        /\ \A l \in Kinds : l # k => d.tok[l] = c.tok[l]
    BY <1>2, <2>2, TokenSet
  <2>4. d.tok["register"] = c.tok["register"]
    BY <1>2, <2>3 DEF Kinds
  <2> HIDE DEF d
  <2>5. Drafted("link", "save", d, k, issued')
    BY <1>2, <2>2, <2>3 DEF Drafted
  <2>6. DraftedIds("link", d)
    BY <1>2, <2>3, <2>4 DEF DraftedIds
  <2>7. DraftedFailed("link", d)
    BY <1>2, <2>3 DEF DraftedFailed
  <2>8. DraftedTokens("link", d, k, issued')
    BY <1>2, <2>2, <2>3 DEF DraftedTokens, Linking, Redeeming
  <2> QED
    BY <2>1, <2>5, <2>6, <2>7, <2>8, BeginPreserves
<1>3. DraftedIds("link", row)
  BY <1>1, IdentitiesKept
<1>4. CASE ResetLinkRead(r)
  <2>1. row.exists /\ RequestLink(r, "reset", row)
    BY <1>4 DEF ResetLinkRead
  <2>2. "reset" \in Kinds \ {"register"}
    BY DEF Kinds
  <2> QED
    BY <1>1, <1>2, <1>3, <2>1, <2>2
<1>5. CASE XpubLinkRead(r)
  <2>1. row.exists /\ RequestLink(r, "xpub", row)
    BY <1>5 DEF XpubLinkRead, LoggedIn
  <2>2. "xpub" \in Kinds \ {"register"}
    BY DEF Kinds
  <2> QED
    BY <1>1, <1>2, <1>3, <2>1, <2>2
<1>6. CASE IdentityLinkRead(r)
  <2> DEFINE e == [activated |-> FALSE, deactivated |-> FALSE]
             s == Append(row.ids, e)
             c == [row EXCEPT !.early = FALSE, !.ids = s]
  <2>1. row.exists /\ row.ids # <<>> /\ RequestLink(r, "identity", c)
    BY <1>1, <1>6 DEF IdentityLinkRead, LoggedIn, Registered
  <2>2. "identity" \in Kinds \ {"register"}
    BY DEF Kinds
  <2>3. e \in Identity
    BY DEF Identity
  <2>4. c \in User /\ c.ids = Append(row.ids, e) /\ c.failed = row.failed /\ c.tok = row.tok
    <3>1. s \in Seq(Identity) /\ s = Append(row.ids, e)
      BY <1>1, <2>3, AppendProperties
    <3> HIDE DEF s
    <3> QED
      BY <1>1, <3>1 DEF User
  <2>5. Append(row.ids, e) # <<>>
    BY <1>1, <2>3, AppendProperties
  <2> HIDE DEF c
  <2>6. ~contended => c.tok["register"] = Cleared
    BY <1>1, <2>1, <2>4 DEF NewestActive
  <2>7. DraftedIds("link", c)
    <3>1. \E a \in BOOLEAN :
              /\ c.ids = Append(row.ids, [activated |-> a, deactivated |-> FALSE])
              /\ a \/ row.ids # <<>>
              /\ ~contended => (a <=> row.ids = <<>>)
      BY <2>1, <2>4
    <3> QED
      BY <2>4, <2>5, <2>6, <3>1 DEF DraftedIds
  <2> QED
    BY <1>2, <2>1, <2>2, <2>4, <2>7
<1> QED
  BY <1>4, <1>5, <1>6

\* The links that are followed.
LEMMA RedeemPreserves ==
    ASSUME IndInv, NEW r \in Requests, ResetRead(r) \/ XpubRead(r) \/ IdentityRead(r)
    PROVE  IndInv'
<1>1. /\ TypeOK /\ Registered /\ NewestActive
      /\ row \in User /\ row.ids \in Seq(Identity)
  BY RowType DEF IndInv, TypeOK
<1>2. ASSUME NEW k \in Kinds \ {"register"}, NEW c \in User, row.exists,
             DraftedIds("redeem", c), c.failed = row.failed \/ c.failed = 0, c.tok = row.tok,
             Redeem(r, k, c)
      PROVE  IndInv'
  <2> DEFINE d == Redeemed(c, k)
  <2>1. /\ row.tok[k] \notin {Nil, Cleared} /\ issued' = issued
        /\ Begin(r, "redeem", "save", d, k, row.tok[k])
    BY <1>2 DEF Redeem, Usable
  <2>2. row.tok[k] \in Tokens
    BY <1>1, <2>1, RowType
  <2>3. /\ d \in User /\ d.ids = c.ids /\ d.failed = c.failed /\ d.tok[k] = Cleared
        /\ \A l \in Kinds : l # k => d.tok[l] = c.tok[l]
    BY <1>2, TokenSet DEF Redeemed
  <2>4. d.tok["register"] = c.tok["register"]
    BY <1>2, <2>3 DEF Kinds
  <2> HIDE DEF d
  <2>5. Drafted("redeem", "save", d, k, row.tok[k])
    BY <1>2, <2>2, <2>3 DEF Drafted
  <2>6. DraftedIds("redeem", d)
    BY <1>2, <2>3, <2>4 DEF DraftedIds
  <2>7. DraftedFailed("redeem", d)
    BY <1>2, <2>3 DEF DraftedFailed
  <2>8. DraftedTokens("redeem", d, k, row.tok[k])
    <3>1. issued \in Nat /\ issued <= MaxTokens + 1
      BY <1>1, ConstantsAssumption DEF TypeOK
    <3> QED
      BY <3>1, <1>2, <2>1, <2>2, <2>3 DEF DraftedTokens, Linking, Redeeming
  <2> QED
    BY <2>1, <2>5, <2>6, <2>7, <2>8, BeginPreserves
<1>3. CASE ResetRead(r)
  <2> DEFINE c == [row EXCEPT !.failed = 0]
  <2>1. row.exists /\ Redeem(r, "reset", c)
    BY <1>3 DEF ResetRead
  <2>2. "reset" \in Kinds \ {"register"}
    BY DEF Kinds
  <2>3. c \in User /\ c.ids = row.ids /\ c.failed = 0 /\ c.tok = row.tok
    BY <1>1, ConstantsAssumption DEF User
  <2> HIDE DEF c
  <2>4. DraftedIds("redeem", c)
    BY <1>1, <2>3, IdentitiesKept
  <2> QED
    BY <1>2, <2>1, <2>2, <2>3, <2>4
<1>4. CASE XpubRead(r)
  <2>1. row.exists /\ Redeem(r, "xpub", row)
    BY <1>4 DEF XpubRead, LoggedIn
  <2>2. "xpub" \in Kinds \ {"register"}
    BY DEF Kinds
  <2>3. DraftedIds("redeem", row)
    BY <1>1, IdentitiesKept
  <2> QED
    BY <1>1, <1>2, <2>1, <2>2, <2>3
<1>5. CASE IdentityRead(r)
  <2> DEFINE s == Replaced(row.ids)
             c == [row EXCEPT !.early = FALSE, !.ids = s]
  <2>1. row.exists /\ row.ids # <<>> /\ Redeem(r, "identity", c)
    BY <1>1, <1>5 DEF IdentityRead, LoggedIn, Registered
  <2>2. "identity" \in Kinds \ {"register"}
    BY DEF Kinds
  <2>3. Replaced(row.ids) \in Seq(Identity) /\ Len(Replaced(row.ids)) = Len(row.ids)
    BY <1>1, <2>1, ReplacedIds
  <2>4. c \in User /\ c.ids = Replaced(row.ids) /\ c.failed = row.failed /\ c.tok = row.tok
    <3>1. s \in Seq(Identity) /\ s = Replaced(row.ids)
      BY <2>3
    <3> HIDE DEF s
    <3> QED
      BY <1>1, <3>1 DEF User
  <2>5. Replaced(row.ids) # <<>>
    BY <1>1, <2>1, <2>3, EmptySeq
  <2> HIDE DEF c
  <2>6. ~contended => c.tok["register"] = Cleared
    BY <1>1, <2>1, <2>4 DEF NewestActive
  <2>7. DraftedIds("redeem", c)
    BY <2>1, <2>4, <2>5, <2>6 DEF DraftedIds
  <2> QED
    BY <1>2, <2>1, <2>2, <2>4, <2>7
<1> QED
  BY <1>3, <1>4, <1>5

\* Edits, and addresses that are derived.
LEMMA EditPreserves ==
    ASSUME IndInv, NEW r \in Requests, EditUserRead(r) \/ ChangePasswordRead(r) \/ DeriveRead(r)
    PROVE  IndInv'
<1>1. /\ Registered /\ row \in User
  BY DEF IndInv, TypeOK
<1>2. row.exists /\ Begin(r, "edit", "save", row, "register", Nil) /\ issued' = issued
  BY <1>1 DEF EditUserRead, ChangePasswordRead, DeriveRead, LoggedIn, Registered
<1>3. DraftedFailed("edit", row)
  BY DEF DraftedFailed
<1> QED
  BY <1>1, <1>2, <1>3, PlainPreserves

\* An admin's actions.
LEMMA ManagePreserves ==
    ASSUME IndInv, NEW r \in Requests, NEW op \in {"expire", "unlock", "lock"}, ManageRead(r, op)
    PROVE  IndInv'
<1>1. row \in User
  BY DEF IndInv, TypeOK
<1>2. row.exists /\ issued' = issued
  BY DEF ManageRead
<1>3. CASE op = "expire" /\ Begin(r, op, "save", [row EXCEPT !.early = TRUE], "register", Nil)
  <2> DEFINE c == [row EXCEPT !.early = TRUE]
  <2>1. c \in User /\ c.ids = row.ids /\ c.tok = row.tok /\ c.failed = row.failed
    BY <1>1 DEF User
  <2> HIDE DEF c
  <2>2. DraftedFailed(op, c)
    BY <2>1 DEF DraftedFailed
  <2> QED
    BY <1>2, <1>3, <2>1, <2>2, PlainPreserves DEF c
<1>4. CASE op = "unlock" /\ Begin(r, op, "save", [row EXCEPT !.failed = 0], "register", Nil)
  <2> DEFINE c == [row EXCEPT !.failed = 0]
  <2>1. c \in User /\ c.ids = row.ids /\ c.tok = row.tok /\ c.failed = 0
    BY <1>1, ConstantsAssumption DEF User
  <2> HIDE DEF c
  <2>2. DraftedFailed(op, c)
    BY <2>1 DEF DraftedFailed
  <2> QED
    BY <1>2, <1>4, <2>1, <2>2, PlainPreserves DEF c
<1>5. CASE op = "lock" /\ Begin(r, op, "save", [row EXCEPT !.failed = LoginAttemptsToLockUser], "register", Nil)
  <2> DEFINE c == [row EXCEPT !.failed = LoginAttemptsToLockUser]
  <2>1. c \in User /\ c.ids = row.ids /\ c.tok = row.tok
    BY <1>1, ConstantsAssumption DEF User
  <2> HIDE DEF c
  <2>2. DraftedFailed(op, c)
    BY <1>5 DEF DraftedFailed
  <2> QED
    BY <1>2, <1>5, <2>1, <2>2, PlainPreserves DEF c
<1> QED
  BY <1>3, <1>4, <1>5 DEF ManageRead

-----------------------------------------------------------------------------
(* The invariant *)

\* The invariant holds initially.
LEMMA InitIndInv == Init => IndInv
<1> SUFFICES ASSUME Init PROVE IndInv
  OBVIOUS
<1>1. /\ row = NewUser /\ issued = 1 /\ expired = 1 /\ known = {} /\ session = FALSE
      /\ req = [r \in Requests |-> Idle]
      /\ contended = FALSE /\ failures = 0 /\ unreset = FALSE /\ adminLock = FALSE /\ redeemed = [n \in Tokens |-> 0]
  BY DEF Init
<1>2. \A r \in Requests : ~Drafting(r) /\ ~InFlight(r)
  BY <1>1 DEF Drafting, InFlight, Idle
<1>3. row.ids = <<>> /\ ~row.exists /\ row.failed = 0 /\ \A k \in Kinds : row.tok[k] = Nil
  BY <1>1 DEF NewUser
<1>4. Idle \in Request
  BY NewUserType DEF Idle, Request, Kinds
<1>5. TypeOK
  <2>1. row \in User /\ req \in [Requests -> Request] /\ redeemed \in [Tokens -> 0..2]
    BY <1>1, <1>4, NewUserType
  <2>2. issued \in 1..(MaxTokens + 1) /\ expired \in 1..issued /\ failures \in 0..LoginAttemptsToLockUser
    BY <1>1, ConstantsAssumption
  <2> QED
    BY <2>1, <2>2, <1>1 DEF TypeOK
<1>6. Registered
  <2>1. row.tok["register"] = Nil /\ Nil # Cleared
    BY <1>3 DEF Kinds, Nil, Cleared
  <2> QED
    BY <1>1, <1>2, <1>3, <2>1 DEF Registered, Idle
<1>7. CopyLengths /\ CopiesActive /\ CountersReached /\ OneAtATime /\ TokensDrafted
  BY <1>1, <1>2, <1>3 DEF CopyLengths, CopiesActive, CountersReached, Counted, OneAtATime, TokensDrafted
<1>8. TokensIssued /\ TokensUnused
  BY <1>1, <1>2, <1>3 DEF TokensIssued, TokensUnused, Nil, Tokens
<1>9. NewestActive
  BY <1>2, <1>3 DEF NewestActive, LastActive
<1>10. Mailed
  BY <1>1 DEF Mailed, Idle, Linking
<1> QED
  BY <1>5, <1>6, <1>7, <1>8, <1>9, <1>10 DEF IndInv

\* Sessions, mails and failures leave the row alone.
LEMMA QuietPreserves ==
    ASSUME IndInv, NEW r \in Requests, SetSessionUser(r) \/ Mail(r) \/ Fail(r)
    PROVE  IndInv'
<1>1. TypeOK /\ Registered
  BY DEF IndInv
<1>0. Mailed
  BY DEF IndInv
<1>2. req[r] \in Request /\ Idle \in Request
  BY <1>1, NewUserType DEF TypeOK, Idle, Request, Kinds
<1>3. /\ UNCHANGED <<row, issued, history>> /\ expired' = expired
  BY DEF SetSessionUser, Mail, Fail
<1>4. /\ req' = [req EXCEPT ![r] = Idle]
         \/ (req' = [req EXCEPT ![r] = [req[r] EXCEPT !.step = "save"]] /\ Drafting(r))
  BY DEF SetSessionUser, Mail, Fail, Drafting
<1>5. [req[r] EXCEPT !.step = "save"] \in Request
  BY <1>2 DEF Request
<1>6. \A s \in Requests : Continues(s)
  BY <1>1, <1>4 DEF Continues, TypeOK
<1>7. session' \in BOOLEAN /\ (session' => session \/ row.ids # <<>>)
  <2>1. CASE SetSessionUser(r)
    <3>1. session' = TRUE /\ req[r].step = "session"
      BY <2>1 DEF SetSessionUser
    <3> QED
      BY <3>1, <1>1 DEF Registered
  <2>2. CASE Mail(r) \/ Fail(r)
    BY <2>2, <1>1 DEF Mail, Fail, TypeOK
  <2> QED
    BY <2>1, <2>2
<1>8. known' \subseteq Tokens
  <2>1. CASE Mail(r)
    <3>1. req[r].step \in {"mail", "mailFirst"} /\ known' = known \cup {req[r].token}
      BY <2>1 DEF Mail
    <3>2. req[r].token \in Tokens
      BY <3>1, <1>0 DEF Mailed
    <3>3. known \subseteq Tokens
      BY <1>1 DEF TypeOK
    <3> QED
      BY <3>1, <3>2, <3>3
  <2>2. CASE SetSessionUser(r) \/ Fail(r)
    BY <2>2, <1>1 DEF SetSessionUser, Fail, TypeOK
  <2> QED
    BY <2>1, <2>2
<1>9. TypeOK'
  <2>1. req' \in [Requests -> Request]
    BY <1>1, <1>2, <1>4, <1>5 DEF TypeOK
  <2> QED
    BY <2>1, <1>1, <1>3, <1>7, <1>8 DEF TypeOK, history
<1> QED
  BY <1>3, <1>6, <1>7, <1>9, OthersPreserve

\* Every step preserves the invariant.
LEMMA StepIndInv == IndInv /\ [Next]_vars => IndInv'
<1> SUFFICES ASSUME IndInv, [Next]_vars PROVE IndInv'
  OBVIOUS
<1>1. TypeOK /\ Registered
  BY DEF IndInv
<1>2. ASSUME NEW r \in Requests,
             \/ InviteRead(r) \/ ResendRead(r)
             \/ RegisterRead(r) \/ LoginWrong(r) \/ LoginRight(r) \/ SetSessionUser(r)
             \/ ResetLinkRead(r) \/ XpubLinkRead(r) \/ IdentityLinkRead(r)
             \/ ResetRead(r) \/ XpubRead(r) \/ IdentityRead(r)
             \/ EditUserRead(r) \/ ChangePasswordRead(r) \/ DeriveRead(r)
             \/ \E op \in {"expire", "unlock", "lock"} : ManageRead(r, op)
             \/ Save(r) \/ CreateUser(r) \/ Mail(r) \/ Fail(r)
      PROVE  IndInv'
  <2>1. CASE InviteRead(r) \/ ResendRead(r)
    BY <2>1, InvitePreserves
  <2>2. CASE RegisterRead(r)
    BY <2>2, RegisterPreserves
  <2>3. CASE LoginWrong(r) \/ LoginRight(r)
    BY <2>3, LoginPreserves
  <2>4. CASE ResetLinkRead(r) \/ XpubLinkRead(r) \/ IdentityLinkRead(r)
    BY <2>4, LinkPreserves
  <2>5. CASE ResetRead(r) \/ XpubRead(r) \/ IdentityRead(r)
    BY <2>5, RedeemPreserves
  <2>6. CASE EditUserRead(r) \/ ChangePasswordRead(r) \/ DeriveRead(r)
    BY <2>6, EditPreserves
  <2>7. CASE \E op \in {"expire", "unlock", "lock"} : ManageRead(r, op)
    BY <2>7, ManagePreserves
  <2>8. CASE Save(r)
    BY <2>8, SavePreserves
  <2>9. CASE CreateUser(r)
    BY <2>9, CreatePreserves
  <2>10. CASE SetSessionUser(r) \/ Mail(r) \/ Fail(r)
    BY <2>10, QuietPreserves
  <2> QED
    BY <1>2, <2>1, <2>2, <2>3, <2>4, <2>5, <2>6, <2>7, <2>8, <2>9, <2>10
<1>3. CASE RemoveSession \/ Expire \/ UNCHANGED vars
  <2>1. /\ UNCHANGED <<row, issued, history>> /\ req' = req /\ known' = known
        /\ session' \in BOOLEAN /\ (session' => session)
    <3>1. session \in BOOLEAN
      BY <1>1 DEF TypeOK
    <3>2. CASE RemoveSession
      BY <3>1, <3>2 DEF RemoveSession
    <3>3. CASE Expire
      BY <3>1, <3>3 DEF Expire
    <3>4. CASE UNCHANGED vars
      BY <3>1, <3>4 DEF vars
    <3> QED
      BY <1>3, <3>2, <3>3, <3>4
  <2>2. expired' \in 1..issued /\ issued' = issued
    BY <1>1, <1>3, ConstantsAssumption DEF RemoveSession, Expire, vars, TypeOK
  <2>3. TypeOK'
    BY <1>1, <2>1, <2>2 DEF TypeOK, history
  <2>4. \A s \in Requests : Continues(s)
    BY <2>1 DEF Continues
  <2> QED
    BY <2>1, <2>3, <2>4, OthersPreserve
<1> QED
  BY <1>2, <1>3 DEF Next

\* The invariant holds of every behaviour.
LEMMA Invariance == Spec => []IndInv
  BY InitIndInv, StepIndInv, PTL DEF Spec

-----------------------------------------------------------------------------
(* Theorems *)

\* Every variable keeps its type; in particular no save writes more failed
\* logins than lock the account, and no token is used that was not generated.
THEOREM TypeCorrect == Spec => []TypeOK
<1>1. IndInv => TypeOK
  BY DEF IndInv
<1> QED
  BY <1>1, Invariance, PTL

\* No verification token is redeemed twice, whatever other requests save,
\* as long as they follow each other: a redeemed token's column is written
\* (it is "" and not NULL), and no copy that is saved later holds the token.
THEOREM TokensRedeemedOnce == Spec => []RedeemedOnce
<1>1. IndInv => RedeemedOnce
  BY DEF IndInv, TokensUnused, RedeemedOnce
<1> QED
  BY <1>1, Invariance, PTL

\* Without an admin an account is locked only after as many failed logins in
\* a row as the limit says, with any number of requests that save old copies,
\* as long as no reset met a counter that was not zero: the row's counter
\* starts at zero and never returns there, so a reset that is not skipped
\* found no failure in the row.
THEOREM LocksMeanFailures == Spec => []LockMeansFailures
<1>1. IndInv => LockMeansFailures
  <2> SUFFICES ASSUME IndInv, IsUserLocked(row.failed), ~adminLock, ~unreset
               PROVE  failures >= LoginAttemptsToLockUser
    BY DEF LockMeansFailures
  <2> DEFINE f == row.failed
  <2>1. f <= Counted /\ f >= LoginAttemptsToLockUser
    BY DEF IndInv, CountersReached, IsUserLocked
  <2>2. f \in Nat /\ failures \in Nat /\ LoginAttemptsToLockUser \in Nat /\ LoginAttemptsToLockUser > 0
    BY RowType, ConstantsAssumption DEF IndInv, TypeOK
  <2>3. Counted = IF f = 0 THEN 0 ELSE failures
    BY DEF Counted
  <2> HIDE DEF f
  <2> QED
    BY <2>1, <2>2, <2>3
<1> QED
  BY <1>1, Invariance, PTL

\* A registered user always has an active identity, whatever saves of old
\* copies overlap and whatever replacements are abandoned.
THEOREM SomeIdentityStaysActive == Spec => []SomeIdentityActive
<1>1. IndInv => SomeIdentityActive
  <2> SUFFICES ASSUME IndInv, row.ids # <<>>
               PROVE  ActiveAt(row) # {}
    BY DEF SomeIdentityActive
  <2>1. PICK i \in 1..Len(row.ids) : IsActive(row.ids[i])
    BY DEF IndInv, CopiesActive, SomeActive
  <2>2. DOMAIN row.ids = 1..Len(row.ids)
    BY RowType DEF IndInv
  <2> QED
    BY <2>1, <2>2 DEF ActiveAt
<1> QED
  BY <1>1, Invariance, PTL

\* Of the identities of a user none of whose replacements was abandoned,
\* exactly the one verified last is active.
THEOREM NewestIdentityStaysActive == Spec => []NewestIdentityActive
<1>1. IndInv => NewestIdentityActive
  <2> DEFINE ids == row.ids
             verified == {i \in DOMAIN ids : ids[i].activated}
  <2> SUFFICES ASSUME IndInv, ~contended, ids # <<>>,
                      \A i \in 1..(Len(ids) - 1) : ids[i].activated
               PROVE  ActiveAt(row) = {i \in verified : \A j \in verified : j <= i}
    BY DEF NewestIdentityActive
  <2>1. ids \in Seq(Identity) /\ DOMAIN ids = 1..Len(ids) /\ Len(ids) \in Nat
    BY RowType DEF IndInv
  <2>2. \A i \in DOMAIN ids : i < Len(ids) => ids[i].activated
    BY <2>1
  <2>3. \A i \in DOMAIN ids :
            IsActive(ids[i]) <=> ids[i].activated /\ \A j \in DOMAIN ids : ids[j].activated => j <= i
    BY <2>2 DEF IndInv, NewestActive, LastActive
  <2> QED
    BY <2>3 DEF ActiveAt
<1> QED
  BY <1>1, Invariance, PTL
=============================================================================
