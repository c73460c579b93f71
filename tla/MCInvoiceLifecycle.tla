------------------------- MODULE MCInvoiceLifecycle -------------------------
(***************************************************************************)
(* InvoiceLifecycle for TLC: small sets of handlers, tokens and users.     *)
(***************************************************************************)
EXTENDS InvoiceLifecycle, FiniteSets, TLC

CONSTANTS h1, h2, t1, t2, u1, u2, m1

MCHandlers == {h1, h2}
MCTokens   == {t1, t2}
MCUsers    == {u1, u2}
MCMonths   == {m1}

\* Handlers, tokens and users are interchangeable in every safety property.
MCSymmetry == Permutations(MCHandlers) \cup Permutations(MCTokens) \cup Permutations(MCUsers)

\* The contractors that the records, the rows and the requests are about.
MCInvolved ==
    LET periods == {pd[t].period : t \in Tokens} \cup {db[t].period : t \in Tokens}
                       \cup {req[h].period : h \in Handlers} \cup taken
    IN  {u \in Users : \E m \in Months : <<u, m>> \in periods}

\* One contractor's invoices are followed through MaxStamp changes, those of
\* two contractors through two: a submission and another's edit of it, with
\* more records filed, crashes and restarts before and after.
MCBound == Cardinality(MCInvolved) > 1 => clock <= 2
=============================================================================
