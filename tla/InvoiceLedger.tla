--------------------------- MODULE InvoiceLedger ---------------------------
(***************************************************************************)
(* What the invoice storage of cmswww promises, whatever its handlers do:  *)
(* politeiad keeps for every invoice a log of status changes that only     *)
(* grows, and the web server shows a view of that log.  The view may lag   *)
(* and may even show an old status, but it never shows a change, or a      *)
(* status, that the log does not hold, and a rebuild (a restart of the     *)
(* server) makes it exact again.                                           *)
(***************************************************************************)
EXTENDS Naturals, Sequences, Functions

CONSTANTS
    Tokens,       \* invoice tokens
    StoredStatus  \* the statuses a change can carry

VARIABLES
    log,    \* log[t]: the accepted changes of t, oldest first
    view,   \* view[t]: the changes the server shows for t
    shown   \* shown[t]: the status the server shows, "invalid" for none

ledgerVars == <<log, view, shown>>

\* The status a record's change stream ends in.
LastStatus(changes) ==
    IF changes = <<>> THEN "invalid" ELSE changes[Len(changes)].status

StatusesIn(changes) == {c.status : c \in changes}

LedgerInit ==
    /\ log   = [t \in Tokens |-> <<>>]
    /\ view  = [t \in Tokens |-> {}]
    /\ shown = [t \in Tokens |-> "invalid"]

\* politeiad accepts one change, with a stamp no change of the log has.
Accept(t) ==
    /\ UNCHANGED <<view, shown>>
    /\ \E c \in Range(log'[t]) :
           /\ c.status \in StoredStatus
           /\ \A u \in Tokens : \A d \in Range(log[u]) : d.stamp # c.stamp
           /\ log' = [log EXCEPT ![t] = Append(@, c)]

\* The server shows an accepted change, or again a status it showed before.
Show(t) ==
    /\ \E C \in SUBSET Range(log[t]) : view' = [view EXCEPT ![t] = @ \cup C]
    /\ \E s \in StatusesIn(view'[t]) : shown' = [shown EXCEPT ![t] = s]
    /\ UNCHANGED log

\* The server rebuilds everything it shows from the log.
Rebuild ==
    /\ view'  = [t \in Tokens |-> Range(log[t])]
    /\ shown' = [t \in Tokens |-> LastStatus(log[t])]
    /\ UNCHANGED log

LedgerNext ==
    \/ \E t \in Tokens : Accept(t)
    \/ \E t \in Tokens : Show(t)
    \/ Rebuild

LedgerSpec == LedgerInit /\ [][LedgerNext]_ledgerVars
=============================================================================
