------------------------------ MODULE Mailbox ------------------------------
(***************************************************************************)
(* What the event manager promises: an event that is fired reaches each    *)
(* listener of its type, once, while the server runs.  The order is not    *)
(* promised, and what a listener has not handled when the server stops is  *)
(* lost.                                                                   *)
(***************************************************************************)
CONSTANTS
    Listeners,
    Events,
    Interested   \* Interested[l]: the events listener l registers for

VARIABLES
    fired,       \* events fired so far
    open,        \* listeners that are registered
    pending,     \* pending[l]: events that l has yet to handle
    handled      \* handled[l]: events that l has handled

vars == <<fired, open, pending, handled>>

Init ==
    /\ fired = {}
    /\ open = {}
    /\ pending = [l \in Listeners |-> {}]
    /\ handled = [l \in Listeners |-> {}]

Register ==
    /\ open' \in SUBSET Listeners
    /\ UNCHANGED <<fired, pending, handled>>

Fire(e) ==
    /\ e \notin fired
    /\ fired' = fired \cup {e}
    /\ pending' = [l \in Listeners |->
                      IF l \in open /\ e \in Interested[l] THEN pending[l] \cup {e} ELSE pending[l]]
    /\ UNCHANGED <<open, handled>>

Handle(l, e) ==
    /\ e \in pending[l]
    /\ pending' = [pending EXCEPT ![l] = @ \ {e}]
    /\ handled' = [handled EXCEPT ![l] = @ \cup {e}]
    /\ UNCHANGED <<fired, open>>

Stop ==
    /\ open' = {}
    /\ pending' = [l \in Listeners |-> {}]
    /\ UNCHANGED <<fired, handled>>

Next ==
    \/ Register
    \/ \E e \in Events : Fire(e)
    \/ \E l \in Listeners, e \in Events : Handle(l, e)
    \/ Stop

Spec == Init /\ [][Next]_vars

FairSpec == Spec /\ \A l \in Listeners, e \in Events : WF_vars(Handle(l, e))
=============================================================================
