----------------------------- MODULE BestEffort -----------------------------
(***************************************************************************)
(* What the live delivery of a message promises: it is offered to a login  *)
(* at most once and only while its fan-out is under way; what was offered  *)
(* is shown or lost, once and for all. Nothing is promised to arrive: the  *)
(* history has what was lost.                                              *)
(***************************************************************************)
CONSTANTS Messages, Logins

VARIABLES
    open,       \* messages whose fan-out is under way
    over,       \* messages whose fan-out has ended
    offered,    \* logins that each message was ever offered to
    queued,     \* those it is on the way to
    shown       \* those whose page it came to

Init ==
    /\ open = {} /\ over = {}
    /\ offered = [m \in Messages |-> {}]
    /\ queued = [m \in Messages |-> {}]
    /\ shown = [m \in Messages |-> {}]

Post(m) ==
    /\ m \notin open \cup over
    /\ open' = open \cup {m}
    /\ UNCHANGED <<over, offered, queued, shown>>

\* Fan-outs may end, with an offer or without one, and do not begin again.
SomeEnd ==
    /\ open' \subseteq open
    /\ over' = over \cup (open \ open')

Offer(m, l) ==
    /\ m \in open
    /\ l \notin offered[m]
    /\ offered' = [offered EXCEPT ![m] = @ \cup {l}]
    /\ queued' = [queued EXCEPT ![m] = @ \cup {l}]
    /\ SomeEnd
    /\ UNCHANGED shown

Show(m, l) ==
    /\ l \in queued[m]
    /\ queued' = [queued EXCEPT ![m] = @ \ {l}]
    /\ shown' = [shown EXCEPT ![m] = @ \cup {l}]
    /\ UNCHANGED <<open, over, offered>>

\* A socket, or the process with all of them, ends.
Lose ==
    /\ SomeEnd
    /\ queued' \in [Messages -> SUBSET Logins]
    /\ \A m \in Messages : queued'[m] \subseteq queued[m]
    /\ UNCHANGED <<offered, shown>>

Next ==
    \/ \E m \in Messages : Post(m) \/ \E l \in Logins : Offer(m, l) \/ Show(m, l)
    \/ Lose

Spec == Init /\ [][Next]_<<open, over, offered, queued, shown>>
=============================================================================
