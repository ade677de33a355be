---------------------------- MODULE RequestServer ----------------------------
(***************************************************************************)
(* What a bounded request server promises its clients: a client is either  *)
(* turned away at once, which happens only while the server is busy with   *)
(* at least Limit others, or it is admitted and then served, once.  A      *)
(* client that comes late, after the server began to close, may be served  *)
(* but has no promise.                                                     *)
(***************************************************************************)
EXTENDS FiniteSets, Naturals

CONSTANTS
    Clients,    \* everyone who may connect
    Limit,      \* fewer clients than this are never turned away
    Capacity    \* at most this many are admitted at a time

VARIABLES
    status,     \* of each client
    open        \* whether the server is not closing

Pending == {c \in Clients : status[c] \in {"pending", "late"}}

Init == status = [c \in Clients |-> "outside"] /\ open = TRUE

Move(c, from, to) ==
    /\ status[c] = from
    /\ status' = [status EXCEPT ![c] = to]
    /\ UNCHANGED open

Admit(c) ==
    /\ Cardinality(Pending) < Capacity
    /\ Move(c, "outside", IF open THEN "pending" ELSE "late")

TurnAway(c) == Cardinality(Pending) >= Limit /\ Move(c, "outside", "refused")

Serve(c) == Move(c, "pending", "served")

ServeLate(c) == Move(c, "late", "served")

Close == open /\ open' = FALSE /\ UNCHANGED status

Next ==
    \/ Close
    \/ \E c \in Clients : Admit(c) \/ TurnAway(c) \/ Serve(c) \/ ServeLate(c)

vars == <<status, open>>

Spec == Init /\ [][Next]_vars /\ \A c \in Clients : WF_vars(Serve(c))
=============================================================================
