------------------------------ MODULE Delivery ------------------------------
(***************************************************************************)
(* What the network manager promises the collections: a message is sent    *)
(* once, to some of the processes, and each of these receives it once or   *)
(* not at all, at any later time and in any order.                         *)
(***************************************************************************)
CONSTANTS Nodes, Messages

VARIABLES sent,       \* messages there have been
          inFlight,   \* copies on their way: [to, msg]
          received    \* copies that have been handled

vars == <<sent, inFlight, received>>

Copies == [to : Nodes, msg : Messages]

Init == sent = {} /\ inFlight = {} /\ received = {}

Send(m) ==
    /\ m \notin sent
    /\ sent' = sent \cup {m}
    /\ \E to \in SUBSET Nodes : inFlight' = inFlight \cup [to : to, msg : {m}]
    /\ UNCHANGED received

Receive(copy) ==
    /\ copy \in inFlight
    /\ inFlight' = inFlight \ {copy}
    /\ received' = received \cup {copy}
    /\ UNCHANGED sent

Lose ==
    /\ inFlight' \in SUBSET inFlight
    /\ UNCHANGED <<sent, received>>

Next == Lose \/ (\E m \in Messages : Send(m)) \/ (\E copy \in Copies : Receive(copy))

Spec == Init /\ [][Next]_vars
=============================================================================
