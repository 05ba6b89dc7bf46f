---------------------------- MODULE PageDelivery ----------------------------
(***************************************************************************)
(* What an acknowledgement of the gateway means to DAPNET: at least once.  *)
(* A page that is acknowledged has been stored before, and stays stored;   *)
(* one that is not may have been stored all the same, and is offered       *)
(* again.                                                                  *)
(***************************************************************************)
CONSTANT Pages

VARIABLES
    offered,    \* pages that the server has sent at least once
    stored,     \* pages that the gateway holds or has handed to its queue
    acked       \* pages that the server knows to be stored

vars == <<offered, stored, acked>>

Init == offered = {} /\ stored = {} /\ acked = {}

Offer ==
    /\ \E p \in Pages \ acked : offered' = offered \cup {p}
    /\ UNCHANGED <<stored, acked>>

Store ==
    /\ \E p \in offered : stored' = stored \cup {p}
    /\ UNCHANGED <<offered, acked>>

Acknowledge ==
    /\ \E p \in stored : acked' = acked \cup {p}
    /\ UNCHANGED <<offered, stored>>

Next == Offer \/ Store \/ Acknowledge

Spec == Init /\ [][Next]_vars
=============================================================================
