---------------------------- MODULE PagingQueue ----------------------------
(***************************************************************************)
(* What the gateway promises of the pages it takes from DAPNET             *)
(* (README.md:3): they are buffered and handed to the host in order.       *)
(* A page that the operator's lists admit waits in the buffer from the     *)
(* moment it has been read; the buffer is first in, first out; a page      *)
(* leaves it by being handed over or, when it announces the time and has   *)
(* waited for HoldTime, by being thrown away.  It leaves in no other way,  *)
(* and is handed over once.                                                *)
(***************************************************************************)
EXTENDS Naturals, Sequences

CONSTANTS
    Pages,      \* all pages
    Admitted,   \* those that the lists let through
    TimePages,  \* those that announce the time
    HoldTime,   \* after this time such a page is useless
    Nothing     \* before the first page

VARIABLES
    pending,    \* the pages that wait, [page, age], oldest first
    onAir       \* the last page that reached the host

vars == <<pending, onAir>>

Init ==
    /\ pending = <<>>
    /\ onAir = Nothing

Receive ==
    \E p \in Admitted :
        /\ pending' = Append(pending, [page |-> p, age |-> 0])
        /\ UNCHANGED onAir

Useless(entry) == entry.page \in TimePages /\ entry.age >= HoldTime

(* The datagram to the host may be lost; the page is not sent again. *)
HandOver ==
    /\ pending # <<>>
    /\ ~Useless(Head(pending))
    /\ onAir' \in {Head(pending).page, onAir}
    /\ pending' = Tail(pending)

ThrowAway ==
    /\ pending # <<>>
    /\ Useless(Head(pending))
    /\ pending' = Tail(pending)
    /\ UNCHANGED onAir

Older(entry, d) ==
    [entry EXCEPT !.age = IF @ + d > HoldTime THEN HoldTime ELSE @ + d]

Wait ==
    \E d \in 1 .. HoldTime :
        /\ pending' = [i \in DOMAIN pending |-> Older(pending[i], d)]
        /\ UNCHANGED onAir

Next == Receive \/ HandOver \/ ThrowAway \/ Wait

Spec == Init /\ [][Next]_vars
=============================================================================
