----------------------------- MODULE StatusFeed -----------------------------
(***************************************************************************)
(* What the gateway promises of the status of the MMDVM host: it acts upon *)
(* a status that the host has announced, and never again upon one that the *)
(* host announced before it.  It may pass over any of them.                *)
(***************************************************************************)
EXTENDS Naturals, Sequences

VARIABLES
    announced,  \* what the host has announced so far, TRUE for idle
    heard,      \* how far into it the gateway has got
    acting      \* the status that the gateway acts upon

vars == <<announced, heard, acting>>

(* Until it has heard anything the gateway takes the host for busy. *)
Init == announced = <<>> /\ heard = 0 /\ acting = FALSE

Announce ==
    /\ \E free \in BOOLEAN : announced' = Append(announced, free)
    /\ UNCHANGED <<heard, acting>>

Hear ==
    /\ \E n \in heard + 1 .. Len(announced) :
        /\ heard' = n
        /\ acting' = announced[n]
    /\ UNCHANGED announced

Next == Announce \/ Hear

Spec == Init /\ [][Next]_vars
=============================================================================
