---------------------------- MODULE DAPNETInput ----------------------------
(***************************************************************************)
(* What CDAPNETNetwork and the main loop agree upon.  DAPNETSession says   *)
(* how the connection comes by what it hands on, DAPNETGateway what the    *)
(* loop does with it; each shows only this much to the other.              *)
(*                                                                         *)
(* A read stores a page, a schedule or nothing and either succeeds or not; *)
(* if not, the connection is recovered before anything else happens.  The  *)
(* page is taken before the next read.                                     *)
(***************************************************************************)
CONSTANTS
    Pages,
    Nothing     \* no page

VARIABLES
    place,      \* "read", "backoff", "recover", or "take"
    message,    \* the page that is stored
    schedule    \* whether a schedule is

vars == <<place, message, schedule>>

Init == place = "read" /\ message = Nothing /\ schedule = FALSE

Returns == place' \in {"take", "recover"}

ReadOther == place = "read" /\ Returns /\ UNCHANGED <<message, schedule>>

ReadPage ==
    /\ place = "read" /\ message = Nothing
    /\ message' \in Pages
    /\ Returns /\ UNCHANGED schedule

ReadSchedule ==
    /\ place = "read"
    /\ schedule' = TRUE
    /\ Returns /\ UNCHANGED message

ReadFailedLogin ==
    place = "read" /\ place' = "backoff" /\ UNCHANGED <<message, schedule>>

BackoffOver ==
    place = "backoff" /\ Returns /\ UNCHANGED <<message, schedule>>

Recovered ==
    place = "recover" /\ place' = "take" /\ UNCHANGED <<message, schedule>>

(* readMessage, and readSchedule in the same turn of the loop or later. *)
Take ==
    /\ place = "take" /\ place' = "read"
    /\ message' = Nothing
    /\ schedule' \in {schedule, FALSE}

TakeSchedule ==
    /\ place = "read"
    /\ schedule' = FALSE
    /\ UNCHANGED <<place, message>>

Next ==
    \/ ReadOther \/ ReadPage \/ ReadSchedule \/ ReadFailedLogin
    \/ BackoffOver \/ Recovered \/ Take \/ TakeSchedule

Spec == Init /\ [][Next]_vars
=============================================================================
