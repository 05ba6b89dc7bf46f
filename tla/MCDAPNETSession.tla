-------------------------- MODULE MCDAPNETSession --------------------------
(***************************************************************************)
(* Lines for the runs of DAPNETSession.                                    *)
(***************************************************************************)
EXTENDS DAPNETSession

(* The lines of a server, well formed or unknown to the gateway. *)
ServerKinds == {"time", "other", "schedule", "failed", "ack", "unknown"}

(* What the rest of a line may begin with: a text begins with anything. *)
Junk == {"time", "unknown", "badpage", "badcode", "blank"}
=============================================================================
