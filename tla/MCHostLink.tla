----------------------------- MODULE MCHostLink -----------------------------
(***************************************************************************)
(* Addresses for the run of HostLink: the host, another program on the     *)
(* host's machine, and another machine that uses the host's port.          *)
(***************************************************************************)
EXTENDS HostLink

TheHost   == [family |-> "v4", host |-> "mmdvm", port |-> 3800]
SameHost  == [TheHost EXCEPT !.port = 4800]
SamePort  == [TheHost EXCEPT !.host = "elsewhere"]

Elsewhere == {SameHost, SamePort}
=============================================================================
