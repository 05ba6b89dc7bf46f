------------------------------ MODULE HostLink ------------------------------
(***************************************************************************)
(* The link to the MMDVM host: CPOCSAGNetwork over CUDPSocket, and what    *)
(* run() and sendMessages do with them in each turn of the loop.  A turn   *)
(* reads at most one datagram (place "read"), may be held up for minutes   *)
(* by the DAPNET side, and hands over at most one page (place "send").     *)
(*                                                                         *)
(* The host and the network are external.  The host announces when it is   *)
(* idle and when it is busy with another mode.  Datagrams may be lost but  *)
(* do not overtake each other; the socket holds BACKLOG of them and drops  *)
(* what comes then.                                                        *)
(***************************************************************************)
EXTENDS Naturals, Sequences

CONSTANTS
    None,           \* no address
    Host,           \* RptAddress and RptPort, [family, host, port]
    Strangers,      \* the other addresses that datagrams come from
    BACKLOG,        \* datagrams that the receive buffer of the socket holds
    MAX_ANNOUNCED,  \* bound on the announcements of the host
    MAX_STRAYS,     \* bound on the datagrams that announce nothing
    MAX_FAULTS,     \* bound on the errors of the socket
    MAX_PAGES       \* bound on the pages handed over

Addresses == {Host} \cup Strangers

(* The first byte, all that is read of a datagram: 0x00, 0xFF, anything    *)
(* else, or nothing at all.                                                *)
Bytes == {"idle", "busy", "other", "empty"}

(* n numbers the announcements; 0 is none.  waited counts the reads since  *)
(* the datagram came in.                                                   *)
Datagrams == [from : Addresses, byte : Bytes, n : Nat, waited : Nat]

ASSUME LinkAssumption ==
    /\ Addresses \subseteq [family : {"v4", "v6"}, host : STRING, port : Nat]
    /\ Host \notin Strangers /\ None \notin Addresses
    /\ BACKLOG \in Nat \ {0}
    /\ MAX_ANNOUNCED \in Nat /\ MAX_STRAYS \in Nat
    /\ MAX_FAULTS \in Nat /\ MAX_PAGES \in Nat

VARIABLES
    pc,           \* where the program is
    m_addr,       \* the host's address, None when m_addrLen is zero
    m_fd,         \* "closed" (-1), "open", or "foreign": no socket any more
    m_mmdvmFree,
    backlog,      \* the datagrams in the socket, oldest first
    announced,    \* what the host has announced, TRUE for idle
    heard,        \* the last announcement that was acted upon
    lost,         \* the announcements that never will be
    strays, faults,
    handed        \* pages handed over

socketVars == <<m_addr, m_fd>>
hostVars   == <<announced, strays>>
vars == <<pc, socketVars, m_mmdvmFree, backlog, hostVars, heard, lost, faults, handed>>

Ended == {"failed", "aborted", "stopped"}

TypeOK ==
    /\ pc \in {"lookup", "open", "read", "send"} \cup Ended
    /\ m_addr \in {Host, None}
    /\ m_fd \in {"closed", "open", "foreign"}
    /\ m_mmdvmFree \in BOOLEAN
    /\ backlog \in Seq(Datagrams) /\ Len(backlog) <= BACKLOG
    /\ announced \in Seq(BOOLEAN)
    /\ heard \in 0 .. Len(announced)
    /\ lost \subseteq 1 .. Len(announced)
    /\ strays \in 0 .. MAX_STRAYS
    /\ faults \in 0 .. MAX_FAULTS
    /\ handed \in 0 .. MAX_PAGES

Init ==
    /\ pc = "lookup"
    /\ m_addr = None /\ m_fd = "closed"
    /\ m_mmdvmFree = FALSE
    /\ backlog = <<>>
    /\ announced = <<>> /\ heard = 0 /\ lost = {}
    /\ strays = 0 /\ faults = 0 /\ handed = 0

Goto(here, there) == pc = here /\ pc' = there

(* The announcements in a sequence of datagrams. *)
NumbersIn(s) == {s[i].n : i \in DOMAIN s} \ {0}

-----------------------------------------------------------------------------
(* CUDPSocket. *)

(* Mutant of match: any program on the host's machine will do. *)
match_AddressOnly(a, b) == a.family = b.family /\ a.host = b.host

(* match() with ADDRESS_AND_PORT *)
match(a, b) == a.family = b.family /\ a.host = b.host /\ a.port = b.port

(* open(): the local address has to be one of the family of the remote     *)
(* one, and free to bind; if not, the socket is closed again.              *)
Opens    == m_fd' = "open"
NotOpens == m_fd' = "closed"

(* close(): what is in the socket is gone. *)
Discards == backlog' = <<>> /\ lost' = lost \cup NumbersIn(backlog)

Fault == faults < MAX_FAULTS /\ faults' = faults + 1

-----------------------------------------------------------------------------
(* CPOCSAGNetwork::CPOCSAGNetwork and open(), from the start of run(). *)

(* Mutant of Lookup: any address that the resolver knows will do. *)
Lookup_Any ==
    /\ Goto("lookup", "open")
    /\ m_addr' \in Addresses \cup {None}
    /\ UNCHANGED <<m_fd, m_mmdvmFree, backlog, hostVars, heard, lost, faults, handed>>

Lookup ==
    /\ Goto("lookup", "open")
    /\ m_addr' \in {Host, None}
    /\ UNCHANGED <<m_fd, m_mmdvmFree, backlog, hostVars, heard, lost, faults, handed>>

Open ==
    /\ Goto("open", "read")
    /\ m_addr # None
    /\ Opens
    /\ UNCHANGED <<m_addr, m_mmdvmFree, backlog, hostVars, heard, lost, faults, handed>>

(* No address of the host, or no socket: run() returns. *)
OpenFails ==
    /\ Goto("open", "failed")
    /\ NotOpens
    /\ UNCHANGED <<m_addr, m_mmdvmFree, backlog, hostVars, heard, lost, faults, handed>>

-----------------------------------------------------------------------------
(* CPOCSAGNetwork::read and the switch in run(). *)

Older(s) == [i \in DOMAIN s |-> [s[i] EXCEPT !.waited = @ + 1]]

(* Mutant of ReadNothing: the socket need not be read while the host is    *)
(* taken for idle.                                                         *)
ReadNothing_WhileFree ==
    /\ Goto("read", "send")
    /\ (m_fd = "open" /\ (backlog = <<>> \/ m_mmdvmFree)) \/ m_fd = "foreign"
    /\ backlog' = Older(backlog)
    /\ UNCHANGED <<socketVars, m_mmdvmFree, hostVars, heard, lost, faults, handed>>

(* poll() finds nothing, or nothing in what is no socket any more. *)
ReadNothing ==
    /\ Goto("read", "send")
    /\ (m_fd = "open" /\ backlog = <<>>) \/ m_fd = "foreign"
    /\ UNCHANGED <<socketVars, m_mmdvmFree, backlog, hostVars, heard, lost, faults, handed>>

oldest == Head(backlog)

(* Mutant of Receive: the datagram is looked at and left in the socket     *)
(* unless it comes from the host.                                          *)
Receive_Peeks ==
    /\ Goto("read", "send")
    /\ m_fd = "open" /\ backlog # <<>>
    /\ backlog' = IF match(oldest.from, m_addr) THEN Older(Tail(backlog)) ELSE backlog
    /\ UNCHANGED <<socketVars, hostVars, lost, faults, handed>>

(* recvfrom() takes the oldest datagram, and only that one. *)
Receive ==
    /\ Goto("read", "send")
    /\ m_fd = "open" /\ backlog # <<>>
    /\ backlog' = Older(Tail(backlog))
    /\ UNCHANGED <<socketVars, hostVars, lost, faults, handed>>

IsStatus(d) == match(d.from, m_addr) /\ d.byte \in {"idle", "busy"}

(* 0x00 and 0xFF from the host. *)
ReadStatus ==
    /\ Receive
    /\ IsStatus(oldest)
    /\ m_mmdvmFree' = (oldest.byte = "idle")
    /\ heard' = oldest.n

(* An empty datagram, for which recvfrom() returns 0, one from another     *)
(* address, or one with another first byte.                                *)
ReadStray ==
    /\ Receive
    /\ ~IsStatus(oldest)
    /\ UNCHANGED <<m_mmdvmFree, heard>>

(* Mutant of ReadFails: the socket is emptied after an error. *)
ReadFails_Empties ==
    /\ Goto("read", "send")
    /\ m_fd = "open"
    /\ Fault
    /\ backlog' = <<>>
    /\ UNCHANGED <<socketVars, m_mmdvmFree, hostVars, heard, lost, handed>>

(* poll() or recvfrom() fails: next time again. *)
ReadFails ==
    /\ Goto("read", "send")
    /\ m_fd = "open"
    /\ Fault
    /\ backlog' = Older(backlog)
    /\ UNCHANGED <<socketVars, m_mmdvmFree, hostVars, heard, lost, handed>>

(* ENOTSOCK: close and open again, after which the socket is empty.        *)
ReadReopens ==
    /\ Goto("read", "send")
    /\ m_fd = "foreign"
    /\ Opens \/ NotOpens
    /\ UNCHANGED <<m_addr, m_mmdvmFree, backlog, hostVars, heard, lost, faults, handed>>

(* assert(m_fd >= 0) of read() or write(): the socket could not be opened  *)
(* again.                                                                  *)
Aborts(place) ==
    /\ Goto(place, "aborted")
    /\ m_fd = "closed"
    /\ UNCHANGED <<socketVars, m_mmdvmFree, backlog, hostVars, heard, lost, faults, handed>>

ReadAborts == Aborts("read")

read == ReadNothing \/ ReadStatus \/ ReadStray \/ ReadFails \/ ReadReopens

-----------------------------------------------------------------------------
(* sendMessages and the end of run(). *)

(* Mutant of SendPage: the host is not asked. *)
SendPage_Always ==
    /\ Goto("send", "read")
    /\ m_fd # "closed"
    /\ handed < MAX_PAGES /\ handed' = handed + 1
    /\ UNCHANGED <<socketVars, m_mmdvmFree, backlog, hostVars, heard, lost, faults>>

(* The queue, the schedule and the slot permit it: see DAPNETGateway.      *)
(* Whether sendto() fails or the datagram is lost makes no difference.     *)
SendPage ==
    /\ Goto("send", "read")
    /\ m_mmdvmFree /\ m_fd # "closed"
    /\ handed < MAX_PAGES /\ handed' = handed + 1
    /\ UNCHANGED <<socketVars, m_mmdvmFree, backlog, hostVars, heard, lost, faults>>

SendAborts == m_mmdvmFree /\ Aborts("send")

SendNothing ==
    /\ Goto("send", "read")
    /\ UNCHANGED <<socketVars, m_mmdvmFree, backlog, hostVars, heard, lost, faults, handed>>

(* m_killed is set. *)
Close ==
    /\ Goto("read", "stopped")
    /\ NotOpens /\ Discards
    /\ UNCHANGED <<m_addr, m_mmdvmFree, hostVars, heard, faults, handed>>

Terminated == pc \in Ended /\ UNCHANGED vars

-----------------------------------------------------------------------------
(* The host, other senders and the system: external. *)

Arrives(d) ==
    /\ m_fd = "open" /\ Len(backlog) < BACKLOG
    /\ backlog' = Append(backlog, d)

Datagram(from, byte, n) == [from |-> from, byte |-> byte, n |-> n, waited |-> 0]

Status(free) == IF free THEN "idle" ELSE "busy"

(* The host announces its status, when it changes and perhaps more often.  *)
Announce(free) ==
    LET n == Len(announced) + 1
    IN  /\ n <= MAX_ANNOUNCED
        /\ announced' = Append(announced, free)
        /\ \/ Arrives(Datagram(Host, Status(free), n)) /\ UNCHANGED lost
           \/ lost' = lost \cup {n} /\ UNCHANGED backlog
        /\ UNCHANGED <<pc, socketVars, m_mmdvmFree, strays, heard, faults, handed>>

(* Anything from another address, or from the host without a status.       *)
Stray(from, byte) ==
    /\ from = Host => byte \in {"other", "empty"}
    /\ strays < MAX_STRAYS /\ strays' = strays + 1
    /\ Arrives(Datagram(from, byte, 0))
    /\ UNCHANGED <<pc, socketVars, m_mmdvmFree, announced, heard, lost, faults, handed>>

(* m_fd is closed behind the back of CUDPSocket and its number given to    *)
(* something else.  This program does not do it; read() provides for it.   *)
Seize ==
    /\ m_fd = "open" /\ m_fd' = "foreign"
    /\ Fault /\ Discards
    /\ UNCHANGED <<pc, m_addr, m_mmdvmFree, hostVars, heard, handed>>

Network ==
    \/ \E free \in BOOLEAN : Announce(free)
    \/ \E from \in Addresses, byte \in Bytes : Stray(from, byte)
    \/ Seize

-----------------------------------------------------------------------------
Turn == read \/ ReadAborts \/ SendAborts \/ SendPage \/ SendNothing

Next == Lookup \/ Open \/ OpenFails \/ Turn \/ Close \/ Network \/ Terminated

Spec == Init /\ [][Next]_vars

(* No call in a turn of the loop blocks for ever, and what recover() waits *)
(* for comes in the end (see DAPNETGateway).                               *)
FairSpec == Spec /\ WF_vars(Turn)

-----------------------------------------------------------------------------
(* Safety. *)

Waiting == NumbersIn(backlog)

(* The gateway acts upon what the host has announced, never on anybody     *)
(* else's word, and never goes back to an older status, whatever is lost,  *)
(* comes from elsewhere or has to be opened again: see StatusFeed.         *)
Feed == INSTANCE StatusFeed WITH acting <- m_mmdvmFree

StatusIsHosts == Feed!Spec

(* No announcement after the last one heard gets lost inside the gateway:  *)
(* while the socket is open each still waits in it, unless UDP, a full     *)
(* buffer or the end of the socket has taken it.                           *)
NothingForgotten ==
    \A n \in heard + 1 .. Len(announced) : n \in lost \cup Waiting

(* However long a turn is held up, a status is acted upon after at most as *)
(* many reads as the buffer holds datagrams, and one for each error.       *)
NewsInTime ==
    \A i \in DOMAIN backlog : backlog[i].waited + i <= BACKLOG + faults

hostFree == announced # <<>> /\ announced[Len(announced)]

(* A page is handed to a busy host only if the news that it is busy still  *)
(* waits behind older ones, one a turn, or never came.                     *)
BusyHostIsSpared ==
    [][ handed' # handed /\ ~hostFree
        => \E n \in lost \cup Waiting : n > heard /\ ~announced[n] ]_vars

-----------------------------------------------------------------------------
(* Liveness: every announcement that has reached the socket is acted upon, *)
(* or a later one is, unless the socket ends first.                        *)
NewsArrives ==
    \A n \in 1 .. MAX_ANNOUNCED :
        n \in Waiting ~> heard >= n \/ n \in lost
=============================================================================
