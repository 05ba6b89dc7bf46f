--------------------------- MODULE HostLinkProofs ---------------------------
(***************************************************************************)
(* The safety properties of HostLink, for any buffer, any number of        *)
(* announcements, strays and faults, and any other senders.                *)
(***************************************************************************)
EXTENDS HostLink, CountDown, Integers, TLAPS

(* A socket exists only for an address that was found, and only an open    *)
(* one holds datagrams.                                                    *)
SocketConnected ==
    /\ pc \in {"lookup", "open"} => m_fd = "closed"
    /\ m_fd # "closed" => m_addr = Host
    /\ m_fd # "open" => backlog = <<>>

(* A numbered datagram is the host's, says what was announced, and is news *)
(* still; one without a number is no status of the host's.                 *)
GenuineFor(d, done, said) ==
    IF d.n = 0 THEN d.from = Host => d.byte \notin {"idle", "busy"}
    ELSE /\ d.n \in done + 1 .. Len(said)
         /\ d.from = Host
         /\ d.byte = Status(said[d.n])

Genuine(d) == GenuineFor(d, heard, announced)

AllGenuine == \A i \in DOMAIN backlog : Genuine(backlog[i])

(* What is in the socket has not overtaken anything. *)
InTurn ==
    \A i, j \in DOMAIN backlog :
        i < j /\ backlog[i].n # 0 /\ backlog[j].n # 0 => backlog[i].n < backlog[j].n

ActsOnHeard == m_mmdvmFree = (heard # 0 /\ announced[heard])

LinkInv ==
    /\ TypeOK /\ SocketConnected
    /\ AllGenuine /\ InTurn /\ ActsOnHeard
    /\ NothingForgotten /\ NewsInTime

-----------------------------------------------------------------------------
(* What the changes of the buffer do to it. *)

LEMMA HeadAndTail ==
    ASSUME NEW s \in Seq(Datagrams), s # <<>>
    PROVE  /\ Head(s) \in Datagrams /\ Head(s) = s[1]
           /\ Tail(s) \in Seq(Datagrams) /\ Len(Tail(s)) = Len(s) - 1
           /\ \A i \in DOMAIN Tail(s) : i + 1 \in DOMAIN s /\ Tail(s)[i] = s[i + 1]
           /\ \A i \in DOMAIN s : i = 1 \/ (i - 1 \in DOMAIN Tail(s) /\ Tail(s)[i - 1] = s[i])
           /\ 1 \in DOMAIN s
    OBVIOUS

LEMMA OlderKeeps ==
    ASSUME NEW s \in Seq(Datagrams)
    PROVE  /\ Older(s) \in Seq(Datagrams) /\ Len(Older(s)) = Len(s)
           /\ DOMAIN Older(s) = DOMAIN s
           /\ \A i \in DOMAIN s :
                 /\ Older(s)[i].n = s[i].n /\ Older(s)[i].from = s[i].from
                 /\ Older(s)[i].byte = s[i].byte
                 /\ Older(s)[i].waited = s[i].waited + 1
<1>1. ASSUME NEW i \in DOMAIN s PROVE s[i] \in Datagrams
    BY <1>1
<1>2. ASSUME NEW i \in DOMAIN s
      PROVE  /\ Older(s)[i] = [s[i] EXCEPT !.waited = s[i].waited + 1]
             /\ Older(s)[i] \in Datagrams
  <2>1. Older(s)[i] = [s[i] EXCEPT !.waited = s[i].waited + 1]
      BY DEF Older
  <2>2. s[i] \in [from : Addresses, byte : Bytes, n : Nat, waited : Nat]
      BY <1>1 DEF Datagrams
  <2>3. [s[i] EXCEPT !.waited = s[i].waited + 1]
            \in [from : Addresses, byte : Bytes, n : Nat, waited : Nat]
      BY <2>2
  <2> QED
      BY <2>1, <2>3 DEF Datagrams
<1>3. DOMAIN Older(s) = 1 .. Len(s)
    BY DEF Older
<1>4. Older(s) \in Seq(Datagrams) /\ Len(Older(s)) = Len(s)
  <2>1. Older(s) \in [1 .. Len(s) -> Datagrams]
      BY <1>2, <1>3 DEF Older
  <2> QED
      BY <2>1
<1>5. ASSUME NEW i \in DOMAIN s
      PROVE  /\ Older(s)[i].n = s[i].n /\ Older(s)[i].from = s[i].from
             /\ Older(s)[i].byte = s[i].byte
             /\ Older(s)[i].waited = s[i].waited + 1
    BY <1>1, <1>2 DEF Datagrams
<1> QED
    BY <1>3, <1>4, <1>5

LEMMA NumbersOfOlder ==
    ASSUME NEW s \in Seq(Datagrams)
    PROVE  NumbersIn(Older(s)) = NumbersIn(s)
BY OlderKeeps DEF NumbersIn

LEMMA NumbersOfTail ==
    ASSUME NEW s \in Seq(Datagrams), s # <<>>
    PROVE  NumbersIn(s) = NumbersIn(Tail(s)) \cup ({Head(s).n} \ {0})
<1>1. ASSUME NEW k \in NumbersIn(s) PROVE k \in NumbersIn(Tail(s)) \cup ({Head(s).n} \ {0})
  <2>1. PICK i \in DOMAIN s : k = s[i].n
      BY <1>1 DEF NumbersIn
  <2>2. k # 0
      BY <1>1 DEF NumbersIn
  <2> QED
      BY <2>1, <2>2, HeadAndTail DEF NumbersIn
<1>2. ASSUME NEW k \in NumbersIn(Tail(s)) PROVE k \in NumbersIn(s)
  <2>1. PICK i \in DOMAIN Tail(s) : k = Tail(s)[i].n
      BY <1>2 DEF NumbersIn
  <2>2. k # 0 /\ i + 1 \in DOMAIN s /\ k = s[i + 1].n
      BY <1>2, <2>1, HeadAndTail DEF NumbersIn
  <2> QED
      BY <2>2 DEF NumbersIn
<1>3. {Head(s).n} \ {0} \subseteq NumbersIn(s)
    BY HeadAndTail DEF NumbersIn
<1> QED
    BY <1>1, <1>2, <1>3

LEMMA Appended ==
    ASSUME NEW s \in Seq(Datagrams), NEW d \in Datagrams
    PROVE  /\ Append(s, d) \in Seq(Datagrams) /\ Len(Append(s, d)) = Len(s) + 1
           /\ \A i \in DOMAIN s : i \in DOMAIN Append(s, d) /\ Append(s, d)[i] = s[i]
           /\ Append(s, d)[Len(s) + 1] = d /\ Len(s) + 1 \in DOMAIN Append(s, d)
           /\ \A i \in DOMAIN Append(s, d) : i \in DOMAIN s \/ i = Len(s) + 1
           /\ \A i \in DOMAIN s : i \in 1 .. Len(s)
    OBVIOUS

LEMMA NumbersOfAppend ==
    ASSUME NEW s \in Seq(Datagrams), NEW d \in Datagrams
    PROVE  NumbersIn(Append(s, d)) = NumbersIn(s) \cup ({d.n} \ {0})
<1>1. ASSUME NEW k \in NumbersIn(Append(s, d)) PROVE k \in NumbersIn(s) \cup ({d.n} \ {0})
  <2>1. PICK i \in DOMAIN Append(s, d) : k = Append(s, d)[i].n
      BY <1>1 DEF NumbersIn
  <2>2. k # 0
      BY <1>1 DEF NumbersIn
  <2> QED
      BY <2>1, <2>2, Appended DEF NumbersIn
<1>2. ASSUME NEW k \in NumbersIn(s) PROVE k \in NumbersIn(Append(s, d))
  <2>1. PICK i \in DOMAIN s : k = s[i].n
      BY <1>2 DEF NumbersIn
  <2>2. k # 0 /\ i \in DOMAIN Append(s, d) /\ k = Append(s, d)[i].n
      BY <1>2, <2>1, Appended DEF NumbersIn
  <2> QED
      BY <2>2 DEF NumbersIn
<1>3. {d.n} \ {0} \subseteq NumbersIn(Append(s, d))
    BY Appended DEF NumbersIn
<1> QED
    BY <1>1, <1>2, <1>3

LEMMA NumbersOfEmpty == NumbersIn(<<>>) = {}
BY DEF NumbersIn

(* match() tells the host from every other sender. *)
LEMMA MatchIsHost ==
    ASSUME NEW a \in Addresses
    PROVE  match(a, Host) <=> a = Host
<1> USE LinkAssumption DEF LinkAssumption
<1>1. a \in [family : {"v4", "v6"}, host : STRING, port : Nat] /\
      Host \in [family : {"v4", "v6"}, host : STRING, port : Nat]
    BY DEF Addresses
<1> QED
    BY <1>1 DEF match
-----------------------------------------------------------------------------
(* What a step can do to the buffer and to what it is compared with.       *)

Rest == <<m_mmdvmFree, announced, heard>>

Kept    == UNCHANGED <<Rest, backlog, lost, faults>>
Aged    == backlog' = Older(backlog) /\ faults' = faults + 1 /\ UNCHANGED <<Rest, lost>>
Emptied == /\ backlog' = <<>> /\ lost' = lost \cup NumbersIn(backlog)
           /\ faults' \in {faults, faults + 1} /\ UNCHANGED Rest
Taken   == /\ backlog # <<>> /\ backlog' = Older(Tail(backlog))
           /\ UNCHANGED <<announced, lost, faults>>
Heard   == /\ Taken /\ Head(backlog).n # 0
           /\ heard' = Head(backlog).n /\ m_mmdvmFree' = (Head(backlog).byte = "idle")
Skipped == Taken /\ Head(backlog).n = 0 /\ UNCHANGED <<m_mmdvmFree, heard>>

Comes(d) ==
    /\ Len(backlog) < BACKLOG /\ backlog' = Append(backlog, d)
    /\ d \in Datagrams /\ d.waited = 0
    /\ UNCHANGED <<lost, faults, heard, m_mmdvmFree>>
Strayed   == \E d \in Datagrams : Comes(d) /\ d.n = 0 /\ Genuine(d) /\ UNCHANGED announced
Announced(free) ==
    /\ announced' = Append(announced, free)
    /\ \/ Comes(Datagram(Host, Status(free), Len(announced) + 1))
       \/ /\ lost' = lost \cup {Len(announced) + 1}
          /\ UNCHANGED <<backlog, faults, heard, m_mmdvmFree>>

BufferStep ==
    \/ Kept \/ Aged \/ Emptied \/ Heard \/ Skipped \/ Strayed
    \/ \E free \in BOOLEAN : Announced(free)

LEMMA HeadIsStatus ==
    ASSUME LinkInv, m_fd = "open", backlog # <<>>
    PROVE  IsStatus(Head(backlog)) <=> Head(backlog).n # 0
<1>1. backlog \in Seq(Datagrams) /\ m_addr = Host /\ AllGenuine
    BY DEF LinkInv, TypeOK, SocketConnected
<1>2. Head(backlog) \in Datagrams /\ Genuine(Head(backlog))
    BY <1>1, HeadAndTail DEF AllGenuine
<1>3. Head(backlog).from \in Addresses
    BY <1>2 DEF Datagrams
<1>4. match(Head(backlog).from, m_addr) <=> Head(backlog).from = Host
    BY <1>1, <1>3, MatchIsHost
<1> QED
    BY <1>2, <1>4 DEF Genuine, GenuineFor, IsStatus, Status

LEMMA EveryBufferStep ==
    ASSUME LinkInv, [Next]_vars
    PROVE  BufferStep
<1>0. TypeOK /\ SocketConnected
    BY DEF LinkInv
<1>1. CASE Lookup \/ Open \/ OpenFails \/ ReadAborts \/ SendAborts \/ SendPage \/ SendNothing
           \/ ReadNothing \/ ReadReopens \/ UNCHANGED vars
    BY <1>1 DEF Lookup, Open, OpenFails, ReadAborts, SendAborts, Aborts, SendPage,
        SendNothing, ReadNothing,
        ReadReopens, vars, socketVars, hostVars, BufferStep, Kept, Rest
<1>2. CASE Close \/ Seize
    BY <1>2 DEF Close, Seize, Discards, Fault, socketVars, hostVars, BufferStep, Emptied, Rest
<1>3. CASE ReadStatus \/ ReadStray
    BY <1>3, HeadIsStatus DEF ReadStatus, ReadStray, Receive, oldest, socketVars, hostVars,
        BufferStep, Taken, Heard, Skipped
<1>4. CASE ReadFails
    BY <1>4 DEF ReadFails, Fault, hostVars, BufferStep, Aged, Rest
<1>5. CASE \E from \in Addresses, byte \in Bytes : Stray(from, byte)
  <2>1. PICK from \in Addresses, byte \in Bytes : Stray(from, byte)
      BY <1>5
  <2>2. Datagram(from, byte, 0) \in Datagrams
      BY DEF Datagram, Datagrams
  <2>3. Comes(Datagram(from, byte, 0)) /\ UNCHANGED announced
      BY <2>1, <2>2 DEF Stray, Arrives, Comes, Datagram
  <2>4. Genuine(Datagram(from, byte, 0))
      BY <2>1 DEF Stray, Datagram, Genuine, GenuineFor
  <2>5. Datagram(from, byte, 0).n = 0
      BY DEF Datagram
  <2>6. Strayed
      BY <2>2, <2>3, <2>4, <2>5 DEF Strayed
  <2> QED
      BY <2>6 DEF BufferStep
<1>6. CASE \E free \in BOOLEAN : Announce(free)
  <2>1. PICK free \in BOOLEAN : Announce(free)
      BY <1>6
  <2>2. Datagram(Host, Status(free), Len(announced) + 1) \in Datagrams
      BY <1>0 DEF Datagram, Datagrams, Addresses, Status, Bytes, TypeOK
  <2>3. Announced(free)
      BY <2>1, <2>2 DEF Announce, Announced, Arrives, Comes, Datagram
  <2> QED
      BY <2>3 DEF BufferStep
<1> QED
    BY <1>1, <1>2, <1>3, <1>4, <1>5, <1>6 DEF Next, Turn, read, Network, Terminated

-----------------------------------------------------------------------------
(* The invariant. *)

LEMMA LinkInvInit == Init => LinkInv
<1> SUFFICES ASSUME Init PROVE LinkInv
    OBVIOUS
<1> USE LinkAssumption DEF LinkAssumption, Init
<1>0. <<>> \in Seq(Datagrams) /\ <<>> \in Seq(BOOLEAN) /\ Len(<<>>) = 0
    OBVIOUS
<1>1. TypeOK
  <2>1. heard \in 0 .. Len(announced) /\ Len(backlog) <= BACKLOG
      BY <1>0
  <2>2. strays \in 0 .. MAX_STRAYS /\ faults \in 0 .. MAX_FAULTS /\ handed \in 0 .. MAX_PAGES
      OBVIOUS
  <2> QED
      BY <1>0, <2>1, <2>2 DEF TypeOK
<1>2. SocketConnected /\ AllGenuine /\ InTurn
    BY DEF SocketConnected, AllGenuine, InTurn
<1>4. ActsOnHeard
    BY Zenon DEF ActsOnHeard
<1>3. NothingForgotten /\ NewsInTime
    BY <1>0 DEF NothingForgotten, NewsInTime
<1> QED
    BY <1>1, <1>2, <1>3, <1>4 DEF LinkInv

(* The numbers in the buffer are of announcements not yet heard. *)
LEMMA NumbersAreNews ==
    ASSUME LinkInv
    PROVE  NumbersIn(backlog) \subseteq heard + 1 .. Len(announced)
<1>1. ASSUME NEW k \in NumbersIn(backlog) PROVE k \in heard + 1 .. Len(announced)
  <2>1. PICK i \in DOMAIN backlog : k = backlog[i].n
      BY <1>1 DEF NumbersIn
  <2>2. k # 0
      BY <1>1 DEF NumbersIn
  <2> QED
      BY <2>1, <2>2 DEF LinkInv, AllGenuine, Genuine, GenuineFor
<1> QED
    BY <1>1

LEMMA BufferType ==
    ASSUME LinkInv, [Next]_vars
    PROVE  /\ backlog' \in Seq(Datagrams) /\ Len(backlog') <= BACKLOG
           /\ announced' \in Seq(BOOLEAN)
           /\ heard' \in 0 .. Len(announced') /\ m_mmdvmFree' \in BOOLEAN
           /\ lost' \subseteq 1 .. Len(announced')
<1> USE LinkAssumption DEF LinkAssumption
<1>0. /\ backlog \in Seq(Datagrams) /\ Len(backlog) <= BACKLOG
      /\ announced \in Seq(BOOLEAN) /\ heard \in 0 .. Len(announced)
      /\ m_mmdvmFree \in BOOLEAN /\ lost \subseteq 1 .. Len(announced)
    BY DEF LinkInv, TypeOK
<1>1. BufferStep
    BY EveryBufferStep
<1>2. CASE Kept
    BY <1>0, <1>2 DEF Kept, Rest
<1>3. CASE Aged
    BY <1>0, <1>3, OlderKeeps DEF Aged, Rest
<1>4. CASE Emptied
  <2>1. NumbersIn(backlog) \subseteq 1 .. Len(announced)
      BY <1>0, NumbersAreNews
  <2>2. <<>> \in Seq(Datagrams) /\ Len(<<>>) = 0
      OBVIOUS
  <2>3. lost' \subseteq 1 .. Len(announced)
      BY <1>0, <1>4, <2>1 DEF Emptied
  <2> QED
      BY <1>0, <1>4, <2>2, <2>3 DEF Emptied, Rest
<1>5. CASE Heard \/ Skipped
  <2>0. Tail(backlog) \in Seq(Datagrams) /\ Len(Tail(backlog)) = Len(backlog) - 1
      BY <1>0, <1>5, HeadAndTail DEF Heard, Skipped, Taken
  <2>1. backlog' \in Seq(Datagrams) /\ Len(backlog') <= BACKLOG
    <3>1. /\ Older(Tail(backlog)) \in Seq(Datagrams)
          /\ Len(Older(Tail(backlog))) = Len(Tail(backlog))
        BY <2>0, OlderKeeps
    <3>2. backlog' = Older(Tail(backlog))
        BY <1>5 DEF Heard, Skipped, Taken
    <3>3. Len(Tail(backlog)) <= BACKLOG
        BY <1>0, <2>0
    <3> QED
        BY <3>1, <3>2, <3>3
  <2>2. Genuine(Head(backlog)) /\ Head(backlog) \in Datagrams
      BY <1>0, <1>5, HeadAndTail DEF LinkInv, AllGenuine, Heard, Skipped, Taken
  <2>3. heard' \in 0 .. Len(announced)
      BY <1>0, <1>5, <2>2 DEF Heard, Skipped, Genuine, GenuineFor
  <2>4. m_mmdvmFree' \in BOOLEAN
    <3>1. (Head(backlog).byte = "idle") \in BOOLEAN
        BY Zenon
    <3>2. CASE Skipped
        BY <1>0, <3>2 DEF Skipped
    <3>3. CASE Heard
        BY <3>1, <3>3, Zenon DEF Heard
    <3> QED
        BY <1>5, <3>2, <3>3, Zenon
  <2> QED
      BY <1>0, <1>5, <2>1, <2>3, <2>4 DEF Heard, Skipped, Taken
<1>6. CASE Strayed
    BY <1>0, <1>6, Appended DEF Strayed, Comes
<1>7. ASSUME NEW free \in BOOLEAN, Announced(free)
      PROVE  /\ backlog' \in Seq(Datagrams) /\ Len(backlog') <= BACKLOG
             /\ announced' \in Seq(BOOLEAN)
             /\ heard' \in 0 .. Len(announced') /\ m_mmdvmFree' \in BOOLEAN
             /\ lost' \subseteq 1 .. Len(announced')
  <2>1. announced' \in Seq(BOOLEAN) /\ Len(announced') = Len(announced) + 1
      BY <1>0, <1>7 DEF Announced
  <2>2. backlog' \in Seq(Datagrams) /\ Len(backlog') <= BACKLOG
      BY <1>0, <1>7, Appended DEF Announced, Comes
  <2>3. UNCHANGED <<heard, m_mmdvmFree>>
      BY <1>7 DEF Announced, Comes
  <2>4. lost' \subseteq lost \cup {Len(announced) + 1}
      BY <1>7 DEF Announced, Comes
  <2> QED
      BY <1>0, <2>1, <2>2, <2>3, <2>4
<1> QED
    BY <1>1, <1>2, <1>3, <1>4, <1>5, <1>6, <1>7 DEF BufferStep

LEMMA TypeStep ==
    ASSUME LinkInv, [Next]_vars
    PROVE  TypeOK' /\ SocketConnected'
<1> USE LinkAssumption DEF LinkAssumption
<1>0. TypeOK /\ SocketConnected
    BY DEF LinkInv
<1>1. /\ backlog' \in Seq(Datagrams) /\ Len(backlog') <= BACKLOG
      /\ announced' \in Seq(BOOLEAN)
      /\ heard' \in 0 .. Len(announced') /\ m_mmdvmFree' \in BOOLEAN
      /\ lost' \subseteq 1 .. Len(announced')
    BY BufferType
<1>2. CASE Lookup \/ Open \/ OpenFails \/ ReadAborts \/ SendAborts \/ SendPage \/ SendNothing
           \/ ReadNothing \/ ReadReopens \/ UNCHANGED vars
    BY <1>0, <1>1, <1>2 DEF Lookup, Open, OpenFails, ReadAborts, SendAborts, Aborts,
        SendPage, SendNothing,
        ReadNothing, ReadReopens, Goto, Opens, NotOpens, TypeOK, SocketConnected, Ended,
        vars, socketVars, hostVars
<1>3. CASE Close
    BY <1>0, <1>1, <1>3 DEF Close, Goto, NotOpens, Discards, TypeOK, SocketConnected,
        Ended, hostVars
<1>4. CASE ReadStatus \/ ReadStray
    BY <1>0, <1>1, <1>4 DEF ReadStatus, ReadStray, Receive, Goto, TypeOK, SocketConnected,
        socketVars, hostVars
<1>5. CASE ReadFails
    BY <1>0, <1>1, <1>5 DEF ReadFails, Fault, Goto, TypeOK, SocketConnected,
        socketVars, hostVars
<1>6. CASE Network
  <2>1. UNCHANGED <<pc, m_addr, handed>>
      BY <1>6 DEF Network, Announce, Stray, Seize, socketVars
  <2>2. strays' \in 0 .. MAX_STRAYS /\ faults' \in 0 .. MAX_FAULTS
      BY <1>0, <1>6 DEF Network, Announce, Stray, Seize, Fault, TypeOK, hostVars
  <2>3. \/ m_fd' = m_fd /\ (m_fd # "open" => backlog' = backlog)
        \/ m_fd = "open" /\ m_fd' = "foreign" /\ backlog' = <<>>
      BY <1>6 DEF Network, Announce, Stray, Seize, Discards, Arrives, socketVars
  <2> QED
      BY <1>0, <1>1, <2>1, <2>2, <2>3 DEF TypeOK, SocketConnected
<1> QED
    BY <1>2, <1>3, <1>4, <1>5, <1>6 DEF Next, Turn, read, Terminated

(* A datagram that stays in the socket moves up and keeps what it says. *)
LEMMA TakenMovesUp ==
    ASSUME backlog \in Seq(Datagrams), Taken
    PROVE  \A i \in DOMAIN backlog' :
              /\ i + 1 \in DOMAIN backlog
              /\ backlog'[i].n = backlog[i + 1].n /\ backlog'[i].from = backlog[i + 1].from
              /\ backlog'[i].byte = backlog[i + 1].byte
              /\ backlog'[i].waited = backlog[i + 1].waited + 1
<1>1. /\ backlog # <<>> /\ Tail(backlog) \in Seq(Datagrams)
      /\ \A i \in DOMAIN Tail(backlog) :
            i + 1 \in DOMAIN backlog /\ Tail(backlog)[i] = backlog[i + 1]
    BY HeadAndTail DEF Taken
<1>2. backlog' = Older(Tail(backlog))
    BY DEF Taken
<1>3. /\ DOMAIN Older(Tail(backlog)) = DOMAIN Tail(backlog)
      /\ \A i \in DOMAIN Tail(backlog) :
            /\ Older(Tail(backlog))[i].n = Tail(backlog)[i].n
            /\ Older(Tail(backlog))[i].from = Tail(backlog)[i].from
            /\ Older(Tail(backlog))[i].byte = Tail(backlog)[i].byte
            /\ Older(Tail(backlog))[i].waited = Tail(backlog)[i].waited + 1
    BY <1>1, OlderKeeps
<1> QED
    BY <1>1, <1>2, <1>3

(* With an announcement to come nothing said before changes. *)
LEMMA AnnouncedKeeps ==
    ASSUME announced \in Seq(BOOLEAN), NEW free \in BOOLEAN, Announced(free)
    PROVE  /\ Len(announced') = Len(announced) + 1
           /\ \A n \in 1 .. Len(announced) : announced'[n] = announced[n]
           /\ announced'[Len(announced) + 1] = free
BY DEF Announced

LEMMA GenuineStep ==
    ASSUME LinkInv, [Next]_vars
    PROVE  AllGenuine'
<1>0. /\ backlog \in Seq(Datagrams) /\ announced \in Seq(BOOLEAN)
      /\ heard \in 0 .. Len(announced) /\ AllGenuine /\ InTurn
    BY DEF LinkInv, TypeOK
<1>1. BufferStep
    BY EveryBufferStep
<1>2. CASE Kept
    BY <1>0, <1>2 DEF Kept, Rest, AllGenuine, Genuine, GenuineFor
<1>3. CASE Aged
  <2>1. DOMAIN backlog' = DOMAIN backlog /\ UNCHANGED <<announced, heard>>
      BY <1>0, <1>3, OlderKeeps DEF Aged, Rest
  <2>2. \A i \in DOMAIN backlog :
            /\ backlog'[i].n = backlog[i].n /\ backlog'[i].from = backlog[i].from
            /\ backlog'[i].byte = backlog[i].byte
      BY <1>0, <1>3, OlderKeeps DEF Aged
  <2> QED
      BY <1>0, <2>1, <2>2 DEF AllGenuine, Genuine, GenuineFor
<1>4. CASE Emptied
    BY <1>4 DEF Emptied, AllGenuine
<1>5. CASE Skipped
  <2>1. Taken /\ UNCHANGED <<heard, announced>>
      BY <1>5 DEF Skipped, Taken
  <2> QED
      BY <1>0, <2>1, TakenMovesUp DEF AllGenuine, Genuine, GenuineFor
<1>6. CASE Heard
  <2>1. Taken /\ heard' = backlog[1].n /\ announced' = announced /\ backlog[1].n # 0
      BY <1>0, <1>6, HeadAndTail DEF Heard, Taken
  <2>2. SUFFICES ASSUME NEW i \in DOMAIN backlog'
                 PROVE  GenuineFor(backlog'[i], heard', announced')
      BY DEF AllGenuine, Genuine
  <2>3. i + 1 \in DOMAIN backlog /\ GenuineFor(backlog[i + 1], heard, announced)
      BY <1>0, <2>1, <2>2, TakenMovesUp DEF AllGenuine, Genuine
  <2>4. 1 \in DOMAIN backlog /\ i \in Nat \ {0} /\ backlog[1].n \in Nat
      BY <1>0, <2>1, <2>2, BufferType, HeadAndTail DEF Taken, Datagrams
  <2>5. backlog[i + 1].n # 0 => backlog[1].n < backlog[i + 1].n
      BY <1>0, <2>1, <2>3, <2>4 DEF InTurn
  <2>6. /\ backlog'[i].n = backlog[i + 1].n /\ backlog'[i].from = backlog[i + 1].from
        /\ backlog'[i].byte = backlog[i + 1].byte
      BY <1>0, <2>1, <2>2, TakenMovesUp
  <2> QED
      BY <1>0, <2>1, <2>3, <2>4, <2>5, <2>6 DEF GenuineFor
<1>7. CASE Strayed
  <2>1. PICK d \in Datagrams : Comes(d) /\ d.n = 0 /\ Genuine(d) /\ UNCHANGED announced
      BY <1>7 DEF Strayed
  <2> QED
      BY <1>0, <2>1, Appended DEF Comes, AllGenuine, Genuine, GenuineFor
<1>8. ASSUME NEW free \in BOOLEAN, Announced(free) PROVE AllGenuine'
  <2>1. /\ Len(announced') = Len(announced) + 1 /\ heard' = heard
        /\ \A n \in 1 .. Len(announced) : announced'[n] = announced[n]
        /\ announced'[Len(announced) + 1] = free
      BY <1>0, <1>8, AnnouncedKeeps DEF Announced, Comes
  <2>2. ASSUME NEW d, GenuineFor(d, heard, announced) PROVE GenuineFor(d, heard', announced')
      BY <1>0, <2>1, <2>2 DEF GenuineFor
  <2>3. CASE backlog' = backlog
      BY <1>0, <2>2, <2>3 DEF AllGenuine, Genuine
  <2> DEFINE new == Datagram(Host, Status(free), Len(announced) + 1)
  <2>4. CASE Comes(new)
    <3>1. GenuineFor(new, heard', announced')
        BY <1>0, <2>1 DEF GenuineFor, Datagram
    <3>2. new \in Datagrams /\ backlog' = Append(backlog, new)
        BY <2>4 DEF Comes
    <3> HIDE DEF new
    <3> QED
        BY <1>0, <2>2, <3>1, <3>2, Appended DEF AllGenuine, Genuine
  <2> QED
      BY <1>8, <2>3, <2>4 DEF Announced
<1> QED
    BY <1>1, <1>2, <1>3, <1>4, <1>5, <1>6, <1>7, <1>8 DEF BufferStep

LEMMA InTurnStep ==
    ASSUME LinkInv, [Next]_vars
    PROVE  InTurn'
<1>0. /\ backlog \in Seq(Datagrams) /\ announced \in Seq(BOOLEAN)
      /\ AllGenuine /\ InTurn
    BY DEF LinkInv, TypeOK
<1>1. BufferStep
    BY EveryBufferStep
<1>2. CASE Kept
    BY <1>0, <1>2 DEF Kept, InTurn
<1>3. CASE Aged
    BY <1>0, <1>3, OlderKeeps DEF Aged, InTurn
<1>4. CASE Emptied
    BY <1>4 DEF Emptied, InTurn
<1>5. CASE Heard \/ Skipped
  <2>1. Taken
      BY <1>5 DEF Heard, Skipped
  <2> SUFFICES ASSUME NEW i \in DOMAIN backlog', NEW j \in DOMAIN backlog', i < j,
                      backlog'[i].n # 0, backlog'[j].n # 0
               PROVE  backlog'[i].n < backlog'[j].n
      BY DEF InTurn
  <2>2. DOMAIN backlog' \subseteq Nat
      BY BufferType
  <2>3. /\ i + 1 \in DOMAIN backlog /\ backlog'[i].n = backlog[i + 1].n
        /\ j + 1 \in DOMAIN backlog /\ backlog'[j].n = backlog[j + 1].n
      BY <1>0, <2>1, TakenMovesUp
  <2>4. i + 1 < j + 1
      BY <2>2
  <2> QED
      BY <1>0, <2>3, <2>4 DEF InTurn
<1>6. CASE Strayed
  <2>1. PICK d \in Datagrams : Comes(d) /\ d.n = 0
      BY <1>6 DEF Strayed
  <2> QED
      BY <1>0, <2>1, Appended DEF Comes, InTurn
<1>7. ASSUME NEW free \in BOOLEAN, Announced(free) PROVE InTurn'
  <2> DEFINE new == Datagram(Host, Status(free), Len(announced) + 1)
  <2>1. CASE backlog' = backlog
      BY <1>0, <2>1 DEF InTurn
  <2>2. CASE Comes(new)
    <3>1. new.n = Len(announced) + 1 /\ Len(announced) \in Nat
        BY <1>0 DEF Datagram
    <3>2. new \in Datagrams /\ backlog' = Append(backlog, new)
        BY <2>2 DEF Comes
    <3>3. \A i \in DOMAIN backlog : backlog[i].n # 0 => backlog[i].n < new.n
        BY <1>0, <3>1 DEF AllGenuine, Genuine, GenuineFor
    <3> HIDE DEF new
    <3> QED
        BY <1>0, <3>2, <3>3, Appended DEF InTurn
  <2> QED
      BY <1>7, <2>1, <2>2 DEF Announced
<1> QED
    BY <1>1, <1>2, <1>3, <1>4, <1>5, <1>6, <1>7 DEF BufferStep

LEMMA ActsStep ==
    ASSUME LinkInv, [Next]_vars
    PROVE  ActsOnHeard'
<1>0. /\ backlog \in Seq(Datagrams) /\ announced \in Seq(BOOLEAN)
      /\ heard \in 0 .. Len(announced) /\ AllGenuine /\ ActsOnHeard
    BY DEF LinkInv, TypeOK
<1>1. BufferStep
    BY EveryBufferStep
<1>2. CASE Kept \/ Aged \/ Emptied \/ Skipped \/ Strayed
  <2>1. UNCHANGED <<m_mmdvmFree, announced, heard>>
      BY <1>2 DEF Kept, Aged, Emptied, Skipped, Taken, Strayed, Comes, Rest
  <2> QED
      BY <1>0, <2>1, Zenon DEF ActsOnHeard
<1>3. CASE Heard
  <2>1. Genuine(Head(backlog)) /\ Head(backlog).n # 0 /\ announced' = announced
      BY <1>0, <1>3, HeadAndTail DEF Heard, Taken, AllGenuine
  <2>2. announced[Head(backlog).n] \in BOOLEAN
      BY <1>0, <2>1 DEF Genuine, GenuineFor
  <2>3. Head(backlog).byte = "idle" <=> announced[Head(backlog).n]
      BY <2>1, <2>2 DEF Genuine, GenuineFor, Status
  <2>4. heard' = Head(backlog).n /\ m_mmdvmFree' = (Head(backlog).byte = "idle")
      BY <1>3 DEF Heard
  <2>5. m_mmdvmFree' = (heard' # 0 /\ announced'[heard'])
    <3>1. heard' # 0 /\ announced'[heard'] = announced[Head(backlog).n]
        BY <2>1, <2>4
    <3> QED
        BY <2>2, <2>3, <2>4, <3>1, Zenon
  <2> QED
      BY <2>5 DEF ActsOnHeard
<1>4. ASSUME NEW free \in BOOLEAN, Announced(free) PROVE ActsOnHeard'
  <2>1. UNCHANGED <<heard, m_mmdvmFree>>
      BY <1>4 DEF Announced, Comes
  <2>2. heard # 0 => announced'[heard] = announced[heard]
      BY <1>0, <1>4, AnnouncedKeeps
  <2> QED
      BY <1>0, <2>1, <2>2, Zenon DEF ActsOnHeard
<1> QED
    BY <1>1, <1>2, <1>3, <1>4 DEF BufferStep

LEMMA ForgottenStep ==
    ASSUME LinkInv, [Next]_vars
    PROVE  NothingForgotten'
<1>0. /\ backlog \in Seq(Datagrams) /\ announced \in Seq(BOOLEAN)
      /\ heard \in 0 .. Len(announced) /\ NothingForgotten
    BY DEF LinkInv, TypeOK
<1>1. BufferStep
    BY EveryBufferStep
<1>2. CASE Kept
    BY <1>0, <1>2 DEF Kept, Rest, NothingForgotten, Waiting, NumbersIn
<1>3. CASE Aged
  <2>1. NumbersIn(backlog') = NumbersIn(backlog)
      BY <1>0, <1>3, NumbersOfOlder DEF Aged
  <2> QED
      BY <1>0, <1>3, <2>1 DEF Aged, Rest, NothingForgotten, Waiting
<1>4. CASE Emptied
    BY <1>0, <1>4 DEF Emptied, Rest, NothingForgotten, Waiting
<1>5. CASE Heard \/ Skipped
  <2>1. Taken
      BY <1>5 DEF Heard, Skipped
  <2>2. NumbersIn(backlog) = NumbersIn(Tail(backlog)) \cup ({Head(backlog).n} \ {0})
      BY <1>0, <2>1, NumbersOfTail DEF Taken
  <2>3. NumbersIn(backlog') = NumbersIn(Tail(backlog))
    <3>1. Tail(backlog) \in Seq(Datagrams) /\ backlog' = Older(Tail(backlog))
        BY <1>0, <2>1, HeadAndTail DEF Taken
    <3> QED
        BY <3>1, NumbersOfOlder
  <2>4. \A n \in heard + 1 .. Len(announced) :
            n \in lost \cup NumbersIn(backlog') \cup ({Head(backlog).n} \ {0})
      BY <1>0, <2>2, <2>3 DEF NothingForgotten, Waiting
  <2>5. CASE Skipped
      BY <2>4, <2>5 DEF Skipped, Taken, NothingForgotten, Waiting
  <2>6. CASE Heard
    <3>1. Head(backlog).n \in heard + 1 .. Len(announced) /\ heard' = Head(backlog).n
        BY <1>0, <2>6, HeadAndTail DEF Heard, Taken, LinkInv, AllGenuine, Genuine, GenuineFor
    <3>2. UNCHANGED <<announced, lost>>
        BY <2>1 DEF Taken
    <3>3. ASSUME NEW n \in heard' + 1 .. Len(announced')
          PROVE  n \in lost' \cup NumbersIn(backlog')
      <4>1. n \in heard + 1 .. Len(announced) /\ n # Head(backlog).n
          BY <1>0, <3>1, <3>2, <3>3
      <4> QED
          BY <2>4, <3>2, <4>1
    <3> QED
        BY <3>3 DEF NothingForgotten, Waiting
  <2> QED
      BY <1>5, <2>5, <2>6
<1>6. CASE Strayed
  <2>1. PICK d \in Datagrams : Comes(d) /\ UNCHANGED announced
      BY <1>6 DEF Strayed
  <2>2. NumbersIn(backlog) \subseteq NumbersIn(backlog')
      BY <1>0, <2>1, NumbersOfAppend DEF Comes
  <2> QED
      BY <1>0, <2>1, <2>2 DEF Comes, NothingForgotten, Waiting
<1>7. ASSUME NEW free \in BOOLEAN, Announced(free) PROVE NothingForgotten'
  <2>1. Len(announced') = Len(announced) + 1 /\ heard' = heard /\ lost \subseteq lost'
      BY <1>0, <1>7, AnnouncedKeeps DEF Announced, Comes
  <2> DEFINE last == Len(announced) + 1
             new  == Datagram(Host, Status(free), last)
  <2>2. CASE Comes(new)
    <3>1. new.n = last /\ new \in Datagrams /\ backlog' = Append(backlog, new) /\ last # 0
        BY <1>0, <2>2 DEF Comes, Datagram
    <3> HIDE DEF new
    <3>2. NumbersIn(backlog') = NumbersIn(backlog) \cup ({last} \ {0})
        BY <1>0, <3>1, NumbersOfAppend
    <3> QED
        BY <1>0, <2>1, <3>1, <3>2 DEF NothingForgotten, Waiting
  <2>3. CASE backlog' = backlog /\ lost' = lost \cup {last}
      BY <1>0, <2>1, <2>3 DEF NothingForgotten, Waiting, NumbersIn
  <2> QED
      BY <1>7, <2>2, <2>3 DEF Announced
<1> QED
    BY <1>1, <1>2, <1>3, <1>4, <1>5, <1>6, <1>7 DEF BufferStep

LEMMA InTimeStep ==
    ASSUME LinkInv, [Next]_vars
    PROVE  NewsInTime'
<1> USE LinkAssumption DEF LinkAssumption
<1>0. /\ backlog \in Seq(Datagrams) /\ Len(backlog) <= BACKLOG
      /\ faults \in Nat /\ NewsInTime
    BY DEF LinkInv, TypeOK
<1>1. BufferStep
    BY EveryBufferStep
<1>9. ASSUME NEW i \in DOMAIN backlog PROVE backlog[i].waited \in Nat /\ i \in Nat
  <2>1. backlog[i] \in Datagrams /\ i \in 1 .. Len(backlog)
      BY <1>0
  <2> QED
      BY <2>1 DEF Datagrams
<1>2. CASE Kept
    BY <1>0, <1>2 DEF Kept, NewsInTime
<1>3. CASE Aged
    BY <1>0, <1>9, <1>3, OlderKeeps DEF Aged, NewsInTime
<1>4. CASE Emptied
    BY <1>4 DEF Emptied, NewsInTime
<1>5. CASE Heard \/ Skipped
  <2>1. Taken /\ faults' = faults
      BY <1>5 DEF Heard, Skipped, Taken
  <2> SUFFICES ASSUME NEW i \in DOMAIN backlog'
               PROVE  backlog'[i].waited + i <= BACKLOG + faults
      BY <2>1 DEF NewsInTime
  <2>2. i + 1 \in DOMAIN backlog /\ backlog'[i].waited = backlog[i + 1].waited + 1
      BY <1>0, <2>1, TakenMovesUp
  <2>3. i \in Nat
      BY BufferType
  <2>4. backlog[i + 1].waited + (i + 1) <= BACKLOG + faults
      BY <1>0, <2>2 DEF NewsInTime
  <2> QED
      BY <1>0, <1>9, <2>2, <2>3, <2>4
<1>6. ASSUME NEW d \in Datagrams, Comes(d) PROVE NewsInTime'
    BY <1>0, <1>6, Appended DEF Comes, NewsInTime
<1>7. CASE Strayed
    BY <1>6, <1>7 DEF Strayed
<1>8. ASSUME NEW free \in BOOLEAN, Announced(free) PROVE NewsInTime'
  <2>1. CASE UNCHANGED <<backlog, faults>>
      BY <1>0, <2>1 DEF NewsInTime
  <2> DEFINE new == Datagram(Host, Status(free), Len(announced) + 1)
  <2>2. CASE Comes(new)
      BY <1>6, <2>2 DEF Comes
  <2> QED
      BY <1>8, <2>1, <2>2 DEF Announced
<1> QED
    BY <1>1, <1>2, <1>3, <1>4, <1>5, <1>7, <1>8 DEF BufferStep

LEMMA LinkInvStep == LinkInv /\ [Next]_vars => LinkInv'
BY TypeStep, GenuineStep, InTurnStep, ActsStep, ForgottenStep, InTimeStep DEF LinkInv

LEMMA LinkInvHolds == Spec => []LinkInv
BY LinkInvInit, LinkInvStep, PTL DEF Spec

-----------------------------------------------------------------------------
(* The state of the link keeps its types: no more datagrams wait than the  *)
(* buffer holds, and no announcement is heard before it is made.           *)
THEOREM LinkTypeCorrect == Spec => []TypeOK
<1>1. LinkInv => TypeOK
    BY DEF LinkInv
<1> QED
    BY <1>1, LinkInvHolds, PTL

(* No announcement is lost between the socket and m_mmdvmFree.             *)
THEOREM NothingEverForgotten == Spec => []NothingForgotten
<1>1. LinkInv => NothingForgotten
    BY DEF LinkInv
<1> QED
    BY <1>1, LinkInvHolds, PTL

(* No status waits for more reads than the buffer holds datagrams, and one *)
(* for each error.                                                         *)
THEOREM NewsAlwaysInTime == Spec => []NewsInTime
<1>1. LinkInv => NewsInTime
    BY DEF LinkInv
<1> QED
    BY <1>1, LinkInvHolds, PTL

(* A page goes to a busy host only while the news that it is busy is       *)
(* queued up behind older news, or was lost on its way.                    *)
THEOREM BusyHostSpared == Spec => BusyHostIsSpared
<1>1. ASSUME LinkInv, [Next]_vars, handed' # handed, ~hostFree
      PROVE  \E n \in lost \cup Waiting : n > heard /\ ~announced[n]
  <2>1. /\ announced \in Seq(BOOLEAN) /\ heard \in 0 .. Len(announced)
        /\ ActsOnHeard /\ NothingForgotten
      BY <1>1 DEF LinkInv, TypeOK
  <2>2. m_mmdvmFree
      BY <1>1 DEF Next, Turn, read, Lookup, Open, OpenFails, ReadNothing, ReadStatus,
          ReadStray, Receive, ReadFails, ReadReopens, ReadAborts, SendAborts, Aborts,
          SendPage, SendNothing, Close,
          Network, Announce, Stray, Seize, Terminated, vars
  <2>3. heard # 0 /\ announced[heard]
      BY <2>1, <2>2, Zenon DEF ActsOnHeard
  <2>4. Len(announced) \in Nat /\ ~announced[Len(announced)]
      BY <1>1, <2>1, <2>3 DEF hostFree
  <2>5. Len(announced) \in heard + 1 .. Len(announced)
      BY <2>1, <2>3, <2>4
  <2>6. Len(announced) \in lost \cup Waiting
      BY <2>1, <2>5 DEF NothingForgotten
  <2> QED
      BY <2>1, <2>4, <2>5, <2>6
<1>2. LinkInv /\ [Next]_vars
      => [ handed' # handed /\ ~hostFree
           => \E n \in lost \cup Waiting : n > heard /\ ~announced[n] ]_vars
    BY <1>1
<1> QED
    BY <1>2, LinkInvHolds, PTL DEF Spec, BusyHostIsSpared

(* The gateway acts upon nothing but what the host has announced, in the   *)
(* order of the announcements.                                             *)
THEOREM LinkImplementsFeed == Spec => StatusIsHosts
<1>1. Init => Feed!Init
    BY DEF Init, Feed!Init
<1>2. LinkInv /\ [Next]_vars => [Feed!Next]_(Feed!vars)
  <2> SUFFICES ASSUME LinkInv, [Next]_vars PROVE [Feed!Next]_(Feed!vars)
      OBVIOUS
  <2>1. BufferStep
      BY EveryBufferStep
  <2>2. CASE Kept \/ Aged \/ Emptied \/ Skipped \/ Strayed
      BY <2>2 DEF Kept, Aged, Emptied, Skipped, Taken, Strayed, Comes, Rest, Feed!vars
  <2>3. CASE Heard
    <3>1. /\ backlog \in Seq(Datagrams) /\ announced \in Seq(BOOLEAN)
          /\ heard \in 0 .. Len(announced) /\ ActsOnHeard'
        BY ActsStep DEF LinkInv, TypeOK
    <3>2. /\ heard' \in heard + 1 .. Len(announced) /\ announced' = announced
          /\ heard' # 0
        BY <2>3, <3>1, HeadAndTail
        DEF Heard, Taken, LinkInv, AllGenuine, Genuine, GenuineFor
    <3>3. announced[heard'] \in BOOLEAN
        BY <3>1, <3>2
    <3>4. m_mmdvmFree' = announced[heard']
        BY <3>1, <3>2, <3>3, Zenon DEF ActsOnHeard
    <3> QED
        BY <3>2, <3>4 DEF Feed!Next, Feed!Hear
  <2>4. ASSUME NEW free \in BOOLEAN, Announced(free) PROVE Feed!Announce
      BY <2>4 DEF Announced, Comes, Feed!Announce
  <2> QED
      BY <2>1, <2>2, <2>3, <2>4 DEF BufferStep, Feed!Next
<1> QED
    BY <1>1, <1>2, LinkInvHolds, PTL DEF Spec, StatusIsHosts, Feed!Spec

-----------------------------------------------------------------------------
(* Liveness.  Each step of a turn brings a datagram that waits nearer to   *)
(* the head of the buffer, or uses up one of the errors of the socket.     *)

(* The end of run() leaves nothing in a socket. *)
ClosedAtEnd == pc \in Ended => m_fd = "closed"

LEMMA ClosedHolds == Spec => []ClosedAtEnd
<1>1. Init => ClosedAtEnd
    BY DEF Init, ClosedAtEnd, Ended
<1>2. ClosedAtEnd /\ [Next]_vars => ClosedAtEnd'
    BY DEF ClosedAtEnd, Ended, Next, Turn, read, Lookup, Open, OpenFails, ReadNothing,
        ReadStatus, ReadStray, Receive, ReadFails, ReadReopens, ReadAborts, SendAborts,
        Aborts, SendPage,
        SendNothing, Close, Network, Announce, Stray, Seize, Terminated, Goto, NotOpens,
        socketVars, vars
<1> QED
    BY <1>1, <1>2, PTL DEF Spec

(* The place of announcement n in a buffer. *)
position(s, n) == CHOOSE i \in DOMAIN s : s[i].n = n

Ascends(s) ==
    \A i, j \in DOMAIN s : i < j /\ s[i].n # 0 /\ s[j].n # 0 => s[i].n < s[j].n

(* It has only one. *)
LEMMA PositionIs ==
    ASSUME NEW s \in Seq(Datagrams), Ascends(s), NEW i \in DOMAIN s, s[i].n # 0
    PROVE  position(s, s[i].n) = i
<1> DEFINE p == position(s, s[i].n)
<1>1. p \in DOMAIN s /\ s[p].n = s[i].n
    BY DEF position
<1> HIDE DEF p
<1>2. s[i].n \in Nat
  <2>1. s[i] \in Datagrams
      OBVIOUS
  <2> QED
      BY <2>1 DEF Datagrams
<1>3. ~(p < i) /\ ~(i < p)
    BY <1>1, <1>2 DEF Ascends
<1>4. p \in Nat /\ i \in Nat
    BY <1>1
<1>5. p = i
    BY <1>3, <1>4
<1> QED
    BY <1>5 DEF p

LEMMA PositionExists ==
    ASSUME NEW s \in Seq(Datagrams), NEW n \in NumbersIn(s)
    PROVE  /\ position(s, n) \in DOMAIN s /\ position(s, n) \in Nat \ {0}
           /\ s[position(s, n)].n = n /\ n # 0
<1>1. PICK i \in DOMAIN s : s[i].n = n
    BY DEF NumbersIn
<1>2. position(s, n) \in DOMAIN s /\ s[position(s, n)].n = n
    BY <1>1 DEF position
<1> QED
    BY <1>2 DEF NumbersIn

(* What the steps of the buffer do to the place of what stays in it. *)
LEMMA PositionStep ==
    ASSUME LinkInv, LinkInv', NEW n \in Waiting, n \in Waiting'
    PROVE  LET p == position(backlog, n)
               q == position(backlog', n)
           IN  /\ p \in Nat \ {0} /\ q \in Nat \ {0}
               /\ backlog' = backlog => q = p
               /\ Aged => q = p
               /\ Taken => q = p - 1
               /\ \A d \in Datagrams : Comes(d) => q = p
<1> DEFINE p == position(backlog, n)
           q == position(backlog', n)
<1>0. /\ backlog \in Seq(Datagrams) /\ backlog' \in Seq(Datagrams)
      /\ Ascends(backlog) /\ Ascends(backlog')
    BY DEF LinkInv, TypeOK, InTurn, Ascends
<1>1. /\ p \in DOMAIN backlog /\ p \in Nat \ {0} /\ backlog[p].n = n
      /\ q \in DOMAIN backlog' /\ q \in Nat \ {0} /\ backlog'[q].n = n
      /\ n # 0
    BY <1>0, PositionExists DEF Waiting
<1>2. /\ \A i \in DOMAIN backlog : backlog[i].n = n => p = i
      /\ \A i \in DOMAIN backlog' : backlog'[i].n = n => q = i
    BY <1>0, <1>1, PositionIs
<1> HIDE DEF p, q
<1>3. ASSUME backlog' = backlog PROVE q = p
    BY <1>1, <1>2, <1>3
<1>4. ASSUME Aged PROVE q = p
    BY <1>0, <1>1, <1>2, <1>4, OlderKeeps DEF Aged
<1>5. ASSUME Taken PROVE q = p - 1
  <2>1. q + 1 \in DOMAIN backlog /\ backlog[q + 1].n = n
      BY <1>0, <1>1, <1>5, TakenMovesUp
  <2>2. p = q + 1
      BY <1>2, <2>1
  <2> QED
      BY <1>1, <2>2
<1>6. ASSUME NEW d \in Datagrams, Comes(d) PROVE q = p
    BY <1>0, <1>1, <1>2, <1>6, Appended DEF Comes
<1> QED
    BY <1>1, <1>3, <1>4, <1>5, <1>6 DEF p, q

Arrived(n) == heard >= n \/ n \in lost

(* How many steps of a turn may go by before announcement n is read: two   *)
(* for each datagram ahead of it, and two for each error still to come.    *)
stepsLeft(n) ==
    IF n \in Waiting
    THEN 2 * (position(backlog, n) + MAX_FAULTS - faults) + IF pc = "send" THEN 1 ELSE 0
    ELSE -1

LEMMA StepsLeftType ==
    ASSUME LinkInv, NEW n
    PROVE  /\ n \in Waiting <=> stepsLeft(n) \in Nat
           /\ stepsLeft(n) \in Int
<1> USE LinkAssumption DEF LinkAssumption
<1>1. CASE n \in Waiting
  <2> DEFINE p == position(backlog, n)
  <2>1. p \in Nat
      BY <1>1, PositionExists DEF LinkInv, TypeOK, Waiting
  <2>2. MAX_FAULTS \in Nat /\ faults \in Nat /\ faults <= MAX_FAULTS
      BY DEF LinkInv, TypeOK
  <2>3. stepsLeft(n) = 2 * (p + MAX_FAULTS - faults) + IF pc = "send" THEN 1 ELSE 0
      BY <1>1 DEF stepsLeft
  <2> HIDE DEF p
  <2> QED
      BY <1>1, <2>1, <2>2, <2>3
<1>2. CASE n \notin Waiting
    BY <1>2 DEF stepsLeft
<1> QED
    BY <1>1, <1>2

(* An announcement leaves the buffer by being heard or lost. *)
LEMMA LeavesByArriving ==
    ASSUME LinkInv, LinkInv', [Next]_vars, NEW n \in Waiting, n \notin Waiting'
    PROVE  Arrived(n)'
<1>1. n \in heard + 1 .. Len(announced) /\ heard \in Nat
    BY NumbersAreNews DEF Waiting, LinkInv, TypeOK
<1>2. Len(announced') >= Len(announced) /\ Len(announced') \in Nat /\ heard' \in Nat
  <2>1. announced \in Seq(BOOLEAN) /\ announced' \in Seq(BOOLEAN) /\ heard' \in Nat
      BY DEF LinkInv, TypeOK
  <2>2. announced' = announced \/ \E free \in BOOLEAN : announced' = Append(announced, free)
      BY EveryBufferStep
      DEF BufferStep, Kept, Aged, Emptied, Heard, Skipped, Taken, Strayed, Announced, Rest
  <2> QED
      BY <2>1, <2>2
<1>3. \A m \in heard' + 1 .. Len(announced') : m \in lost' \cup Waiting'
    BY DEF LinkInv, NothingForgotten
<1>4. n \in Nat /\ n <= Len(announced')
    BY <1>1, <1>2
<1>5. CASE n > heard'
  <2>1. \A a, b, c \in Nat : b > a /\ b <= c => b \in a + 1 .. c
      OBVIOUS
  <2>2. n \in heard' + 1 .. Len(announced')
      BY <1>2, <1>4, <1>5, <2>1, Zenon
  <2> QED
      BY <1>3, <2>2 DEF Arrived
<1>6. CASE ~(n > heard')
    BY <1>2, <1>4, <1>6 DEF Arrived
<1> QED
    BY <1>5, <1>6

(* What a step does to one that stays. *)
LEMMA StepNears ==
    ASSUME LinkInv, LinkInv', ClosedAtEnd, [Next]_vars, NEW n \in Waiting, n \in Waiting'
    PROVE  /\ stepsLeft(n)' <= stepsLeft(n)
           /\ Turn => stepsLeft(n)' < stepsLeft(n)
<1> USE LinkAssumption DEF LinkAssumption
<1> DEFINE p == position(backlog, n)
           q == position(backlog', n)
           here  == IF pc = "send" THEN 1 ELSE 0
           there == IF pc' = "send" THEN 1 ELSE 0
<1>1. /\ p \in Nat \ {0} /\ q \in Nat \ {0}
      /\ backlog' = backlog => q = p
      /\ Aged => q = p
      /\ Taken => q = p - 1
      /\ \A d \in Datagrams : Comes(d) => q = p
    BY PositionStep
<1>2. /\ stepsLeft(n) = 2 * (p + MAX_FAULTS - faults) + here
      /\ stepsLeft(n)' = 2 * (q + MAX_FAULTS - faults') + there
    BY DEF stepsLeft
<1>3. MAX_FAULTS \in Nat /\ faults \in Nat /\ faults' \in Nat
    BY DEF LinkInv, TypeOK
<1>4. /\ backlog # <<>> /\ backlog' # <<>>
      /\ m_fd = "open" /\ pc \notin {"lookup", "open"} \cup Ended
    BY NumbersOfEmpty DEF Waiting, LinkInv, SocketConnected, ClosedAtEnd
<1> HIDE DEF p, q
<1>5. CASE ReadStatus \/ ReadStray
  <2>1. pc = "read" /\ pc' = "send" /\ Taken
      BY <1>5 DEF ReadStatus, ReadStray, Receive, Goto, Taken, hostVars
  <2> QED
      BY <1>1, <1>2, <1>3, <2>1 DEF Taken
<1>6. CASE ReadFails
  <2>1. pc = "read" /\ pc' = "send" /\ faults' = faults + 1 /\ Aged
      BY <1>6 DEF ReadFails, Goto, Fault, Aged, Rest, hostVars
  <2> QED
      BY <1>1, <1>2, <1>3, <2>1
<1>7. CASE SendPage \/ SendNothing
  <2>1. pc = "send" /\ pc' = "read" /\ backlog' = backlog /\ faults' = faults
      BY <1>7 DEF SendPage, SendNothing, Goto
  <2> QED
      BY <1>1, <1>2, <1>3, <2>1
<1>8. CASE ReadNothing \/ ReadReopens \/ ReadAborts \/ SendAborts \/ Lookup \/ Open \/ OpenFails \/ Close
           \/ Seize \/ Terminated
    BY <1>4, <1>8 DEF ReadNothing, ReadReopens, ReadAborts, SendAborts, Aborts, Lookup,
        Open, OpenFails, Goto, Close,
        Seize, Discards, Terminated
<1>9. CASE UNCHANGED vars
  <2>1. pc' = pc /\ backlog' = backlog /\ faults' = faults
      BY <1>9 DEF vars
  <2>2. ~Turn
      BY <1>4, <2>1 DEF Turn, read, ReadNothing, ReadStatus, ReadStray, Receive, ReadFails,
          ReadReopens, ReadAborts, SendAborts, Aborts, SendPage, SendNothing, Goto, Ended
  <2> QED
      BY <1>1, <1>2, <1>3, <2>1, <2>2
<1>10. CASE (\E free \in BOOLEAN : Announce(free))
            \/ \E from \in Addresses, byte \in Bytes : Stray(from, byte)
  <2>1. pc' = pc /\ faults' = faults
      BY <1>10 DEF Announce, Stray
  <2>2. ASSUME NEW free \in BOOLEAN, Announce(free) PROVE q = p
    <3>1. Datagram(Host, Status(free), Len(announced) + 1) \in Datagrams
        BY DEF Datagram, Datagrams, Addresses, Status, Bytes, LinkInv, TypeOK
    <3>2. \/ Comes(Datagram(Host, Status(free), Len(announced) + 1))
          \/ backlog' = backlog
        BY <2>2, <3>1 DEF Announce, Arrives, Comes, Datagram
    <3> QED
        BY <1>1, <3>1, <3>2
  <2>3. ASSUME NEW from \in Addresses, NEW byte \in Bytes, Stray(from, byte) PROVE q = p
    <3>1. Datagram(from, byte, 0) \in Datagrams
        BY DEF Datagram, Datagrams
    <3>2. Comes(Datagram(from, byte, 0))
        BY <2>3, <3>1 DEF Stray, Arrives, Comes, Datagram
    <3> QED
        BY <1>1, <3>1, <3>2
  <2>4. ~Turn
      BY <1>4, <2>1 DEF Turn, read, ReadNothing, ReadStatus, ReadStray, Receive, ReadFails,
          ReadReopens, ReadAborts, SendAborts, Aborts, SendPage, SendNothing, Goto, Ended
  <2>5. q = p
      BY <1>10, <2>2, <2>3
  <2> QED
      BY <1>1, <1>2, <1>3, <2>1, <2>4, <2>5
<1> QED
    BY <1>5, <1>6, <1>7, <1>8, <1>9, <1>10 DEF Next, Turn, read, Network

(* The fairness of Turn with the places where a turn can be taken spelt    *)
(* out, which are both places of the loop.  That each turn ends is what    *)
(* LoopTurns in DAPNETGatewayProofs shows of the whole loop.               *)
TurnsGoOn == []<><<Turn>>_vars \/ <>[](pc \notin {"read", "send"})

NewsNears(n, k) == ComesDown(stepsLeft(n), Arrived(n), k)

LEMMA TurnsBringNews ==
    ASSUME NEW n \in 1 .. MAX_ANNOUNCED, NEW k \in Nat
    PROVE  Spec /\ TurnsGoOn => NewsNears(n, k)
<1> DEFINE Nearer == (stepsLeft(n) \in Nat /\ stepsLeft(n) < k) \/ Arrived(n)
<1>1. ASSUME LinkInv, LinkInv', ClosedAtEnd, [Next]_vars, stepsLeft(n) = k
      PROVE  /\ stepsLeft(n)' = k \/ Nearer'
             /\ Turn => Nearer'
  <2>1. n \in Waiting
      BY <1>1, StepsLeftType
  <2>2. CASE n \in Waiting'
    <3>1. (stepsLeft(n) \in Nat)'
      <4>1. LinkInv' => (n \in Waiting <=> stepsLeft(n) \in Nat)'
          BY StepsLeftType, PTL
      <4> QED
          BY <1>1, <2>2, <4>1
    <3> QED
        BY <1>1, <2>1, <2>2, <3>1, StepNears
  <2>3. CASE n \notin Waiting'
      BY <1>1, <2>1, <2>3, LeavesByArriving
  <2> QED
      BY <2>2, <2>3
<1>2. LinkInv /\ LinkInv' /\ ClosedAtEnd /\ stepsLeft(n) = k /\ [Next]_vars
        => (stepsLeft(n) = k)' \/ Nearer'
    BY <1>1
<1>3. LinkInv /\ LinkInv' /\ ClosedAtEnd /\ stepsLeft(n) = k /\ [Next]_vars /\ <<Turn>>_vars
        => Nearer'
    BY <1>1
<1>4. LinkInv /\ ClosedAtEnd /\ stepsLeft(n) = k => ~(pc \notin {"read", "send"})
  <2> SUFFICES ASSUME LinkInv, ClosedAtEnd, stepsLeft(n) = k PROVE pc \in {"read", "send"}
      OBVIOUS
  <2>1. n \in Waiting
      BY StepsLeftType
  <2>2. m_fd = "open" /\ pc \in {"lookup", "open", "read", "send"} \cup Ended
      BY <2>1, NumbersOfEmpty DEF Waiting, LinkInv, SocketConnected, TypeOK
  <2> QED
      BY <2>2 DEF LinkInv, SocketConnected, ClosedAtEnd
<1> QED
    BY <1>2, <1>3, <1>4, LinkInvHolds, ClosedHolds, PTL
    DEF Spec, TurnsGoOn, NewsNears, ComesDown

(* Every announcement in the socket is acted upon, or a later one, however *)
(* many datagrams wait ahead of it and whichever reads fail: one datagram  *)
(* a turn is enough (run, lines 335-356), as long as turns go on.          *)
THEOREM NewsAlwaysArrives ==
    Spec /\ TurnsGoOn /\ (\A n \in 1 .. MAX_ANNOUNCED : CountsDown(stepsLeft(n), Arrived(n)))
        => NewsArrives
<1> DEFINE Reaches(n) == n \in Waiting ~> Arrived(n)
<1>1. ASSUME NEW n \in 1 .. MAX_ANNOUNCED
      PROVE  Spec /\ TurnsGoOn /\ CountsDown(stepsLeft(n), Arrived(n)) => Reaches(n)
  <2>1. Spec /\ TurnsGoOn => \A k \in Nat : NewsNears(n, k)
      BY TurnsBringNews
  <2>2. (\A k \in Nat : NewsNears(n, k)) /\ CountsDown(stepsLeft(n), Arrived(n))
          => ((stepsLeft(n) \in Nat) ~> Arrived(n))
      BY DEF NewsNears, CountsDown
  <2>3. LinkInv => (n \in Waiting <=> stepsLeft(n) \in Nat)
      BY StepsLeftType
  <2> QED
      BY <2>1, <2>2, <2>3, LinkInvHolds, PTL
<1>2. NewsArrives <=> \A n \in 1 .. MAX_ANNOUNCED : Reaches(n)
    BY DEF NewsArrives, Arrived
<1> HIDE DEF Reaches
<1> QED
    BY <1>1, <1>2
=============================================================================
