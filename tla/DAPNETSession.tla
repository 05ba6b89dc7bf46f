--------------------------- MODULE DAPNETSession ---------------------------
(***************************************************************************)
(* CDAPNETNetwork over CTCPSocket: open and log in, read what one recv()   *)
(* returns, answer it, keep the page or the schedule it brought, back off  *)
(* after a failed login, and recover when a read or a write has failed.    *)
(*                                                                         *)
(* The server and the network are external.  The server sends lines, has   *)
(* at most WINDOW of them unanswered, and sends a page again in a later    *)
(* connection until it is acknowledged.  read() takes one recv() for one   *)
(* line; COALESCE and Cuts say how far TCP keeps to that.                  *)
(***************************************************************************)
EXTENDS Naturals, Sequences, FiniteSets

CONSTANTS
    None,        \* the null pointer
    Closed,      \* m_fd when there is no socket, -1 in the program
    MAX_PAGES,   \* bound on the pages of the server
    MAX_OTHERS,  \* bound on its other lines
    MAX_CONNS,   \* bound on the connections
    MAX_FAILS,   \* last index of BACKOFF, 9 in the program
    ID_RANGE,    \* the numbers that two hexadecimal digits give, 256
    WINDOW,      \* the lines a server may leave unanswered
    COALESCE,    \* the lines that one recv() may return
    Cuts,        \* {FALSE}: recv() ends with a line; BOOLEAN: it need not
    OtherKinds,  \* the lines without a page that the server sends
    JunkKinds    \* what the rest of a line that was cut may look like: not a
                 \* page, although the text of a page may begin like one

Pages == 1 .. MAX_PAGES
Conns == 1 .. MAX_CONNS
Ids   == 0 .. ID_RANGE - 1

(* The first character decides.  "badpage": a '#' without its five fields; *)
(* "badcode": one with a functional code above 3; "blank": a '4' or '7'    *)
(* with nothing behind it.                                                 *)
Kinds == {"time", "other", "schedule", "failed", "ack", "unknown",
          "page", "badpage", "badcode", "blank"}

NoPage == 0
Arrivals == [page : Pages, conn : Conns]
Lines  == [kind : Kinds, page : Pages \cup {NoPage}]

ASSUME SessionAssumption ==
    /\ MAX_PAGES \in Nat /\ MAX_OTHERS \in Nat
    /\ MAX_CONNS \in Nat \ {0} /\ Closed \notin Nat
    /\ MAX_FAILS \in Nat \ {0}
    /\ ID_RANGE \in Nat \ {0, 1}
    /\ WINDOW \in Nat \ {0} /\ COALESCE \in Nat \ {0}
    /\ Cuts \subseteq BOOLEAN /\ FALSE \in Cuts
    /\ OtherKinds \subseteq Kinds \ {"page"}
    /\ JunkKinds \subseteq Kinds \ {"page"}
    /\ None \notin Arrivals /\ None \notin Conns

VARIABLES
    pc,            \* where the gateway is in open(), login(), read(), recover()
    m_fd,          \* the number of the connection, or Closed
    m_loggedIn,
    m_failCount,
    m_message,     \* the page that waits for readMessage and the connection
                   \* it came in, or None
    m_schedule,    \* whether a schedule waits for readSchedule
    conns,         \* connections made
    peer,          \* the server's end: "open", "closed" or "reset"
    stream,        \* lines from the server that have not been read
    cut,           \* TRUE when the first of them has been read in part
    answers,       \* answers on their way to the server
    accepted,      \* the server has read the login of this connection
    outstanding,   \* pages it waits to hear of in this connection
    owed,          \* all lines it waits to have answered
    others,        \* lines without a page that it has sent
    offered,       \* pages it has sent,
    acked,         \* and those that were acknowledged
    taken          \* what readMessage has returned

socketVars == <<m_fd, conns>>
memberVars == <<m_loggedIn, m_failCount, m_message, m_schedule>>
wireVars   == <<peer, stream, cut, answers>>
serverVars == <<accepted, outstanding, owed, others, offered, acked>>
vars == <<pc, socketVars, memberVars, wireVars, serverVars, taken>>

Steps == {"start", "startLogin", "read", "sync", "backoff", "message",
          "recover", "open", "login", "aborted", "exited"}

(* What the gateway writes; id and ok are meant for a "page" answer only.  *)
Answers == [kind : {"login", "stamp", "plus", "minus", "page"},
            id : Nat, ok : BOOLEAN]

Plain(kind)        == [kind |-> kind, id |-> 0, ok |-> TRUE]
PageAnswer(id, ok) == [kind |-> "page", id |-> id, ok |-> ok]

TypeOK ==
    /\ pc \in Steps
    /\ m_fd \in Conns \cup {Closed}
    /\ m_loggedIn \in BOOLEAN
    /\ m_failCount \in 0 .. MAX_FAILS
    /\ m_message \in Arrivals \cup {None}
    /\ m_schedule \in BOOLEAN
    /\ conns \in 0 .. MAX_CONNS
    /\ peer \in {"open", "closed", "reset"}
    /\ stream \in Seq(Lines)
    /\ cut \in BOOLEAN
    /\ answers \in Seq(Answers)
    /\ accepted \in BOOLEAN
    /\ outstanding \in SUBSET Pages
    /\ owed \in Nat
    /\ others \in 0 .. MAX_OTHERS
    /\ offered \in SUBSET Pages
    /\ acked \in SUBSET Pages
    /\ taken \in Seq(Arrivals)

(* CDAPNETNetwork::CDAPNETNetwork, with loggedIn FALSE and failCount 1. *)
Init ==
    /\ pc = "start"
    /\ m_fd = Closed /\ conns = 0
    /\ m_loggedIn = FALSE /\ m_failCount = 1
    /\ m_message = None /\ m_schedule = FALSE
    /\ peer = "reset" /\ stream = <<>> /\ cut = FALSE /\ answers = <<>>
    /\ accepted = FALSE /\ outstanding = {} /\ owed = 0 /\ others = 0
    /\ offered = {} /\ acked = {}
    /\ taken = <<>>

-----------------------------------------------------------------------------
(* CTCPSocket. *)

(* send(): an open server gets the data; one that has closed does not, and *)
(* sends a reset back sooner or later; after that send() fails.            *)
Write(answer, next, failed) ==
    \/ /\ peer = "open"
       /\ answers' = Append(answers, answer)
       /\ pc' = next
       /\ UNCHANGED peer
    \/ /\ peer = "closed"
       /\ peer' \in {"closed", "reset"}
       /\ pc' = next
       /\ UNCHANGED answers
    \/ /\ peer = "reset"
       /\ pc' = failed
       /\ UNCHANGED <<peer, answers>>

(* open(): a new connection, a new stream in both directions.  The socket  *)
(* is closed whenever the program calls it.                                *)
Connect ==
    /\ conns < MAX_CONNS
    /\ conns' = conns + 1
    /\ m_fd' = conns'
    /\ peer' = "open" /\ stream' = <<>> /\ cut' = FALSE /\ answers' = <<>>
    /\ accepted' = FALSE /\ outstanding' = {} /\ owed' = 0
    /\ UNCHANGED <<memberVars, others, offered, acked, taken>>

Line(kind, page) == [kind |-> kind, page |-> page]

(* What the first part of a line that is cut may be taken for. *)
FirstParts(line) ==
    CASE line.kind = "page" -> {line, Line("badpage", NoPage)}
      [] line.kind \in {"schedule", "failed"} -> {line, Line("blank", NoPage)}
      [] OTHER -> {line}

(* What the buffer begins with when k lines end in it.  The code looks at  *)
(* nothing else.                                                           *)
Looks(k) ==
    IF cut        THEN {Line(kind, NoPage) : kind \in JunkKinds}
    ELSE IF k = 0 THEN FirstParts(Head(stream))
                  ELSE {Head(stream)}

(* recv() has data: k ends of lines and, with more, a part of another one; *)
(* a line is cut at most once.  Whatever lies behind the first line in the *)
(* buffer is lost.                                                         *)
Received(kind, page) ==
    /\ pc = "read"
    /\ \E k \in 0 .. COALESCE, more \in Cuts :
        /\ k <= Len(stream)
        /\ k > 0 \/ (more /\ ~cut)
        /\ more => k < Len(stream)
        /\ Line(kind, page) \in Looks(k)
        /\ stream' = SubSeq(stream, k + 1, Len(stream))
        /\ cut' = more
    /\ UNCHANGED <<socketVars, serverVars, taken>>

-----------------------------------------------------------------------------
(* CDAPNETNetwork::read. *)

(* select() finds nothing. *)
ReadNothing ==
    /\ pc = "read"
    /\ stream = <<>> /\ peer = "open"
    /\ pc' = "message"
    /\ UNCHANGED <<socketVars, memberVars, wireVars, serverVars, taken>>

(* recv() returns zero or an error. *)
ReadFails ==
    /\ pc = "read"
    /\ stream = <<>> /\ peer # "open"
    /\ pc' = "recover"
    /\ UNCHANGED <<socketVars, memberVars, wireVars, serverVars, taken>>

(* '+' and '-' *)
ReadAck ==
    /\ Received("ack", NoPage)
    /\ pc' = "message"
    /\ UNCHANGED <<memberVars, peer, answers>>

(* '2': the time goes back with a suffix, ... *)
ReadTime ==
    /\ Received("time", NoPage)
    /\ m_loggedIn' = TRUE
    /\ Write(Plain("stamp"), "sync", "recover")
    /\ UNCHANGED <<m_failCount, m_message, m_schedule>>

(* ... and if that could be written an acknowledgement follows. *)
AnswerTime ==
    /\ pc = "sync"
    /\ Write(Plain("plus"), "message", "recover")
    /\ UNCHANGED <<socketVars, memberVars, stream, cut, serverVars, taken>>

(* '3' *)
ReadOther ==
    /\ Received("other", NoPage)
    /\ Write(Plain("plus"), "message", "recover")
    /\ UNCHANGED memberVars

(* Mutant of ReadUnknown: logged and otherwise ignored. *)
ReadUnknown_Ignored ==
    /\ Received("unknown", NoPage)
    /\ pc' = "message"
    /\ UNCHANGED <<memberVars, peer, answers>>

ReadUnknown ==
    /\ Received("unknown", NoPage)
    /\ Write(Plain("minus"), "message", "recover")
    /\ UNCHANGED memberVars

(* parseSchedule *)
ReadSchedule ==
    /\ Received("schedule", NoPage)
    /\ m_schedule' = TRUE
    /\ Write(Plain("plus"), "message", "recover")
    /\ UNCHANGED <<m_loggedIn, m_failCount, m_message>>

(* parseSchedule or parseFailedLogin: strtok returns null, assert(p) ends  *)
(* the process and with it the connection.                                 *)
ReadBlank ==
    /\ Received("blank", NoPage)
    /\ pc' = "aborted"
    /\ peer' = "reset"
    /\ UNCHANGED <<memberVars, answers>>

(* parseFailedLogin sleeps for BACKOFF[m_failCount] milliseconds, ... *)
ReadFailedLogin ==
    /\ Received("failed", NoPage)
    /\ pc' = "backoff"
    /\ UNCHANGED <<memberVars, peer, answers>>

(* Mutant of BackoffOver: the last index is stepped over. *)
BackoffOver_OneMore ==
    /\ pc = "backoff"
    /\ m_failCount' = IF m_failCount <= MAX_FAILS THEN m_failCount + 1 ELSE m_failCount
    /\ Write(Plain("plus"), "message", "recover")
    /\ UNCHANGED <<socketVars, m_loggedIn, m_message, m_schedule,
                   stream, cut, serverVars, taken>>

(* ... counts the failure and answers. *)
BackoffOver ==
    /\ pc = "backoff"
    /\ m_failCount' = IF m_failCount < MAX_FAILS THEN m_failCount + 1 ELSE m_failCount
    /\ Write(Plain("plus"), "message", "recover")
    /\ UNCHANGED <<socketVars, m_loggedIn, m_message, m_schedule,
                   stream, cut, serverVars, taken>>

(* parseMessage with a functional code above 3: assert(functional < 4U) in *)
(* CPOCSAGMessage ends the process before anything is stored or answered.  *)
ReadBadCode ==
    /\ Received("badcode", NoPage)
    /\ pc' = "aborted"
    /\ peer' = "reset"
    /\ UNCHANGED <<memberVars, answers>>

(* The number on the line of a page, two hexadecimal digits. *)
idOf(page) == page % ID_RANGE

(* Mutant of replyId: the number is not kept to two digits. *)
replyId_NoWrap(id) == id + 1

(* The answer to a page carries the next number. *)
replyId(id) == (id + 1) % ID_RANGE

(* parseMessage: stored first, then acknowledged. *)
ReadMessage ==
    \E page \in Pages :
        /\ Received("page", page)
        /\ m_message' = [page |-> page, conn |-> m_fd]
        /\ Write(PageAnswer(replyId(idOf(page)), TRUE), "message", "recover")
        /\ UNCHANGED <<m_loggedIn, m_failCount, m_schedule>>

(* Mutant of ReadMalformed: acknowledged like any other page. *)
ReadMalformed_Acked ==
    \E id \in Ids :
        /\ Received("badpage", NoPage)
        /\ Write(PageAnswer(replyId(id), TRUE), "message", "recover")
        /\ UNCHANGED memberVars

(* parseMessage without five fields.  The number may be cut too.           *)
ReadMalformed ==
    \E id \in Ids :
        /\ Received("badpage", NoPage)
        /\ Write(PageAnswer(replyId(id), FALSE), "message", "recover")
        /\ UNCHANGED memberVars

-----------------------------------------------------------------------------
(* The callers: run() and recover(). *)

(* The start of run(): without a connection the program ends. *)
StartOpen ==
    /\ pc = "start"
    /\ pc' = "startLogin"
    /\ Connect

StartOpenFails ==
    /\ pc = "start"
    /\ pc' = "exited"
    /\ UNCHANGED <<socketVars, memberVars, wireVars, serverVars, taken>>

StartLogin ==
    /\ pc = "startLogin"
    /\ Write(Plain("login"), "read", "exited")
    /\ m_fd' = IF pc' = "exited" THEN Closed ELSE m_fd
    /\ UNCHANGED <<conns, memberVars, stream, cut, serverVars, taken>>

(* Mutant of TakeMessage: readMessage does not forget what it returned. *)
TakeMessage_Keeps ==
    /\ pc = "message"
    /\ pc' = "read"
    /\ taken' = IF m_message = None THEN taken ELSE Append(taken, m_message)
    /\ m_schedule' \in {m_schedule, FALSE}
    /\ UNCHANGED <<socketVars, m_loggedIn, m_failCount, m_message,
                   wireVars, serverVars>>

(* readMessage and, at the start of a slot, readSchedule.                  *)
TakeMessage ==
    /\ pc = "message"
    /\ pc' = "read"
    /\ taken' = IF m_message = None THEN taken ELSE Append(taken, m_message)
    /\ m_message' = None
    /\ m_schedule' \in {m_schedule, FALSE}
    /\ UNCHANGED <<socketVars, m_loggedIn, m_failCount, wireVars, serverVars>>

(* Mutant of RecoverClose: the dead socket is kept, so that open() finds   *)
(* it open.                                                                *)
RecoverClose_Keeps ==
    /\ pc = "recover"
    /\ pc' = "login"
    /\ UNCHANGED <<socketVars, memberVars, wireVars, serverVars, taken>>

(* close(): what has not been read is lost, what has been written is not.  *)
RecoverClose ==
    /\ pc = "recover"
    /\ pc' = "open"
    /\ m_fd' = Closed
    /\ peer' = "reset" /\ stream' = <<>> /\ cut' = FALSE
    /\ UNCHANGED <<conns, memberVars, answers, serverVars, taken>>

RecoverOpen ==
    /\ pc = "open"
    /\ pc' = "login"
    /\ Connect

(* Mutant of RecoverOpenFails: recover() gives up. *)
RecoverOpenFails_GivesUp ==
    /\ pc = "open"
    /\ pc' = "message"
    /\ UNCHANGED <<socketVars, memberVars, wireVars, serverVars, taken>>

(* No address, no socket or no connection: from the top. *)
RecoverOpenFails ==
    /\ pc = "open"
    /\ pc' = "recover"
    /\ UNCHANGED <<socketVars, memberVars, wireVars, serverVars, taken>>

(* Mutant of RecoverLogin: the loop goes on with the next read. *)
RecoverLogin_Continue ==
    /\ pc = "login"
    /\ Write(Plain("login"), "read", "recover")
    /\ UNCHANGED <<socketVars, memberVars, stream, cut, serverVars, taken>>

RecoverLogin ==
    /\ pc = "login"
    /\ Write(Plain("login"), "message", "recover")
    /\ UNCHANGED <<socketVars, memberVars, stream, cut, serverVars, taken>>

-----------------------------------------------------------------------------
(* The server and the network: external. *)

ServerSends(kind, page) ==
    /\ accepted /\ peer = "open"
    /\ owed < WINDOW
    /\ stream' = Append(stream, Line(kind, page))
    /\ owed' = IF kind = "ack" THEN owed ELSE owed + 1
    /\ UNCHANGED <<pc, socketVars, memberVars, peer, cut, answers, accepted, acked, taken>>

(* A page that is not acknowledged is sent once in every connection, under *)
(* a number that no other page of the connection waits with.               *)
ServerSendsPage(page) ==
    /\ page \notin acked \cup outstanding
    /\ \A p \in outstanding : idOf(p) # idOf(page)
    /\ ServerSends("page", page)
    /\ outstanding' = outstanding \cup {page}
    /\ offered' = offered \cup {page}
    /\ UNCHANGED others

ServerSendsOther ==
    /\ others < MAX_OTHERS
    /\ \E kind \in OtherKinds : ServerSends(kind, NoPage)
    /\ others' = others + 1
    /\ UNCHANGED <<outstanding, offered>>

ServerReads ==
    /\ answers # <<>>
    /\ answers' = Tail(answers)
    /\ UNCHANGED <<pc, socketVars, memberVars, peer, stream, cut, others, offered, taken>>

ServerAccepts ==
    /\ ServerReads
    /\ Head(answers).kind = "login"
    /\ accepted' = TRUE
    /\ UNCHANGED <<outstanding, owed, acked>>

(* The page that a positive answer acknowledges. *)
Acknowledged(answer) ==
    {p \in outstanding : /\ answer.kind = "page" /\ answer.ok
                         /\ answer.id = (idOf(p) + 1) % ID_RANGE}

ServerHears ==
    /\ ServerReads
    /\ Head(answers).kind # "login"
    /\ owed' = IF Head(answers).kind = "stamp" \/ owed = 0 THEN owed ELSE owed - 1
    /\ outstanding' = outstanding \ Acknowledged(Head(answers))
    /\ acked' = acked \cup Acknowledged(Head(answers))
    /\ UNCHANGED accepted

(* What the server has sent can still be read, what it has not read is     *)
(* lost.                                                                   *)
ServerCloses ==
    /\ peer = "open" /\ conns < MAX_CONNS
    /\ peer' = "closed"
    /\ answers' = <<>>
    /\ UNCHANGED <<pc, socketVars, memberVars, stream, cut, serverVars, taken>>

(* A reset, or a time-out of the connection. *)
ConnectionBreaks ==
    /\ m_fd # Closed /\ peer # "reset" /\ conns < MAX_CONNS
    /\ peer' = "reset"
    /\ stream' = <<>> /\ cut' = FALSE /\ answers' = <<>>
    /\ UNCHANGED <<pc, socketVars, memberVars, serverVars, taken>>

Terminated == pc \in {"aborted", "exited"} /\ UNCHANGED vars

-----------------------------------------------------------------------------
read ==
    \/ ReadNothing \/ ReadFails \/ ReadAck \/ ReadTime \/ AnswerTime
    \/ ReadOther \/ ReadUnknown \/ ReadSchedule \/ ReadBlank
    \/ ReadFailedLogin \/ BackoffOver \/ ReadMessage \/ ReadMalformed \/ ReadBadCode

recover == RecoverClose \/ RecoverOpen \/ RecoverOpenFails \/ RecoverLogin

Gateway ==
    \/ StartOpen \/ StartOpenFails \/ StartLogin
    \/ read \/ TakeMessage \/ recover

Server ==
    \/ \E page \in Pages : ServerSendsPage(page)
    \/ ServerSendsOther \/ ServerAccepts \/ ServerHears

Next ==
    \/ Gateway \/ Server \/ ServerCloses \/ ConnectionBreaks \/ Terminated

Spec == Init /\ [][Next]_vars

(* Every call of the gateway returns.  The server goes on sending what is  *)
(* not acknowledged and reads what it is sent; an attempt to connect that  *)
(* can succeed does so in the end.                                         *)
Fairness ==
    /\ WF_vars(Gateway)
    /\ SF_vars(RecoverOpen)
    /\ WF_vars(ServerAccepts) /\ WF_vars(ServerHears)
    /\ \A page \in Pages : WF_vars(ServerSendsPage(page))

FairSpec == Spec /\ Fairness

-----------------------------------------------------------------------------
(* Safety. *)

(* The assertions in CTCPSocket::read and write (TCPSocket.cpp:131 and     *)
(* 211): the socket is open wherever it is used, whichever way recover()   *)
(* and the start went.                                                     *)
SocketOpen ==
    pc \in {"startLogin", "read", "sync", "backoff", "login"} => m_fd # Closed

(* However lines are joined and cut, as long as the rest of a cut line     *)
(* does not look like a page, and although an answer may be lost with its  *)
(* connection and the page sent again, no page is handed to the queue      *)
(* twice from one connection.                                              *)
OncePerConnection ==
    \A i, j \in DOMAIN taken : taken[i] = taken[j] => i = j

(* parseMessage never writes over a page that readMessage has not taken,   *)
(* not even when the read failed and the connection was recovered first.   *)
NoPageDropped ==
    [][ m_message # None /\ m_message' # m_message
          => m_message' = None /\ taken' = Append(taken, m_message) ]_vars

(* assert(p != nullptr) in parseSchedule and parseFailedLogin              *)
(* (DAPNETNetwork.cpp:220 and 271): there is something behind the number;  *)
(* and assert(functional < 4U) (POCSAGMessage.cpp:33).                     *)
AssertionsHold == pc # "aborted"

(* The pages that the gateway holds or has handed on, with the connection  *)
(* in which each came.                                                     *)
Held ==
    {taken[i] : i \in DOMAIN taken}
        \cup IF m_message = None THEN {} ELSE {m_message}

storedBar == {arrival.page : arrival \in Held}

Delivery == INSTANCE PageDelivery WITH stored <- storedBar

(* Whatever was acknowledged had been stored before, and is handed on: see *)
(* PageDelivery.                                                           *)
AcksAreHonest == Delivery!Spec

placeBar ==
    CASE pc = "backoff" -> "backoff"
      [] pc \in {"recover", "open", "login"} -> "recover"
      [] pc = "message" -> "take"
      [] OTHER -> "read"

Input == INSTANCE DAPNETInput WITH
    Nothing  <- NoPage,
    place    <- placeBar,
    message  <- IF m_message = None THEN NoPage ELSE m_message.page,
    schedule <- m_schedule

(* The main loop is handed what DAPNETGateway takes for its input: after a *)
(* read that failed nothing is read before the connection is recovered,    *)
(* and nothing recovered before what was read is taken.                    *)
FeedsTheLoop == Input!Spec

(* Liveness, with one line to a read: every page that the server offers is *)
(* acknowledged in the end, across lost connections, failed logins and     *)
(* unknown lines, and with numbers that wrap.                              *)
EveryPageArrives == \A page \in Pages : page \in offered ~> page \in acked
=============================================================================
