------------------------ MODULE DAPNETSessionProofs ------------------------
(***************************************************************************)
(* The safety properties of DAPNETSession, for any number of pages, lines, *)
(* connections and numbers on a line, and however TCP joins and cuts.      *)
(***************************************************************************)
EXTENDS DAPNETSession, SequenceTheorems, TLAPS

USE DEF Conns, Arrivals

-----------------------------------------------------------------------------
(* Types. *)

(* The numbers, and the answer that goes with each. *)
LEMMA NumberRange == \A page \in Pages : idOf(page) \in Ids
<1> SUFFICES ASSUME NEW page \in Pages PROVE page % ID_RANGE \in 0 .. ID_RANGE - 1
    BY DEF idOf, Ids
<1>1. ID_RANGE \in Nat \ {0, 1} /\ page \in Nat
    BY SessionAssumption DEF SessionAssumption, Pages
<1> QED
    BY ONLY <1>1

LEMMA AnswerTypes ==
    /\ \A kind \in {"login", "stamp", "plus", "minus"} : Plain(kind) \in Answers
    /\ \A id \in Nat, ok \in BOOLEAN : PageAnswer(replyId(id), ok) \in Answers
<1>1. \A id \in Nat : replyId(id) \in Nat
    BY SessionAssumption DEF SessionAssumption, replyId
<1> QED
    BY <1>1 DEF Plain, PageAnswer, Answers

LEMMA WriteType ==
    ASSUME TypeOK, NEW answer \in Answers, NEW next \in Steps, NEW failed \in Steps,
           Write(answer, next, failed)
    PROVE  /\ pc' \in Steps
           /\ peer' \in {"open", "closed", "reset"}
           /\ answers' \in Seq(Answers)
<1>1. answers \in Seq(Answers) /\ peer \in {"open", "closed", "reset"}
    BY DEF TypeOK
<1>2. Append(answers, answer) \in Seq(Answers)
    BY <1>1
<1> QED
    BY <1>1, <1>2 DEF Write

(* What is read leaves a suffix of the stream. *)
LEMMA ReceivedType ==
    ASSUME TypeOK, NEW kind, NEW page, Received(kind, page)
    PROVE  stream' \in Seq(Lines) /\ cut' \in BOOLEAN
<1>1. PICK k \in 0 .. COALESCE, more \in Cuts :
        /\ k <= Len(stream)
        /\ stream' = SubSeq(stream, k + 1, Len(stream))
        /\ cut' = more
    BY DEF Received
<1>2. k \in Nat /\ more \in BOOLEAN
    BY SessionAssumption DEF SessionAssumption
<1>3. stream \in Seq(Lines)
    BY DEF TypeOK
<1>4. \A i \in k + 1 .. Len(stream) : stream[i] \in Lines
    BY <1>2, <1>3, LenProperties
<1>5. SubSeq(stream, k + 1, Len(stream)) \in Seq(Lines)
    BY <1>2, <1>3, <1>4, LenProperties, SubSeqProperties
<1> QED
    BY <1>1, <1>2, <1>5

LEMMA TypeInit == Init => TypeOK
<1> SUFFICES ASSUME Init PROVE TypeOK
    OBVIOUS
<1>1. stream \in Seq(Lines) /\ answers \in Seq(Answers) /\ taken \in Seq(Arrivals)
    BY DEF Init
<1>2. m_failCount \in 0 .. MAX_FAILS /\ others \in 0 .. MAX_OTHERS /\ conns \in 0 .. MAX_CONNS
    BY SessionAssumption DEF SessionAssumption, Init
<1> QED
    BY <1>1, <1>2 DEF Init, TypeOK, Steps

LEMMA TypeRead ==
    ASSUME TypeOK, SocketOpen, read
    PROVE  TypeOK'
<1> USE SessionAssumption
        DEF SessionAssumption, TypeOK, socketVars, memberVars, wireVars, serverVars
<1>1. CASE ReadNothing \/ ReadFails
    BY <1>1 DEF ReadNothing, ReadFails, Steps
<1>2. CASE ReadAck
    BY <1>2, ReceivedType DEF ReadAck, Received, Steps
<1>3. CASE ReadTime
  <2>1. Received("time", NoPage) /\ Write(Plain("stamp"), "sync", "recover")
      BY <1>3 DEF ReadTime
  <2>2. /\ stream' \in Seq(Lines) /\ cut' \in BOOLEAN
        /\ pc' \in Steps /\ peer' \in {"open", "closed", "reset"}
        /\ answers' \in Seq(Answers)
      BY <2>1, ReceivedType, WriteType, AnswerTypes DEF Steps
  <2> QED
      BY <1>3, <2>1, <2>2 DEF ReadTime, Received
<1>4. CASE AnswerTime \/ BackoffOver
  <2>1. Write(Plain("plus"), "message", "recover")
      BY <1>4 DEF AnswerTime, BackoffOver
  <2>2. /\ pc' \in Steps /\ peer' \in {"open", "closed", "reset"}
        /\ answers' \in Seq(Answers)
      BY <2>1, WriteType, AnswerTypes DEF Steps
  <2> QED
      BY <1>4, <2>2 DEF AnswerTime, BackoffOver
<1>5. CASE ReadOther \/ ReadUnknown \/ ReadSchedule
  <2>1. PICK answer \in Answers, kind \in Kinds :
          Received(kind, NoPage) /\ Write(answer, "message", "recover")
      BY <1>5, AnswerTypes DEF ReadOther, ReadUnknown, ReadSchedule, Kinds
  <2>2. /\ stream' \in Seq(Lines) /\ cut' \in BOOLEAN
        /\ pc' \in Steps /\ peer' \in {"open", "closed", "reset"}
        /\ answers' \in Seq(Answers)
      BY <2>1, ReceivedType, WriteType DEF Steps
  <2> QED
      BY <1>5, <2>1, <2>2 DEF ReadOther, ReadUnknown, ReadSchedule, Received
<1>6. CASE ReadBlank \/ ReadBadCode \/ ReadFailedLogin
    BY <1>6, ReceivedType DEF ReadBlank, ReadBadCode, ReadFailedLogin, Received, Steps
<1>7. CASE ReadMessage
  <2>1. PICK page \in Pages :
          /\ Received("page", page)
          /\ m_message' = [page |-> page, conn |-> m_fd]
          /\ Write(PageAnswer(replyId(idOf(page)), TRUE), "message", "recover")
          /\ UNCHANGED <<m_loggedIn, m_failCount, m_schedule>>
      BY <1>7 DEF ReadMessage
  <2>2. idOf(page) \in Nat
      BY NumberRange DEF Ids
  <2>3. /\ stream' \in Seq(Lines) /\ cut' \in BOOLEAN
        /\ pc' \in Steps /\ peer' \in {"open", "closed", "reset"}
        /\ answers' \in Seq(Answers)
      BY <2>1, <2>2, ReceivedType, WriteType, AnswerTypes DEF Steps
  <2>4. m_fd \in 1 .. MAX_CONNS
      BY <2>1 DEF Received, SocketOpen
  <2> QED
      BY <2>1, <2>3, <2>4 DEF Received
<1>8. CASE ReadMalformed
  <2>1. PICK id \in Ids :
          /\ Received("badpage", NoPage)
          /\ Write(PageAnswer(replyId(id), FALSE), "message", "recover")
          /\ UNCHANGED memberVars
      BY <1>8 DEF ReadMalformed
  <2>2. id \in Nat
      BY DEF Ids
  <2>3. /\ stream' \in Seq(Lines) /\ cut' \in BOOLEAN
        /\ pc' \in Steps /\ peer' \in {"open", "closed", "reset"}
        /\ answers' \in Seq(Answers)
      BY <2>1, <2>2, ReceivedType, WriteType, AnswerTypes DEF Steps
  <2> QED
      BY <2>1, <2>3 DEF Received
<1> QED
    BY <1>1, <1>2, <1>3, <1>4, <1>5, <1>6, <1>7, <1>8 DEF read

LEMMA TypeCallers ==
    ASSUME TypeOK, StartOpen \/ StartOpenFails \/ StartLogin \/ TakeMessage \/ recover
    PROVE  TypeOK'
<1> USE SessionAssumption
        DEF SessionAssumption, TypeOK, socketVars, memberVars, wireVars, serverVars
<1>1. CASE StartOpenFails \/ RecoverOpenFails
    BY <1>1 DEF StartOpenFails, RecoverOpenFails, Steps
<1>2. CASE RecoverClose
  <2>1. stream' \in Seq(Lines)
      BY <1>2 DEF RecoverClose
  <2> QED
      BY <1>2, <2>1 DEF RecoverClose, Steps
<1>3. CASE StartOpen \/ RecoverOpen
  <2>1. Connect /\ pc' \in Steps
      BY <1>3 DEF StartOpen, RecoverOpen, Steps
  <2>2. conns' \in 0 .. MAX_CONNS /\ m_fd' \in 1 .. MAX_CONNS
      BY <2>1 DEF Connect
  <2>3. stream' \in Seq(Lines) /\ answers' \in Seq(Answers)
      BY <2>1 DEF Connect
  <2> QED
      BY <2>1, <2>2, <2>3 DEF Connect
<1>4. CASE StartLogin \/ RecoverLogin
  <2>1. PICK next \in Steps, failed \in Steps : Write(Plain("login"), next, failed)
      BY <1>4 DEF StartLogin, RecoverLogin, Steps
  <2>2. /\ pc' \in Steps /\ peer' \in {"open", "closed", "reset"}
        /\ answers' \in Seq(Answers)
      BY <2>1, WriteType, AnswerTypes
  <2>3. m_fd' \in {m_fd, Closed}
      BY <1>4 DEF StartLogin, RecoverLogin
  <2> QED
      BY <1>4, <2>2, <2>3 DEF StartLogin, RecoverLogin
<1>5. CASE TakeMessage
  <2>1. taken' \in Seq(Arrivals)
    <3>1. CASE m_message = None
        BY <1>5, <3>1 DEF TakeMessage
    <3>2. CASE m_message # None
        BY <1>5, <3>2 DEF TakeMessage
    <3> QED
        BY <3>1, <3>2
  <2> QED
      BY <1>5, <2>1 DEF TakeMessage, Steps
<1> QED
    BY <1>1, <1>2, <1>3, <1>4, <1>5 DEF recover

LEMMA TypeServer ==
    ASSUME TypeOK, Server \/ ServerCloses \/ ConnectionBreaks \/ Terminated \/ UNCHANGED vars
    PROVE  TypeOK'
<1> USE SessionAssumption
        DEF SessionAssumption, TypeOK, socketVars, memberVars, wireVars, serverVars
<1>1. ASSUME NEW kind \in Kinds, NEW page \in Pages \cup {NoPage}, ServerSends(kind, page)
      PROVE  stream' \in Seq(Lines) /\ owed' \in Nat
  <2>1. Line(kind, page) \in Lines
      BY DEF Line, Lines
  <2> QED
      BY <1>1, <2>1 DEF ServerSends
<1>2. CASE \E page \in Pages : ServerSendsPage(page)
  <2>1. PICK page \in Pages : ServerSendsPage(page)
      BY <1>2
  <2>2. ServerSends("page", page)
      BY <2>1 DEF ServerSendsPage
  <2>3. stream' \in Seq(Lines) /\ owed' \in Nat
      BY <1>1, <2>2 DEF Kinds
  <2> QED
      BY <2>1, <2>2, <2>3 DEF ServerSendsPage, ServerSends
<1>3. CASE ServerSendsOther
  <2>1. PICK kind \in OtherKinds : ServerSends(kind, NoPage)
      BY <1>3 DEF ServerSendsOther
  <2>2. stream' \in Seq(Lines) /\ owed' \in Nat
      BY <1>1, <2>1
  <2> QED
      BY <1>3, <2>1, <2>2 DEF ServerSendsOther, ServerSends
<1>4. CASE ServerAccepts \/ ServerHears
  <2>1. ServerReads
      BY <1>4 DEF ServerAccepts, ServerHears
  <2>2. answers' \in Seq(Answers)
      BY <2>1, HeadTailProperties DEF ServerReads
  <2>3. owed' \in Nat
      BY <1>4 DEF ServerAccepts, ServerHears
  <2>4. /\ accepted' \in BOOLEAN
        /\ outstanding' \in SUBSET Pages /\ acked' \in SUBSET Pages
      BY <1>4 DEF ServerAccepts, ServerHears, Acknowledged
  <2> QED
      BY <2>1, <2>2, <2>3, <2>4 DEF ServerReads
<1>5. CASE ServerCloses \/ ConnectionBreaks
  <2>1. (stream' = stream \/ stream' = <<>>) /\ answers' = <<>>
      BY <1>5 DEF ServerCloses, ConnectionBreaks
  <2>2. <<>> \in Seq(Lines) /\ <<>> \in Seq(Answers)
      BY EmptySeq
  <2>3. stream' \in Seq(Lines) /\ answers' \in Seq(Answers)
      BY <2>1, <2>2
  <2> QED
      BY <1>5, <2>3 DEF ServerCloses, ConnectionBreaks
<1>6. CASE Terminated \/ UNCHANGED vars
    BY <1>6 DEF Terminated, vars
<1> QED
    BY <1>2, <1>3, <1>4, <1>5, <1>6 DEF Server

-----------------------------------------------------------------------------
(* The socket, and the page that waits for readMessage. *)

(* recover() ends with a socket or not at all, and every socket is the     *)
(* last connection.                                                        *)
SocketInv ==
    /\ pc \in {"startLogin", "read", "sync", "backoff", "message", "login"}
         => m_fd # Closed
    /\ m_fd # Closed => m_fd = conns

(* Between two reads lies a readMessage, whatever the first led to. *)
HandsFree == pc \in {"start", "startLogin", "read"} => m_message = None

PlaceInv == TypeOK /\ SocketInv /\ HandsFree

LEMMA PlaceInvInit == Init => PlaceInv
BY TypeInit DEF Init, PlaceInv, SocketInv, HandsFree

LEMMA SocketStep ==
    ASSUME PlaceInv, [Next]_vars
    PROVE  SocketInv' /\ HandsFree'
<1> USE SessionAssumption
        DEF SessionAssumption, SocketInv, HandsFree, socketVars, memberVars
<1> SocketInv /\ HandsFree
    BY DEF PlaceInv
<1>1. CASE ReadNothing \/ ReadFails \/ ReadAck \/ ReadBlank \/ ReadBadCode \/ ReadFailedLogin
    BY <1>1 DEF ReadNothing, ReadFails, ReadAck, ReadBlank, ReadBadCode, ReadFailedLogin,
        Received
<1>2. CASE ReadTime \/ AnswerTime \/ BackoffOver
    BY <1>2 DEF ReadTime, AnswerTime, BackoffOver, Received, Write
<1>3. CASE ReadOther \/ ReadUnknown \/ ReadSchedule
    BY <1>3 DEF ReadOther, ReadUnknown, ReadSchedule, Received, Write
<1>4. CASE ReadMessage \/ ReadMalformed
    BY <1>4 DEF ReadMessage, ReadMalformed, Received, Write
<1>5. CASE StartOpen \/ RecoverOpen
  <2>1. m_fd' = conns' /\ conns' \in Nat /\ m_message' = m_message
      BY <1>5 DEF StartOpen, RecoverOpen, Connect, PlaceInv, TypeOK
  <2> QED
      BY <1>5, <2>1 DEF StartOpen, RecoverOpen
<1>6. CASE StartOpenFails \/ RecoverOpenFails \/ RecoverClose
    BY <1>6 DEF StartOpenFails, RecoverOpenFails, RecoverClose
<1>7. CASE StartLogin \/ RecoverLogin
    BY <1>7 DEF StartLogin, RecoverLogin, Write
<1>8. CASE TakeMessage
    BY <1>8 DEF TakeMessage
<1>9. CASE Server
    BY <1>9 DEF Server, ServerSendsPage, ServerSendsOther, ServerSends,
                ServerAccepts, ServerHears, ServerReads
<1>10. CASE ServerCloses \/ ConnectionBreaks
    BY <1>10 DEF ServerCloses, ConnectionBreaks
<1>11. CASE Terminated \/ UNCHANGED vars
    BY <1>11 DEF Terminated, vars
<1> QED
    BY <1>1, <1>2, <1>3, <1>4, <1>5, <1>6, <1>7, <1>8, <1>9, <1>10, <1>11
       DEF Next, Gateway, read, recover

LEMMA PlaceInvStep == PlaceInv /\ [Next]_vars => PlaceInv'
<1> SUFFICES ASSUME PlaceInv, [Next]_vars PROVE PlaceInv'
    OBVIOUS
<1>1. TypeOK /\ SocketOpen
    BY DEF PlaceInv, SocketInv, SocketOpen
<1>2. TypeOK'
    BY <1>1, TypeRead, TypeCallers, TypeServer DEF Next, Gateway
<1> QED
    BY <1>2, SocketStep DEF PlaceInv

LEMMA PlaceInvHolds == Spec => []PlaceInv
BY PlaceInvInit, PlaceInvStep, PTL DEF Spec

(* The state of the session keeps its types; m_failCount stays an index of *)
(* BACKOFF however often a login fails.                                    *)
THEOREM SessionTypeCorrect == Spec => []TypeOK
<1>1. PlaceInv => TypeOK
    BY DEF PlaceInv
<1> QED
    BY <1>1, PlaceInvHolds, PTL

(* The assertions on the socket hold wherever it is used.                  *)
THEOREM SocketKeptOpen == Spec => []SocketOpen
<1>1. PlaceInv => SocketOpen
    BY DEF PlaceInv, SocketInv, SocketOpen
<1> QED
    BY <1>1, PlaceInvHolds, PTL

LEMMA MessageStep ==
    ASSUME PlaceInv, [Next]_vars, m_message # None, m_message' # m_message
    PROVE  m_message' = None /\ taken' = Append(taken, m_message)
<1> USE DEF memberVars
<1>1. pc # "read"
    BY DEF PlaceInv, HandsFree
<1>2. CASE read
    BY <1>1, <1>2
       DEF read, ReadNothing, ReadFails, ReadAck, ReadTime, AnswerTime, ReadOther,
           ReadUnknown, ReadSchedule, ReadBlank, ReadBadCode, ReadFailedLogin, BackoffOver,
           ReadMessage, ReadMalformed, Received
<1>3. CASE StartOpen \/ StartOpenFails \/ StartLogin \/ recover
    BY <1>3 DEF StartOpen, StartOpenFails, StartLogin, recover, RecoverClose,
                RecoverOpen, RecoverOpenFails, RecoverLogin, Connect
<1>4. CASE TakeMessage
    BY <1>4 DEF TakeMessage
<1>5. CASE Server
    BY <1>5 DEF Server, ServerSendsPage, ServerSendsOther, ServerSends,
                ServerAccepts, ServerHears, ServerReads
<1>6. CASE ServerCloses \/ ConnectionBreaks
    BY <1>6 DEF ServerCloses, ConnectionBreaks
<1>7. CASE Terminated \/ UNCHANGED vars
    BY <1>7 DEF Terminated, vars
<1> QED
    BY <1>2, <1>3, <1>4, <1>5, <1>6, <1>7 DEF Next, Gateway

(* A stored page is taken before the next one can come.                    *)
THEOREM PagesKept == Spec => NoPageDropped
<1>1. PlaceInv /\ [Next]_vars
        => [m_message # None /\ m_message' # m_message
              => m_message' = None /\ taken' = Append(taken, m_message)]_vars
    BY MessageStep
<1> QED
    BY <1>1, PlaceInvHolds, PTL DEF Spec, NoPageDropped

-----------------------------------------------------------------------------
(* What the main loop sees of it. *)

LEMMA InputStep ==
    ASSUME PlaceInv, [Next]_vars
    PROVE  [Input!Next]_(Input!vars)
<1> USE DEF placeBar, Input!vars
<1>1. CASE ReadNothing \/ ReadFails \/ ReadAck \/ ReadOther \/ ReadUnknown \/ ReadMalformed
           \/ ReadTime \/ AnswerTime
  <2>1. pc \in {"read", "sync"} /\ pc' \in {"message", "recover", "sync"}
      BY <1>1 DEF ReadNothing, ReadFails, ReadAck, ReadOther, ReadUnknown,
                  ReadMalformed, ReadTime, AnswerTime, Received, Write
  <2>2. m_message' = m_message /\ m_schedule' = m_schedule
      BY <1>1 DEF ReadNothing, ReadFails, ReadAck, ReadOther, ReadUnknown,
                  ReadMalformed, ReadTime, AnswerTime, memberVars
  <2>3. CASE pc' = "sync"
      BY <2>1, <2>2, <2>3
  <2>4. CASE pc' # "sync"
    <3>1. Input!ReadOther
        BY <2>1, <2>2, <2>4 DEF Input!ReadOther, Input!Returns
    <3> QED
        BY <3>1 DEF Input!Next
  <2> QED
      BY <2>3, <2>4
<1>2. CASE ReadSchedule
  <2>1. pc = "read" /\ pc' \in {"message", "recover"}
      BY <1>2 DEF ReadSchedule, Received, Write
  <2>2. Input!ReadSchedule
      BY <1>2, <2>1 DEF ReadSchedule, Input!ReadSchedule, Input!Returns
  <2> QED
      BY <2>2 DEF Input!Next
<1>3. CASE ReadMessage
  <2>1. PICK page \in Pages :
          /\ Received("page", page)
          /\ m_message' = [page |-> page, conn |-> m_fd]
          /\ Write(PageAnswer(replyId(idOf(page)), TRUE), "message", "recover")
          /\ UNCHANGED <<m_loggedIn, m_failCount, m_schedule>>
      BY <1>3 DEF ReadMessage
  <2>2. pc = "read" /\ pc' \in {"message", "recover"}
      BY <2>1 DEF Received, Write
  <2>3. m_message = None
      BY <2>2 DEF PlaceInv, HandsFree
  <2>4. m_fd \in Conns
      BY <2>2 DEF PlaceInv, SocketInv, TypeOK
  <2>5. m_message' # None /\ m_message'.page = page
      BY <2>1, <2>4, SessionAssumption DEF SessionAssumption
  <2>6. Input!ReadPage
      BY <2>1, <2>2, <2>3, <2>5 DEF Input!ReadPage, Input!Returns
  <2> QED
      BY <2>6 DEF Input!Next
<1>4. CASE ReadFailedLogin
  <2>1. Input!ReadFailedLogin
      BY <1>4 DEF ReadFailedLogin, Received, memberVars, Input!ReadFailedLogin
  <2> QED
      BY <2>1 DEF Input!Next
<1>5. CASE BackoffOver
  <2>1. pc = "backoff" /\ pc' \in {"message", "recover"}
      BY <1>5 DEF BackoffOver, Write
  <2>2. Input!BackoffOver
      BY <1>5, <2>1 DEF BackoffOver, Input!BackoffOver, Input!Returns
  <2> QED
      BY <2>2 DEF Input!Next
<1>6. CASE RecoverLogin
  <2>1. pc = "login" /\ pc' \in {"message", "recover"}
      BY <1>6 DEF RecoverLogin, Write
  <2>2. m_message' = m_message /\ m_schedule' = m_schedule
      BY <1>6 DEF RecoverLogin, memberVars
  <2>3. CASE pc' = "message"
    <3>1. Input!Recovered
        BY <2>1, <2>2, <2>3 DEF Input!Recovered
    <3> QED
        BY <3>1 DEF Input!Next
  <2>4. CASE pc' = "recover"
      BY <2>1, <2>2, <2>4
  <2> QED
      BY <2>1, <2>3, <2>4
<1>7. CASE TakeMessage
  <2>1. m_message' = None
      BY <1>7 DEF TakeMessage
  <2>2. Input!Take
      BY <1>7, <2>1 DEF TakeMessage, Input!Take
  <2> QED
      BY <2>2 DEF Input!Next
<1>8. CASE StartOpen \/ StartOpenFails \/ StartLogin \/ ReadBlank \/ ReadBadCode
           \/ RecoverClose \/ RecoverOpen \/ RecoverOpenFails
  <2>1. m_message' = m_message /\ m_schedule' = m_schedule
      BY <1>8 DEF StartOpen, StartOpenFails, StartLogin, ReadBlank, ReadBadCode,
          RecoverClose,
                  RecoverOpen, RecoverOpenFails, Connect, memberVars
  <2>2. \/ /\ pc \in {"start", "startLogin", "read"}
           /\ pc' \in {"startLogin", "read", "exited", "aborted"}
        \/ /\ pc \in {"recover", "open"}
           /\ pc' \in {"recover", "open", "login"}
      BY <1>8 DEF StartOpen, StartOpenFails, StartLogin, ReadBlank, ReadBadCode,
          Received, Write,
                  RecoverClose, RecoverOpen, RecoverOpenFails
  <2> QED
      BY <2>1, <2>2
<1>9. CASE Server \/ ServerCloses \/ ConnectionBreaks \/ Terminated \/ UNCHANGED vars
  <2>1. pc' = pc /\ m_message' = m_message /\ m_schedule' = m_schedule
      BY <1>9 DEF Server, ServerSendsPage, ServerSendsOther, ServerSends, ServerAccepts,
                  ServerHears, ServerReads, ServerCloses, ConnectionBreaks, Terminated,
                  vars, memberVars
  <2> QED
      BY <2>1
<1> QED
    BY <1>1, <1>2, <1>3, <1>4, <1>5, <1>6, <1>7, <1>8, <1>9
       DEF Next, Gateway, read, recover

(* The session hands on what DAPNETInput promises the main loop, however   *)
(* TCP joins and cuts, and wherever a read, an answer or a recovery fails. *)
THEOREM SessionFeedsTheLoop == Spec => FeedsTheLoop
<1>1. Init => Input!Init
    BY DEF Init, Input!Init, placeBar
<1>2. PlaceInv /\ [Next]_vars => [Input!Next]_(Input!vars)
    BY InputStep
<1> QED
    BY <1>1, <1>2, PlaceInvHolds, PTL DEF Spec, FeedsTheLoop, Input!Spec
-----------------------------------------------------------------------------
(* The assertions of the parser. *)

(* What an assertion of the parser does not expect. *)
Fatal == {"blank", "badcode"}

(* A server that never sends a number alone nor a functional code above 3, *)
(* over a network that hands each recv() whole lines.                      *)
WholeLinesOnly == Cuts = {FALSE} /\ OtherKinds \subseteq Kinds \ ({"page"} \cup Fatal)

(* Then no line is ever in part, ... *)
NothingFatal ==
    /\ cut = FALSE
    /\ \A i \in 1 .. Len(stream) : stream[i].kind \notin Fatal

(* ... and no more lines are before the gateway than there were. *)
LEMMA ReceivedWhole ==
    ASSUME WholeLinesOnly, TypeOK, NothingFatal, NEW kind, NEW page, Received(kind, page)
    PROVE  NothingFatal' /\ kind \notin Fatal
<1>1. PICK k \in 0 .. COALESCE, more \in Cuts :
        /\ k <= Len(stream)
        /\ k > 0 \/ (more /\ ~cut)
        /\ Line(kind, page) \in Looks(k)
        /\ stream' = SubSeq(stream, k + 1, Len(stream))
        /\ cut' = more
    BY DEF Received
<1>2. k \in Nat /\ more = FALSE /\ k > 0
    BY <1>1, SessionAssumption DEF SessionAssumption, WholeLinesOnly
<1>3. stream \in Seq(Lines)
    BY DEF TypeOK
<1>4. Len(stream) \in Nat /\ 1 \in 1 .. Len(stream) /\ Head(stream) = stream[1]
    BY <1>1, <1>2, <1>3
<1>5. Line(kind, page) = Head(stream)
    BY <1>1, <1>2 DEF Looks, NothingFatal
<1>6. kind \notin Fatal
    BY <1>4, <1>5 DEF NothingFatal, Line
<1>7. /\ Len(stream') = Len(stream) - k
      /\ \A i \in 1 .. Len(stream) - k : stream'[i] = stream[i + k]
    BY <1>1, <1>2, <1>3, <1>4, LenProperties, SubSeqProperties
<1>8. \A i \in 1 .. Len(stream') : i + k \in 1 .. Len(stream) /\ stream'[i] = stream[i + k]
    BY <1>2, <1>4, <1>7
<1> QED
    BY <1>1, <1>2, <1>6, <1>8 DEF NothingFatal

LEMMA WholeStep ==
    ASSUME WholeLinesOnly, TypeOK, NothingFatal, AssertionsHold, [Next]_vars
    PROVE  NothingFatal' /\ AssertionsHold'
<1> USE DEF AssertionsHold, socketVars, memberVars, wireVars, serverVars
<1>1. CASE ReadAck \/ ReadTime \/ ReadOther \/ ReadUnknown \/ ReadSchedule
           \/ ReadFailedLogin \/ ReadMessage \/ ReadMalformed
  <2>1. \E kind, page : Received(kind, page)
      BY <1>1 DEF ReadAck, ReadTime, ReadOther, ReadUnknown, ReadSchedule,
                  ReadFailedLogin, ReadMessage, ReadMalformed
  <2>2. pc' \in {"message", "sync", "recover", "backoff"}
      BY <1>1 DEF ReadAck, ReadTime, ReadOther, ReadUnknown, ReadSchedule,
                  ReadFailedLogin, ReadMessage, ReadMalformed, Write
  <2> QED
      BY <2>1, <2>2, ReceivedWhole
<1>2. CASE ReadBlank \/ ReadBadCode
    BY <1>2, ReceivedWhole DEF ReadBlank, ReadBadCode, Fatal
<1>3. CASE ReadNothing \/ ReadFails \/ AnswerTime \/ BackoffOver \/ StartOpenFails
           \/ StartLogin \/ TakeMessage \/ RecoverOpenFails \/ RecoverLogin
  <2>1. UNCHANGED <<stream, cut>>
      BY <1>3 DEF ReadNothing, ReadFails, AnswerTime, BackoffOver, StartOpenFails,
                  StartLogin, TakeMessage, RecoverOpenFails, RecoverLogin
  <2>2. pc' # "aborted"
      BY <1>3 DEF ReadNothing, ReadFails, AnswerTime, BackoffOver, StartOpenFails,
                  StartLogin, TakeMessage, RecoverOpenFails, RecoverLogin, Write
  <2> QED
      BY <2>1, <2>2 DEF NothingFatal
<1>4. CASE StartOpen \/ RecoverClose \/ RecoverOpen \/ ConnectionBreaks
  <2>1. stream' = <<>> /\ cut' = FALSE /\ pc' # "aborted"
      BY <1>4 DEF StartOpen, RecoverClose, RecoverOpen, ConnectionBreaks, Connect
  <2> QED
      BY <2>1 DEF NothingFatal
<1>5. CASE (\E page \in Pages : ServerSendsPage(page)) \/ ServerSendsOther
  <2>1. PICK kind \in Kinds \ Fatal, page \in Pages \cup {NoPage} : ServerSends(kind, page)
      BY <1>5 DEF ServerSendsPage, ServerSendsOther, WholeLinesOnly, Kinds, Fatal
  <2>2. /\ stream' = Append(stream, Line(kind, page))
        /\ cut' = cut /\ pc' = pc
      BY <2>1 DEF ServerSends
  <2>3. Line(kind, page) \in Lines /\ Line(kind, page).kind \notin Fatal
      BY DEF Line, Lines
  <2>4. stream \in Seq(Lines)
      BY DEF TypeOK
  <2>5. /\ Len(stream') = Len(stream) + 1 /\ Len(stream) \in Nat
        /\ \A i \in 1 .. Len(stream) : stream'[i] = stream[i]
        /\ stream'[Len(stream) + 1].kind \notin Fatal
      BY <2>2, <2>3, <2>4
  <2>6. \A i \in 1 .. Len(stream') : stream'[i].kind \notin Fatal
    <3>1. TAKE i \in 1 .. Len(stream')
    <3>2. i \in 1 .. Len(stream) \/ i = Len(stream) + 1
        BY <2>5
    <3> QED
        BY <2>5, <3>2 DEF NothingFatal
  <2> QED
      BY <2>2, <2>6 DEF NothingFatal
<1>6. CASE ServerAccepts \/ ServerHears \/ ServerCloses \/ Terminated \/ UNCHANGED vars
  <2>1. UNCHANGED <<stream, cut, pc>>
      BY <1>6 DEF ServerAccepts, ServerHears, ServerReads, ServerCloses, Terminated, vars
  <2> QED
      BY <2>1 DEF NothingFatal
<1> QED
    BY <1>1, <1>2, <1>3, <1>4, <1>5, <1>6 DEF Next, Gateway, read, recover, Server

(* The assertions of parseSchedule, parseFailedLogin and CPOCSAGMessage    *)
(* are assertions on TCP and the server: with whole lines, none of them a  *)
(* number alone or with a functional code above 3, they hold.  What        *)
(* refutes them in a run is a line that TCP has cut.                       *)
THEOREM AssertionsNeedWholeLines ==
    ASSUME WholeLinesOnly
    PROVE  Spec => []AssertionsHold
<1>1. Init => NothingFatal /\ AssertionsHold
    BY DEF Init, NothingFatal, AssertionsHold
<1>2. TypeOK /\ NothingFatal /\ AssertionsHold /\ [Next]_vars
        => NothingFatal' /\ AssertionsHold'
    BY WholeStep
<1> QED
    BY <1>1, <1>2, SessionTypeCorrect, PTL DEF Spec
=============================================================================
