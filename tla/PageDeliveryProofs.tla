------------------------- MODULE PageDeliveryProofs -------------------------
(***************************************************************************)
(* DAPNETSession implements PageDelivery: an acknowledged page is stored.  *)
(* The difficulty is that answers name a page by two digits only, that     *)
(* they travel while pages come in, and that lines are joined and cut.     *)
(***************************************************************************)
EXTENDS DAPNETSessionProofs, CountDown, Integers, FiniteSetTheorems

USE DEF Conns, Arrivals

(* The pages that the gateway has not begun to read, and the positive      *)
(* answers that the server has not read, by their places.                  *)
Unread ==
    {i \in 1 .. Len(stream) : (i > 1 \/ ~cut) /\ stream[i].kind = "page"}

Acks == {j \in 1 .. Len(answers) : answers[j].kind = "page" /\ answers[j].ok}

ReplyTo(page) == replyId(idOf(page))

(* The pages that the server waits to hear of are known by their numbers.  *)
NumbersApart ==
    /\ outstanding \subseteq offered
    /\ \A p, q \in outstanding : idOf(p) = idOf(q) => p = q

(* A page on its way is waited for, and comes once.                        *)
UnreadAwaited ==
    /\ \A i \in Unread : stream[i].page \in outstanding
    /\ \A i, j \in Unread : stream[i].page = stream[j].page => i = j

(* A positive answer on its way is for a page that is waited for and       *)
(* stored, and no other answer or page on its way has the same number.     *)
AcksStored ==
    /\ \A j \in Acks : \E p \in outstanding \cap storedBar : answers[j].id = ReplyTo(p)
    /\ \A i, j \in Acks : answers[i].id = answers[j].id => i = j
    /\ \A i \in Unread, j \in Acks : answers[j].id # ReplyTo(stream[i].page)

(* What came in this connection is waited for or acknowledged, so that it  *)
(* is not on its way again.                                                *)
KnownHere ==
    /\ \A e \in Held : e.conn <= conns
    /\ \A e \in Held : e.conn = conns => e.page \in outstanding \cup acked
    /\ \A e \in Held, i \in Unread : e.conn = conns => e.page # stream[i].page

TakenOnce ==
    /\ OncePerConnection
    /\ \A i \in DOMAIN taken : taken[i] # m_message

DeliveryInv == NumbersApart /\ UnreadAwaited /\ AcksStored /\ KnownHere /\ TakenOnce

-----------------------------------------------------------------------------
(* Numbers. *)

(* The next number, and from which number it comes.                        *)
LEMMA NextNumber ==
    ASSUME NEW range \in Nat \ {0, 1}, NEW id \in 0 .. range - 1
    PROVE  (id + 1) % range = IF id + 1 = range THEN 0 ELSE id + 1
OBVIOUS

LEMMA ReplyInjective ==
    \A p, q \in Pages : ReplyTo(p) = ReplyTo(q) => idOf(p) = idOf(q)
<1> SUFFICES ASSUME NEW p \in Pages, NEW q \in Pages,
                    (idOf(p) + 1) % ID_RANGE = (idOf(q) + 1) % ID_RANGE
             PROVE  idOf(p) = idOf(q)
    BY DEF ReplyTo, replyId
<1> DEFINE a == idOf(p)  b == idOf(q)
<1>1. ID_RANGE \in Nat \ {0, 1}
    BY SessionAssumption DEF SessionAssumption
<1>2. a \in 0 .. ID_RANGE - 1 /\ b \in 0 .. ID_RANGE - 1
    BY NumberRange DEF Ids
<1>3. (a + 1) % ID_RANGE = IF a + 1 = ID_RANGE THEN 0 ELSE a + 1
    BY <1>1, <1>2, NextNumber
<1>4. (b + 1) % ID_RANGE = IF b + 1 = ID_RANGE THEN 0 ELSE b + 1
    BY <1>1, <1>2, NextNumber
<1>5. (a + 1) % ID_RANGE = (b + 1) % ID_RANGE
    OBVIOUS
<1> HIDE DEF a, b
<1>6. a = b
    BY <1>1, <1>2, <1>3, <1>4, <1>5
<1> QED
    BY <1>6 DEF a, b

-----------------------------------------------------------------------------
(* What a step does to the lines and the answers on their way. *)

LEMMA HeldType ==
    ASSUME TypeOK
    PROVE  Held \subseteq Arrivals
<1>1. taken \in Seq(Arrivals) /\ m_message \in Arrivals \cup {None}
    BY DEF TypeOK
<1>2. \A i \in DOMAIN taken : taken[i] \in Arrivals
    BY <1>1, ElementOfSeq, LenProperties
<1> QED
    BY <1>1, <1>2 DEF Held

(* Reading shifts the places of what is unread, and takes the first if it  *)
(* was taken for a page.                                                   *)
LEMMA ReadShifts ==
    ASSUME TypeOK, NEW kind, NEW page, Received(kind, page)
    PROVE  \E d \in Nat :
               /\ \A i \in Unread' : i + d \in Unread /\ stream'[i] = stream[i + d]
               /\ kind = "page" => /\ 1 \in Unread /\ stream[1].page = page
                                   /\ \A i \in Unread' : i + d # 1
<1>1. PICK k \in 0 .. COALESCE, more \in Cuts :
        /\ k <= Len(stream)
        /\ k > 0 \/ (more /\ ~cut)
        /\ more => k < Len(stream)
        /\ Line(kind, page) \in Looks(k)
        /\ stream' = SubSeq(stream, k + 1, Len(stream))
        /\ cut' = more
    BY DEF Received
<1>2. k \in Nat /\ more \in BOOLEAN
    BY SessionAssumption DEF SessionAssumption
<1>3. stream \in Seq(Lines) /\ Len(stream) \in Nat
    BY LenProperties DEF TypeOK
<1>4. \A i \in k + 1 .. Len(stream) : stream[i] \in Lines
    BY <1>2, <1>3, LenProperties
<1>5. /\ Len(stream') = IF k + 1 <= Len(stream) THEN Len(stream) - k ELSE 0
      /\ \A i \in 1 .. Len(stream) - k : stream'[i] = stream[k + i]
    BY <1>1, <1>2, <1>3, <1>4, SubSeqProperties
<1>6. ASSUME NEW i \in Unread'
      PROVE  i + k \in Unread /\ stream'[i] = stream[i + k]
  <2>1. i \in 1 .. Len(stream') /\ (i > 1 \/ ~cut') /\ stream'[i].kind = "page"
      BY DEF Unread
  <2>2. i \in Nat /\ i >= 1 /\ i <= Len(stream) - k
      BY <1>2, <1>3, <1>5, <2>1
  <2>3. stream'[i] = stream[i + k] /\ i + k \in 1 .. Len(stream)
      BY <1>2, <1>3, <1>5, <2>2
  <2>4. i + k > 1 \/ ~cut
      BY <1>1, <1>2, <2>2
  <2> QED
      BY <2>1, <2>3, <2>4 DEF Unread
<1>7. ASSUME kind = "page"
      PROVE  /\ 1 \in Unread /\ stream[1].page = page
             /\ \A i \in Unread' : i + k # 1
  <2>1. ~cut
      BY <1>1, <1>7, SessionAssumption DEF SessionAssumption, Looks, Line
  <2>2. Len(stream) >= 1
      BY <1>1, <1>2, <1>3
  <2>3. Line("page", page) \in FirstParts(stream[1])
      BY <1>1, <1>2, <1>7, <2>1 DEF Looks, FirstParts
  <2>4. stream[1] = Line("page", page)
      BY <2>3 DEF FirstParts, Line
  <2>5. 1 \in Unread /\ stream[1].page = page
      BY <1>3, <2>1, <2>2, <2>4 DEF Unread, Line
  <2>6. ASSUME NEW i \in Unread' PROVE i + k # 1
    <3>1. i \in Nat /\ i >= 1 /\ (i > 1 \/ ~cut')
        BY DEF Unread
    <3> QED
        BY <1>1, <1>2, <2>1, <3>1
  <2> QED
      BY <2>5, <2>6
<1> QED
    BY <1>2, <1>6, <1>7

(* Writing adds one answer at the end, if any. *)
LEMMA WriteAdds ==
    ASSUME TypeOK, NEW answer \in Answers, NEW next, NEW failed,
           Write(answer, next, failed)
    PROVE  \A j \in Acks' :
               \/ j \in Acks /\ answers'[j] = answers[j]
               \/ /\ answer.kind = "page" /\ answer.ok
                  /\ j = Len(answers) + 1 /\ answers'[j] = answer
<1>1. CASE answers' = answers
    BY <1>1 DEF Acks
<1>2. CASE answers' = Append(answers, answer)
  <2>1. answers \in Seq(Answers) /\ Len(answers) \in Nat
      BY LenProperties DEF TypeOK
  <2>2. /\ Len(answers') = Len(answers) + 1
        /\ answers'[Len(answers) + 1] = answer
        /\ \A j \in 1 .. Len(answers) : answers'[j] = answers[j]
      BY <1>2, <2>1
  <2> QED
      BY <2>1, <2>2 DEF Acks
<1> QED
    BY <1>1, <1>2 DEF Write

(* When the server reads an answer, the others move up. *)
LEMMA TailShifts ==
    ASSUME TypeOK, answers # <<>>, answers' = Tail(answers)
    PROVE  \A j \in Acks' : j + 1 \in Acks /\ answers'[j] = answers[j + 1]
<1>1. answers \in Seq(Answers) /\ Len(answers) \in Nat
    BY LenProperties DEF TypeOK
<1>2. /\ Len(answers') = Len(answers) - 1
      /\ \A j \in 1 .. Len(answers') : answers'[j] = answers[j + 1]
    BY <1>1, HeadTailProperties
<1> QED
    BY <1>1, <1>2 DEF Acks

(* A step that neither stores a page nor lets the server know of one.      *)
Quiet ==
    /\ UNCHANGED <<conns, outstanding, offered, acked>>
    /\ \E d \in Nat :
           \A i \in Unread' : i + d \in Unread /\ stream'[i] = stream[i + d]
    /\ \E c \in Nat :
           \A j \in Acks' : j + c \in Acks /\ answers'[j] = answers[j + c]

LEMMA QuietStep ==
    ASSUME TypeOK, TypeOK', DeliveryInv, Quiet, Held' = Held
    PROVE  (NumbersApart /\ UnreadAwaited /\ AcksStored /\ KnownHere)'
<1>1. PICK d \in Nat :
          \A i \in Unread' : i + d \in Unread /\ stream'[i] = stream[i + d]
    BY DEF Quiet
<1>2. PICK c \in Nat :
          \A j \in Acks' : j + c \in Acks /\ answers'[j] = answers[j + c]
    BY DEF Quiet
<1> Unread' \subseteq Nat /\ Acks' \subseteq Nat
    BY DEF Unread, Acks
<1>3. NumbersApart'
    BY DEF DeliveryInv, NumbersApart, Quiet, idOf
<1>4. UnreadAwaited'
  <2>1. \A i \in Unread' : stream'[i].page \in outstanding
      BY <1>1 DEF DeliveryInv, UnreadAwaited
  <2>2. \A i, j \in Unread' : stream'[i].page = stream'[j].page => i = j
    <3> SUFFICES ASSUME NEW i \in Unread', NEW j \in Unread',
                        stream'[i].page = stream'[j].page
                 PROVE  i + d = j + d
        OBVIOUS
    <3> QED
        BY <1>1 DEF DeliveryInv, UnreadAwaited
  <2> QED
      BY <2>1, <2>2 DEF UnreadAwaited, Quiet
<1>5. AcksStored'
  <2>1. storedBar' = storedBar
      BY DEF storedBar
  <2>2. \A j \in Acks' : \E p \in outstanding \cap storedBar : answers'[j].id = ReplyTo(p)
      BY <1>2 DEF DeliveryInv, AcksStored
  <2>3. \A i, j \in Acks' : answers'[i].id = answers'[j].id => i = j
      BY <1>2 DEF DeliveryInv, AcksStored
  <2>4. \A i \in Unread', j \in Acks' : answers'[j].id # ReplyTo(stream'[i].page)
      BY <1>1, <1>2 DEF DeliveryInv, AcksStored
  <2> QED
      BY <2>1, <2>2, <2>3, <2>4 DEF AcksStored, Quiet, ReplyTo, replyId, idOf
<1>6. KnownHere'
    BY <1>1 DEF DeliveryInv, KnownHere, Quiet
<1> QED
    BY <1>3, <1>4, <1>5, <1>6

-----------------------------------------------------------------------------
(* Most steps are quiet; four kinds are not. *)

LEMMA ReadQuietly ==
    ASSUME TypeOK, NEW kind, NEW page, Received(kind, page),
           \A j \in Acks' : j \in Acks /\ answers'[j] = answers[j]
    PROVE  Quiet
<1>1. UNCHANGED <<conns, outstanding, offered, acked>>
    BY DEF Received, socketVars, serverVars
<1>2. \E d \in Nat :
          \A i \in Unread' : i + d \in Unread /\ stream'[i] = stream[i + d]
    BY ReadShifts
<1>3. \A j \in Acks' : j + 0 \in Acks /\ answers'[j] = answers[j + 0]
    BY DEF Acks
<1> QED
    BY <1>1, <1>2, <1>3 DEF Quiet

LEMMA StayQuiet ==
    ASSUME UNCHANGED <<conns, outstanding, offered, acked>>,
           \A i \in Unread' : i \in Unread /\ stream'[i] = stream[i],
           \A j \in Acks' : j \in Acks /\ answers'[j] = answers[j]
    PROVE  Quiet
<1>1. \A i \in Unread' : i + 0 \in Unread /\ stream'[i] = stream[i + 0]
    BY DEF Unread
<1>2. \A j \in Acks' : j + 0 \in Acks /\ answers'[j] = answers[j + 0]
    BY DEF Acks
<1> QED
    BY <1>1, <1>2 DEF Quiet

(* An answer other than a positive one for a page is not heard of. *)
LEMMA WriteQuietly ==
    ASSUME TypeOK, NEW answer \in Answers, NEW next, NEW failed,
           Write(answer, next, failed), ~(answer.kind = "page" /\ answer.ok)
    PROVE  \A j \in Acks' : j \in Acks /\ answers'[j] = answers[j]
BY WriteAdds

LEMMA SomeAnswers ==
    /\ \A kind \in {"login", "stamp", "plus", "minus"} :
           Plain(kind) \in Answers /\ Plain(kind).kind # "page"
    /\ \A id \in Nat :
           PageAnswer(replyId(id), FALSE) \in Answers /\ ~PageAnswer(replyId(id), FALSE).ok
BY AnswerTypes DEF Plain, PageAnswer

LEMMA QuietReads ==
    ASSUME TypeOK, read, ~ReadMessage
    PROVE  Quiet /\ Held' = Held
<1> USE DEF socketVars, memberVars, wireVars, serverVars
<1>1. CASE ReadNothing \/ ReadFails
  <2>1. UNCHANGED <<conns, stream, cut, answers, outstanding, offered, acked, m_message, taken>>
      BY <1>1 DEF ReadNothing, ReadFails
  <2> QED
      BY <2>1, StayQuiet DEF Unread, Acks, Held
<1>2. CASE ReadAck \/ ReadBlank \/ ReadBadCode \/ ReadFailedLogin
  <2>1. PICK kind \in Kinds : Received(kind, NoPage)
      BY <1>2 DEF ReadAck, ReadBlank, ReadBadCode, ReadFailedLogin, Kinds
  <2>2. UNCHANGED <<answers, m_message, taken>>
      BY <1>2 DEF ReadAck, ReadBlank, ReadBadCode, ReadFailedLogin, Received
  <2> QED
      BY <2>1, <2>2, ReadQuietly DEF Acks, Held
<1>3. CASE ReadTime \/ ReadOther \/ ReadUnknown \/ ReadSchedule \/ ReadMalformed
  <2>1. PICK kind \in Kinds : Received(kind, NoPage)
      BY <1>3 DEF ReadTime, ReadOther, ReadUnknown, ReadSchedule, ReadMalformed, Kinds
  <2>2. UNCHANGED <<m_message, taken>>
      BY <1>3 DEF ReadTime, ReadOther, ReadUnknown, ReadSchedule, ReadMalformed, Received
  <2>3. \E answer \in Answers, next \in Steps :
            Write(answer, next, "recover") /\ ~(answer.kind = "page" /\ answer.ok)
    <3>1. CASE ReadTime \/ ReadOther \/ ReadUnknown \/ ReadSchedule
        BY <3>1, SomeAnswers DEF ReadTime, ReadOther, ReadUnknown, ReadSchedule, Steps
    <3>2. CASE ReadMalformed
      <4>1. PICK id \in Ids : Write(PageAnswer(replyId(id), FALSE), "message", "recover")
          BY <3>2 DEF ReadMalformed
      <4>2. id \in Nat /\ "message" \in Steps
          BY DEF Ids, Steps
      <4> QED
          BY <4>1, <4>2, SomeAnswers
    <3> QED
        BY <1>3, <3>1, <3>2
  <2> QED
      BY <2>1, <2>2, <2>3, WriteQuietly, ReadQuietly DEF Held
<1>4. CASE AnswerTime \/ BackoffOver
  <2>1. /\ Write(Plain("plus"), "message", "recover")
        /\ UNCHANGED <<conns, stream, cut, outstanding, offered, acked, m_message, taken>>
      BY <1>4 DEF AnswerTime, BackoffOver
  <2>2. \A j \in Acks' : j \in Acks /\ answers'[j] = answers[j]
      BY <2>1, SomeAnswers, WriteQuietly
  <2> QED
      BY <2>1, <2>2, StayQuiet DEF Unread, Held
<1> QED
    BY <1>1, <1>2, <1>3, <1>4 DEF read

LEMMA QuietCallers ==
    ASSUME TypeOK, StartOpenFails \/ StartLogin \/ TakeMessage \/ RecoverClose
                     \/ RecoverOpenFails \/ RecoverLogin
    PROVE  Quiet /\ Held' = Held
<1> USE DEF socketVars, memberVars, wireVars, serverVars
<1>1. CASE StartOpenFails \/ RecoverOpenFails
  <2>1. UNCHANGED <<conns, stream, cut, answers, outstanding, offered, acked, m_message, taken>>
      BY <1>1 DEF StartOpenFails, RecoverOpenFails
  <2> QED
      BY <2>1, StayQuiet DEF Unread, Acks, Held
<1>2. CASE StartLogin \/ RecoverLogin
  <2>1. /\ \E next \in Steps, failed \in Steps : Write(Plain("login"), next, failed)
        /\ UNCHANGED <<conns, stream, cut, outstanding, offered, acked, m_message, taken>>
      BY <1>2 DEF StartLogin, RecoverLogin, Steps
  <2>2. \A j \in Acks' : j \in Acks /\ answers'[j] = answers[j]
      BY <2>1, SomeAnswers, WriteQuietly
  <2> QED
      BY <2>1, <2>2, StayQuiet DEF Unread, Held
<1>3. CASE RecoverClose
  <2>1. /\ UNCHANGED <<conns, answers, outstanding, offered, acked, m_message, taken>>
        /\ stream' = <<>>
      BY <1>3 DEF RecoverClose
  <2>2. Unread' = {}
      BY <2>1 DEF Unread
  <2> QED
      BY <2>1, <2>2, StayQuiet DEF Acks, Held
<1>4. CASE TakeMessage
  <2>1. UNCHANGED <<conns, stream, cut, answers, outstanding, offered, acked>>
      BY <1>4 DEF TakeMessage
  <2>2. Quiet
      BY <2>1, StayQuiet DEF Unread, Acks
  <2>3. Held' = Held
    <3>1. m_message' = None
        BY <1>4 DEF TakeMessage
    <3>2. CASE m_message = None
        BY <1>4, <3>1, <3>2 DEF TakeMessage, Held
    <3>3. CASE m_message # None
      <4>1. taken' = Append(taken, m_message)
          BY <1>4, <3>3 DEF TakeMessage
      <4>2. taken \in Seq(Arrivals) /\ Len(taken) \in Nat
          BY LenProperties DEF TypeOK
      <4>3. /\ DOMAIN taken = 1 .. Len(taken)
            /\ DOMAIN taken' = 1 .. Len(taken) + 1
            /\ \A i \in 1 .. Len(taken) : taken'[i] = taken[i]
            /\ taken'[Len(taken) + 1] = m_message
          BY <3>3, <4>1, <4>2 DEF TypeOK
      <4>4. {taken'[i] : i \in DOMAIN taken'} = {taken[i] : i \in DOMAIN taken} \cup {m_message}
          BY <4>2, <4>3
      <4> QED
          BY <3>1, <3>3, <4>4 DEF Held
    <3> QED
        BY <3>2, <3>3
  <2> QED
      BY <2>2, <2>3
<1> QED
    BY <1>1, <1>2, <1>3, <1>4

LEMMA QuietServer ==
    ASSUME TypeOK, ServerSendsOther \/ ServerAccepts \/ ServerCloses
                     \/ ConnectionBreaks \/ Terminated \/ UNCHANGED vars
    PROVE  Quiet /\ Held' = Held
<1> USE DEF socketVars, memberVars, wireVars, serverVars
<1>1. CASE ServerSendsOther
  <2>1. PICK kind \in OtherKinds : ServerSends(kind, NoPage)
      BY <1>1 DEF ServerSendsOther
  <2>2. kind # "page"
      BY SessionAssumption DEF SessionAssumption
  <2>3. stream \in Seq(Lines) /\ Len(stream) \in Nat
      BY LenProperties DEF TypeOK
  <2>4. /\ Len(stream') = Len(stream) + 1
        /\ stream'[Len(stream) + 1] = Line(kind, NoPage)
        /\ \A i \in 1 .. Len(stream) : stream'[i] = stream[i]
      BY <2>1, <2>3 DEF ServerSends
  <2>5. cut' = cut /\ answers' = answers
      BY <2>1 DEF ServerSends
  <2>6. \A i \in Unread' : i \in Unread /\ stream'[i] = stream[i]
      BY <2>2, <2>3, <2>4, <2>5 DEF Unread, Line
  <2>7. UNCHANGED <<conns, outstanding, offered, acked, m_message, taken>>
      BY <1>1, <2>1 DEF ServerSendsOther, ServerSends
  <2> QED
      BY <2>5, <2>6, <2>7, StayQuiet DEF Acks, Held
<1>2. CASE ServerAccepts
  <2>1. /\ answers # <<>> /\ answers' = Tail(answers)
        /\ UNCHANGED <<conns, stream, cut, outstanding, offered, acked, m_message, taken>>
      BY <1>2 DEF ServerAccepts, ServerReads
  <2>2. \A j \in Acks' : j + 1 \in Acks /\ answers'[j] = answers[j + 1]
      BY <2>1, TailShifts
  <2>3. \A i \in Unread' : i + 0 \in Unread /\ stream'[i] = stream[i + 0]
      BY <2>1 DEF Unread
  <2> QED
      BY <2>1, <2>2, <2>3 DEF Quiet, Held
<1>3. CASE ServerCloses \/ ConnectionBreaks
  <2>1. /\ UNCHANGED <<conns, outstanding, offered, acked, m_message, taken>>
        /\ answers' = <<>>
        /\ stream' = <<>> \/ (UNCHANGED <<stream, cut>>)
      BY <1>3 DEF ServerCloses, ConnectionBreaks
  <2>2. Acks' = {}
      BY <2>1 DEF Acks
  <2>3. \A i \in Unread' : i \in Unread /\ stream'[i] = stream[i]
      BY <2>1 DEF Unread
  <2> QED
      BY <2>1, <2>2, <2>3, StayQuiet DEF Held
<1>4. CASE Terminated \/ UNCHANGED vars
  <2>1. UNCHANGED <<conns, stream, cut, answers, outstanding, offered, acked, m_message, taken>>
      BY <1>4 DEF Terminated, vars
  <2> QED
      BY <2>1, StayQuiet DEF Unread, Acks, Held
<1> QED
    BY <1>1, <1>2, <1>3, <1>4

LEMMA StepKinds ==
    ASSUME TypeOK, [Next]_vars
    PROVE  \/ Quiet /\ Held' = Held
           \/ ReadMessage
           \/ \E page \in Pages : ServerSendsPage(page)
           \/ ServerHears
           \/ Connect
BY QuietReads, QuietCallers, QuietServer
   DEF Next, Gateway, Server, recover, StartOpen, RecoverOpen

-----------------------------------------------------------------------------
(* The steps that are not quiet, with what each means to PageDelivery. *)

LEMMA ReadMessageStep ==
    ASSUME PlaceInv, DeliveryInv, ReadMessage
    PROVE  /\ (NumbersApart /\ UnreadAwaited /\ AcksStored /\ KnownHere /\ TakenOnce)'
           /\ Delivery!Store
<1> TypeOK
    BY DEF PlaceInv
<1>1. PICK page \in Pages :
        /\ Received("page", page)
        /\ m_message' = [page |-> page, conn |-> m_fd]
        /\ Write(PageAnswer(ReplyTo(page), TRUE), "message", "recover")
    BY DEF ReadMessage, ReplyTo
<1> DEFINE new == [page |-> page, conn |-> conns]
           answer  == PageAnswer(ReplyTo(page), TRUE)
<1>2. /\ UNCHANGED <<conns, outstanding, offered, acked, taken>>
      /\ pc = "read"
    BY <1>1 DEF Received, socketVars, serverVars
<1>3. m_message = None /\ m_fd = conns
    BY <1>2 DEF PlaceInv, HandsFree, SocketInv
<1>4. Held' = Held \cup {new} /\ new # None
    BY <1>1, <1>2, <1>3, SessionAssumption DEF Held, SessionAssumption, PlaceInv, SocketInv, TypeOK
<1>5. storedBar' = storedBar \cup {page}
  <2>1. new.page = page
      OBVIOUS
  <2> HIDE DEF new
  <2> QED
      BY <1>4, <2>1 DEF storedBar
<1>6. PICK d \in Nat :
          /\ \A i \in Unread' : i + d \in Unread /\ stream'[i] = stream[i + d]
          /\ \A i \in Unread' : i + d # 1
          /\ 1 \in Unread /\ stream[1].page = page
    BY <1>1, ReadShifts
<1>7. page \in outstanding
    BY <1>6 DEF DeliveryInv, UnreadAwaited
<1>8. \A j \in Acks' :
          \/ j \in Acks /\ answers'[j] = answers[j]
          \/ j = Len(answers) + 1 /\ answers'[j] = answer
  <2>1. idOf(page) \in Nat
      BY NumberRange DEF Ids
  <2>2. answer \in Answers
      BY <2>1, AnswerTypes DEF ReplyTo
  <2> QED
      BY <1>1, <2>2, WriteAdds
<1>9. answer.id = ReplyTo(page)
    BY DEF PageAnswer
<1> HIDE DEF new, answer
<1>10. \A i \in Unread' : stream'[i].page \in outstanding /\ stream'[i].page # page
    BY <1>6 DEF DeliveryInv, UnreadAwaited
<1>11. NumbersApart'
    BY <1>2 DEF DeliveryInv, NumbersApart, idOf
<1>12. UnreadAwaited'
  <2>1. ASSUME NEW i \in Unread', NEW j \in Unread', stream'[i].page = stream'[j].page
        PROVE  i = j
    <3>1. i + d = j + d
        BY <1>6, <2>1 DEF DeliveryInv, UnreadAwaited
    <3>2. i \in Nat /\ j \in Nat
        BY DEF Unread
    <3> QED
        BY <3>1, <3>2
  <2> QED
      BY <1>2, <1>10, <2>1 DEF UnreadAwaited
<1>13. AcksStored'
  <2>1. \A j \in Acks' : \E p \in outstanding \cap storedBar' : answers'[j].id = ReplyTo(p)
      BY <1>5, <1>7, <1>8, <1>9 DEF DeliveryInv, AcksStored
  <2>2. \A j \in Acks : answers[j].id # ReplyTo(page)
      BY <1>6 DEF DeliveryInv, AcksStored
  <2>3. \A i, j \in Acks' : answers'[i].id = answers'[j].id => i = j
      BY <1>8, <1>9, <2>2 DEF DeliveryInv, AcksStored
  <2>4. ASSUME NEW i \in Unread', NEW j \in Acks'
        PROVE  answers'[j].id # ReplyTo(stream'[i].page)
    <3>1. CASE j \in Acks /\ answers'[j] = answers[j]
        BY <1>6, <3>1 DEF DeliveryInv, AcksStored
    <3>2. CASE answers'[j] = answer
      <4>1. idOf(stream'[i].page) # idOf(page)
          BY <1>7, <1>10 DEF DeliveryInv, NumbersApart
      <4> QED
          BY <1>9, <1>10, <3>2, <4>1, ReplyInjective DEF PlaceInv, TypeOK
    <3> QED
        BY <1>8, <3>1, <3>2
  <2> QED
      BY <1>2, <2>1, <2>3, <2>4 DEF AcksStored, ReplyTo, replyId, idOf
<1>14. KnownHere'
  <2>1. new.page = page /\ new.conn = conns
      BY DEF new
  <2>2. conns \in Nat
      BY DEF TypeOK
  <2>3. \A e \in Held, i \in Unread' : e.conn = conns => e.page # stream'[i].page
      BY <1>6 DEF DeliveryInv, KnownHere
  <2> QED
      BY <1>2, <1>4, <1>7, <1>10, <2>1, <2>2, <2>3 DEF DeliveryInv, KnownHere
<1>15. TakenOnce'
  <2>1. m_message' = new
      BY <1>1, <1>3 DEF new
  <2>2. \A i \in DOMAIN taken : taken[i] \in Held
      BY DEF Held
  <2>3. new \notin Held
      BY <1>6 DEF DeliveryInv, KnownHere, new
  <2> QED
      BY <1>2, <2>1, <2>2, <2>3 DEF DeliveryInv, TakenOnce, OncePerConnection
<1>16. Delivery!Store
    BY <1>2, <1>5, <1>7 DEF Delivery!Store, DeliveryInv, NumbersApart
<1> QED
    BY <1>11, <1>12, <1>13, <1>14, <1>15, <1>16

LEMMA ServerSendsPageStep ==
    ASSUME TypeOK, DeliveryInv, NEW page \in Pages, ServerSendsPage(page)
    PROVE  /\ (NumbersApart /\ UnreadAwaited /\ AcksStored /\ KnownHere /\ TakenOnce)'
           /\ Delivery!Offer
<1>1. /\ page \notin acked \cup outstanding
      /\ \A p \in outstanding : idOf(p) # idOf(page)
      /\ outstanding' = outstanding \cup {page}
      /\ offered' = offered \cup {page}
      /\ ServerSends("page", page)
    BY DEF ServerSendsPage
<1>2. /\ stream' = Append(stream, Line("page", page))
      /\ UNCHANGED <<conns, acked, taken, m_message, cut, answers>>
    BY <1>1 DEF ServerSends, socketVars, memberVars
<1>3. stream \in Seq(Lines) /\ Len(stream) \in Nat
    BY LenProperties DEF TypeOK
<1>4. /\ Len(stream') = Len(stream) + 1
      /\ stream'[Len(stream) + 1] = Line("page", page)
      /\ \A i \in 1 .. Len(stream) : stream'[i] = stream[i]
    BY <1>2, <1>3
<1>5. \A i \in Unread' :
          \/ i \in Unread /\ stream'[i] = stream[i]
          \/ i = Len(stream) + 1 /\ stream'[i].page = page
    BY <1>2, <1>3, <1>4 DEF Unread, Line
<1>6. Held' = Held /\ storedBar' = storedBar /\ Acks' = Acks
    BY <1>2 DEF Held, storedBar, Acks
<1>7. NumbersApart'
    BY <1>1 DEF DeliveryInv, NumbersApart, idOf
<1>8. UnreadAwaited'
    BY <1>1, <1>5 DEF DeliveryInv, UnreadAwaited
<1>9. AcksStored'
  <2>1. ASSUME NEW j \in Acks PROVE answers[j].id # ReplyTo(page)
    <3>1. PICK p \in outstanding : answers[j].id = ReplyTo(p)
        BY DEF DeliveryInv, AcksStored
    <3>2. idOf(p) # idOf(page) /\ p \in Pages
        BY <1>1 DEF TypeOK
    <3> QED
        BY <3>1, <3>2, ReplyInjective
  <2>2. \A i \in Unread', j \in Acks : answers[j].id # ReplyTo(stream'[i].page)
      BY <1>5, <2>1 DEF DeliveryInv, AcksStored
  <2>3. \A j \in Acks : \E p \in outstanding' \cap storedBar : answers[j].id = ReplyTo(p)
      BY <1>1 DEF DeliveryInv, AcksStored
  <2>4. \A i, j \in Acks : answers[i].id = answers[j].id => i = j
      BY DEF DeliveryInv, AcksStored
  <2> QED
      BY <1>2, <1>6, <2>2, <2>3, <2>4 DEF AcksStored, ReplyTo, replyId, idOf
<1>10. KnownHere'
  <2>1. \A e \in Held : e.conn = conns => e.page \in outstanding \cup acked
      BY DEF DeliveryInv, KnownHere
  <2>2. \A e \in Held, i \in Unread' : e.conn = conns => e.page # stream'[i].page
      BY <1>1, <1>5, <2>1 DEF DeliveryInv, KnownHere
  <2> QED
      BY <1>1, <1>2, <1>6, <2>1, <2>2 DEF DeliveryInv, KnownHere
<1>11. TakenOnce'
    BY <1>2 DEF DeliveryInv, TakenOnce, OncePerConnection
<1>12. Delivery!Offer
    BY <1>1, <1>2, <1>6 DEF Delivery!Offer
<1> QED
    BY <1>7, <1>8, <1>9, <1>10, <1>11, <1>12

LEMMA ServerHearsStep ==
    ASSUME TypeOK, DeliveryInv, ServerHears
    PROVE  /\ (NumbersApart /\ UnreadAwaited /\ AcksStored /\ KnownHere /\ TakenOnce)'
           /\ Delivery!Acknowledge \/ UNCHANGED <<offered, storedBar, acked>>
<1> DEFINE A == Acknowledged(Head(answers))
<1>1. /\ answers # <<>> /\ answers' = Tail(answers)
      /\ outstanding' = outstanding \ A
      /\ acked' = acked \cup A
      /\ UNCHANGED <<conns, offered, stream, cut, m_message, taken>>
    BY DEF ServerHears, ServerReads, socketVars, memberVars
<1>2. Held' = Held /\ storedBar' = storedBar /\ Unread' = Unread
    BY <1>1 DEF Held, storedBar, Unread
<1>3. \A j \in Acks' : j + 1 \in Acks /\ answers'[j] = answers[j + 1]
    BY <1>1, TailShifts
<1>4. A # {} => 1 \in Acks
  <2>1. answers \in Seq(Answers) /\ Len(answers) \in Nat /\ Len(answers) >= 1
      BY <1>1, LenProperties, EmptySeq DEF TypeOK
  <2> QED
      BY <2>1 DEF Acknowledged, Acks
<1>5. A \subseteq outstanding /\ \A p \in A : answers[1].id = ReplyTo(p)
    BY DEF Acknowledged, ReplyTo, replyId
<1>6. A \subseteq Pages
    BY <1>5 DEF TypeOK
<1> HIDE DEF A
<1>7. NumbersApart'
    BY <1>1 DEF DeliveryInv, NumbersApart, idOf
<1>8. UnreadAwaited'
  <2>1. \A i \in Unread : stream[i].page \notin A
      BY <1>4, <1>5 DEF DeliveryInv, AcksStored
  <2> QED
      BY <1>1, <1>2, <2>1 DEF DeliveryInv, UnreadAwaited
<1>9. AcksStored'
  <2>1. ASSUME NEW j \in Acks'
        PROVE  \E p \in outstanding' \cap storedBar : answers'[j].id = ReplyTo(p)
    <3>1. PICK p \in outstanding \cap storedBar : answers'[j].id = ReplyTo(p)
        BY <1>3 DEF DeliveryInv, AcksStored
    <3>2. p \notin A
      <4>1. j + 1 # 1
          BY DEF Acks
      <4> QED
          BY <1>3, <1>4, <1>5, <3>1, <4>1 DEF DeliveryInv, AcksStored
    <3> QED
        BY <1>1, <3>1, <3>2
  <2>2. ASSUME NEW i \in Acks', NEW j \in Acks', answers'[i].id = answers'[j].id
        PROVE  i = j
    <3>1. i + 1 = j + 1
        BY <1>3, <2>2 DEF DeliveryInv, AcksStored
    <3>2. i \in Nat /\ j \in Nat
        BY DEF Acks
    <3> QED
        BY <3>1, <3>2
  <2>3. \A i \in Unread, j \in Acks' : answers'[j].id # ReplyTo(stream[i].page)
      BY <1>3 DEF DeliveryInv, AcksStored
  <2> QED
      BY <1>1, <1>2, <2>1, <2>2, <2>3 DEF AcksStored, ReplyTo, replyId, idOf
<1>10. KnownHere'
    BY <1>1, <1>2 DEF DeliveryInv, KnownHere
<1>11. TakenOnce'
    BY <1>1 DEF DeliveryInv, TakenOnce, OncePerConnection
<1>12. Delivery!Acknowledge \/ UNCHANGED <<offered, storedBar, acked>>
  <2>1. CASE A = {}
      BY <1>1, <1>2, <2>1
  <2>2. CASE A # {}
    <3>1. PICK q \in outstanding \cap storedBar : answers[1].id = ReplyTo(q)
        BY <1>4, <2>2 DEF DeliveryInv, AcksStored
    <3>2. \A p \in A : p = q
      <4>1. q \in Pages
          BY DEF TypeOK
      <4>2. \A p \in A : idOf(p) = idOf(q)
          BY <1>5, <1>6, <3>1, <4>1, ReplyInjective
      <4> QED
          BY <1>5, <4>2 DEF DeliveryInv, NumbersApart
    <3>3. A = {q}
        BY <2>2, <3>2
    <3> QED
        BY <1>1, <1>2, <3>1, <3>3 DEF Delivery!Acknowledge
  <2> QED
      BY <2>1, <2>2
<1> QED
    BY <1>7, <1>8, <1>9, <1>10, <1>11, <1>12

(* A new connection starts with empty streams and nothing to wait for.     *)
LEMMA ConnectStep ==
    ASSUME TypeOK, DeliveryInv, Connect
    PROVE  /\ (NumbersApart /\ UnreadAwaited /\ AcksStored /\ KnownHere /\ TakenOnce)'
           /\ UNCHANGED <<offered, storedBar, acked>>
<1>1. /\ conns' = conns + 1 /\ stream' = <<>> /\ answers' = <<>> /\ outstanding' = {}
      /\ UNCHANGED <<offered, acked, taken, m_message>>
    BY DEF Connect, memberVars
<1>2. Unread' = {} /\ Acks' = {}
    BY <1>1 DEF Unread, Acks
<1>3. Held' = Held /\ storedBar' = storedBar
    BY <1>1 DEF Held, storedBar
<1>4. NumbersApart' /\ UnreadAwaited' /\ AcksStored'
    BY <1>1, <1>2 DEF NumbersApart, UnreadAwaited, AcksStored
<1>5. KnownHere'
  <2>1. \A e \in Held : e.conn \in Nat /\ conns \in Nat /\ e.conn <= conns
      BY HeldType DEF DeliveryInv, KnownHere, TypeOK
  <2>2. \A e \in Held : e.conn <= conns + 1 /\ e.conn # conns + 1
      BY <2>1
  <2> QED
      BY <1>1, <1>2, <1>3, <2>2 DEF KnownHere
<1>6. TakenOnce'
    BY <1>1 DEF DeliveryInv, TakenOnce, OncePerConnection
<1> QED
    BY <1>1, <1>3, <1>4, <1>5, <1>6

(* Among the other steps only readMessage touches what was taken.          *)
LEMMA TakenOnceStep ==
    ASSUME TypeOK, DeliveryInv, [Next]_vars, ~ReadMessage
    PROVE  TakenOnce'
<1> USE DEF socketVars, memberVars
<1>1. CASE TakeMessage /\ m_message # None
  <2>1. taken' = Append(taken, m_message) /\ m_message' = None
      BY <1>1 DEF TakeMessage
  <2>2. taken \in Seq(Arrivals) /\ Len(taken) \in Nat /\ m_message \in Arrivals
      BY <1>1, LenProperties DEF TypeOK
  <2>3. /\ DOMAIN taken = 1 .. Len(taken)
        /\ DOMAIN taken' = 1 .. Len(taken) + 1
        /\ \A i \in 1 .. Len(taken) : taken'[i] = taken[i]
        /\ taken'[Len(taken) + 1] = m_message
      BY <2>1, <2>2
  <2>4. \A i \in 1 .. Len(taken) : taken[i] \in Arrivals
      BY <2>2, ElementOfSeq
  <2>5. \A i \in DOMAIN taken' : taken'[i] \in Arrivals
      BY <2>2, <2>3, <2>4
  <2>6. None \notin Arrivals
      BY SessionAssumption DEF SessionAssumption
  <2>7. \A i \in DOMAIN taken' : taken'[i] # m_message'
      BY <2>1, <2>5, <2>6
  <2>8. OncePerConnection'
      BY <2>2, <2>3 DEF DeliveryInv, TakenOnce, OncePerConnection
  <2> QED
      BY <2>7, <2>8 DEF TakenOnce
<1>2. CASE UNCHANGED <<taken, m_message>>
    BY <1>2 DEF DeliveryInv, TakenOnce, OncePerConnection
<1>3. CASE read
  <2>1. UNCHANGED <<taken, m_message>>
      BY <1>3
         DEF read, ReadNothing, ReadFails, ReadAck, ReadTime, AnswerTime, ReadOther,
             ReadUnknown, ReadSchedule, ReadBlank, ReadBadCode, ReadFailedLogin,
             BackoffOver,
             ReadMalformed, Received
  <2> QED
      BY <1>2, <2>1
<1>4. CASE StartOpen \/ StartOpenFails \/ StartLogin \/ recover
             \/ (TakeMessage /\ m_message = None)
  <2>1. UNCHANGED <<taken, m_message>>
      BY <1>4 DEF StartOpen, StartOpenFails, StartLogin, TakeMessage, recover,
                  RecoverClose, RecoverOpen, RecoverOpenFails, RecoverLogin, Connect
  <2> QED
      BY <1>2, <2>1
<1>5. CASE Server \/ ServerCloses \/ ConnectionBreaks \/ Terminated \/ UNCHANGED vars
  <2>1. UNCHANGED <<taken, m_message>>
      BY <1>5 DEF Server, ServerSendsPage, ServerSendsOther, ServerSends, ServerAccepts,
                  ServerHears, ServerReads, ServerCloses, ConnectionBreaks, Terminated, vars
  <2> QED
      BY <1>2, <2>1
<1> QED
    BY <1>1, <1>3, <1>4, <1>5 DEF Next, Gateway

-----------------------------------------------------------------------------
(* The theorems. *)

LEMMA DeliveryInvInit == Init => DeliveryInv /\ Delivery!Init
<1> SUFFICES ASSUME Init PROVE DeliveryInv /\ Delivery!Init
    OBVIOUS
<1>1. Unread = {} /\ Acks = {} /\ Held = {} /\ DOMAIN taken = {}
    BY DEF Init, Unread, Acks, Held
<1>2. storedBar = {}
    BY <1>1 DEF storedBar
<1> QED
    BY <1>1, <1>2
       DEF Init, DeliveryInv, NumbersApart, UnreadAwaited, AcksStored, KnownHere,
           TakenOnce, OncePerConnection, Delivery!Init

LEMMA DeliveryStep ==
    ASSUME PlaceInv, PlaceInv', DeliveryInv, [Next]_vars
    PROVE  DeliveryInv' /\ [Delivery!Next]_(Delivery!vars)
<1> TypeOK /\ TypeOK'
    BY DEF PlaceInv
<1> USE DEF Delivery!vars
<1>1. CASE Quiet /\ Held' = Held /\ ~ReadMessage
  <2>1. (NumbersApart /\ UnreadAwaited /\ AcksStored /\ KnownHere)'
      BY <1>1, QuietStep
  <2>2. TakenOnce'
      BY <1>1, TakenOnceStep
  <2>3. UNCHANGED <<offered, storedBar, acked>>
      BY <1>1 DEF Quiet, storedBar
  <2> QED
      BY <2>1, <2>2, <2>3 DEF DeliveryInv
<1>2. CASE ReadMessage
    BY <1>2, ReadMessageStep DEF DeliveryInv, Delivery!Next
<1>3. CASE \E page \in Pages : ServerSendsPage(page)
    BY <1>3, ServerSendsPageStep DEF DeliveryInv, Delivery!Next
<1>4. CASE ServerHears
    BY <1>4, ServerHearsStep DEF DeliveryInv, Delivery!Next
<1>5. CASE Connect
    BY <1>5, ConnectStep DEF DeliveryInv
<1> QED
    BY <1>1, <1>2, <1>3, <1>4, <1>5, StepKinds

(* No page is handed to the queue twice from one connection, however lines *)
(* are joined and cut, if the rest of a cut line does not look like a page *)
(* (SessionAssumption, on JunkKinds).                                      *)
THEOREM TakenOncePerConnection == Spec => []OncePerConnection
<1>1. Init => DeliveryInv
    BY DeliveryInvInit
<1>2. PlaceInv /\ PlaceInv' /\ DeliveryInv /\ [Next]_vars => DeliveryInv'
    BY DeliveryStep
<1>3. DeliveryInv => OncePerConnection
    BY DEF DeliveryInv, TakenOnce
<1> QED
    BY <1>1, <1>2, <1>3, PlaceInvHolds, PTL DEF Spec

(* Whatever is acknowledged has been stored, for any number of pages that  *)
(* share the numbers of two digits, and under the same assumption.         *)
THEOREM SessionImplementsDelivery == Spec => AcksAreHonest
<1>1. Init => DeliveryInv /\ Delivery!Init
    BY DeliveryInvInit
<1>2. PlaceInv /\ PlaceInv' /\ DeliveryInv /\ [Next]_vars
        => DeliveryInv' /\ [Delivery!Next]_(Delivery!vars)
    BY DeliveryStep
<1> QED
    BY <1>1, <1>2, PlaceInvHolds, PTL DEF Spec, AcksAreHonest, Delivery!Spec
(* Every page that is acknowledged is held, and every one held offered.    *)
DeliveredInOrder == acked \subseteq storedBar /\ storedBar \subseteq offered

(* An acknowledgement is never taken back, and never becomes untrue.       *)
AcksLast == [][acked \subseteq acked' /\ storedBar \subseteq storedBar']_(Delivery!vars)

(* What DAPNET believes delivered is held or was handed on, in every state *)
(* from then on, through any number of lost connections; and nothing is    *)
(* held that the server has not offered.                                   *)
THEOREM AckedPagesHeld == Spec => []DeliveredInOrder /\ AcksLast
<1>1. Delivery!Init => DeliveredInOrder
    BY DEF Delivery!Init, DeliveredInOrder
<1>2. DeliveredInOrder /\ [Delivery!Next]_(Delivery!vars) => DeliveredInOrder'
    BY DEF DeliveredInOrder, Delivery!Next, Delivery!vars, Delivery!Offer,
           Delivery!Store, Delivery!Acknowledge
<1>3. [Delivery!Next]_(Delivery!vars)
        => [acked \subseteq acked' /\ storedBar \subseteq storedBar']_(Delivery!vars)
    BY DEF Delivery!Next, Delivery!vars, Delivery!Offer, Delivery!Store,
           Delivery!Acknowledge
<1>4. Delivery!Spec => []DeliveredInOrder /\ AcksLast
    BY <1>1, <1>2, <1>3, PTL DEF Delivery!Spec, AcksLast
<1> QED
    BY <1>4, SessionImplementsDelivery, PTL DEF AcksAreHonest

-----------------------------------------------------------------------------
(* Liveness.  Where every recv() returns one line, each line is answered,  *)
(* so that an open connection does all there is to do in it.               *)

OneByOne == WholeLinesOnly /\ COALESCE = 1

LEMMA TakesOne ==
    ASSUME OneByOne, TypeOK, NothingFatal, NEW kind, NEW page, Received(kind, page)
    PROVE  /\ stream # <<>> /\ Head(stream) = Line(kind, page)
           /\ stream' = Tail(stream) /\ cut' = FALSE
<1>1. PICK k \in 0 .. COALESCE, more \in Cuts :
        /\ k <= Len(stream)
        /\ k > 0 \/ (more /\ ~cut)
        /\ Line(kind, page) \in Looks(k)
        /\ stream' = SubSeq(stream, k + 1, Len(stream))
        /\ cut' = more
    BY DEF Received
<1>2. k = 1 /\ more = FALSE
    BY <1>1 DEF OneByOne, WholeLinesOnly
<1>3. stream \in Seq(Lines) /\ Len(stream) >= 1
    BY <1>1, <1>2 DEF TypeOK
<1>4. stream # <<>>
    BY <1>3
<1>5. stream' = Tail(stream)
    BY <1>1, <1>2, <1>3, <1>4
<1> QED
    BY <1>1, <1>2, <1>4, <1>5 DEF Looks, NothingFatal

(* How many elements of s are of another kind than those in K. *)
OfOtherKind(s, K) == {i \in 1 .. Len(s) : s[i].kind \notin K}
count(s, K) == Cardinality(OfOtherKind(s, K))

LEMMA CountType ==
    ASSUME NEW T, NEW s \in Seq(T), NEW K
    PROVE  /\ IsFiniteSet(OfOtherKind(s, K)) /\ count(s, K) \in Nat
           /\ s = <<>> => count(s, K) = 0
<1>1. IsFiniteSet(1 .. Len(s))
    BY FS_Interval, LenProperties
<1>2. OfOtherKind(s, K) \in SUBSET (1 .. Len(s))
    BY DEF OfOtherKind
<1>3. s = <<>> => OfOtherKind(s, K) = {}
    BY DEF OfOtherKind
<1> QED
    BY <1>1, <1>2, <1>3, FS_Subset, FS_CardinalityType, FS_EmptySet DEF count

LEMMA CountAppend ==
    ASSUME NEW T, NEW s \in Seq(T), NEW e \in T, NEW K
    PROVE  count(Append(s, e), K) = count(s, K) + IF e.kind \in K THEN 0 ELSE 1
<1> DEFINE t == Append(s, e)
<1>1. /\ Len(s) \in Nat /\ Len(t) = Len(s) + 1 /\ t[Len(s) + 1] = e
      /\ \A i \in 1 .. Len(s) : t[i] = s[i]
    BY LenProperties, AppendProperties
<1> HIDE DEF t
<1>2. OfOtherKind(t, K) = OfOtherKind(s, K) \cup IF e.kind \in K THEN {} ELSE {Len(s) + 1}
    BY <1>1 DEF OfOtherKind
<1>3. Len(s) + 1 \notin OfOtherKind(s, K)
    BY <1>1 DEF OfOtherKind
<1>4. IsFiniteSet(OfOtherKind(s, K)) /\ count(s, K) \in Nat
    BY CountType
<1>5. CASE e.kind \in K
    BY <1>2, <1>4, <1>5 DEF count, t
<1>6. CASE e.kind \notin K
  <2>1. OfOtherKind(t, K) = OfOtherKind(s, K) \cup {Len(s) + 1}
      BY <1>2, <1>6
  <2>2. count(t, K) = count(s, K) + 1
      BY <1>3, <1>4, <2>1, FS_AddElement DEF count
  <2> QED
      BY <1>6, <2>2 DEF t
<1> QED
    BY <1>5, <1>6

LEMMA CountTail ==
    ASSUME NEW T, NEW s \in Seq(T), s # <<>>, NEW K
    PROVE  count(s, K) = count(Tail(s), K) + IF Head(s).kind \in K THEN 0 ELSE 1
<1> DEFINE t == Tail(s)
           Ahead == OfOtherKind(s, K) \ {1}
           Behind == OfOtherKind(t, K)
           up == [i \in Behind |-> i + 1]
<1>1. /\ Len(s) \in Nat \ {0} /\ Len(t) = Len(s) - 1 /\ Head(s) = s[1]
      /\ \A i \in 1 .. Len(t) : t[i] = s[i + 1]
      /\ t \in Seq(T)
    BY LenProperties, HeadTailProperties, EmptySeq
<1> HIDE DEF t
<1>2. \A i \in Nat : i \in Behind <=> i + 1 \in Ahead
    BY <1>1 DEF OfOtherKind
<1>3. Ahead \subseteq Nat \ {0, 1} /\ Behind \subseteq Nat
    BY <1>1 DEF OfOtherKind
<1> HIDE DEF Ahead, Behind
<1>4. up \in [Behind -> Ahead]
    BY <1>2, <1>3
<1>5. \A i, j \in Behind : up[i] = up[j] => i = j
    BY <1>3
<1>6. \A i \in Ahead : \E j \in Behind : up[j] = i
  <2> TAKE i \in Ahead
  <2>1. i - 1 \in Nat /\ (i - 1) + 1 = i
      BY <1>3
  <2>2. i - 1 \in Behind
      BY <1>2, <2>1
  <2> QED
      BY <2>1, <2>2
<1>7. ExistsBijection(Behind, Ahead)
  <2>1. up \in Bijection(Behind, Ahead)
      BY <1>4, <1>5, <1>6 DEF Bijection, Injection, Surjection, IsInjective
  <2> QED
      BY <2>1 DEF ExistsBijection
<1>8. Cardinality(Ahead) = Cardinality(Behind)
  <2>1. IsFiniteSet(Behind)
      BY <1>1, CountType DEF Behind
  <2> QED
      BY <1>7, <2>1, FS_Bijection
<1>9. IsFiniteSet(OfOtherKind(s, K)) /\ count(s, K) \in Nat /\ count(t, K) \in Nat
    BY <1>1, CountType
<1>10. count(t, K) = IF 1 \in OfOtherKind(s, K) THEN count(s, K) - 1 ELSE count(s, K)
    BY <1>8, <1>9, FS_RemoveElement DEF Ahead, Behind, count
<1>11. 1 \in OfOtherKind(s, K) <=> Head(s).kind \notin K
    BY <1>1 DEF OfOtherKind
<1> QED
    BY <1>9, <1>10, <1>11 DEF t

(* Nothing comes of a connection before its login.  One that is lost can   *)
(* be replaced.  The server accepts the login, or it is still to come. ... *)
Started ==
    pc \in {"start", "startLogin", "exited"} => ~accepted /\ answers = <<>> /\ offered = {}

Replaceable ==
    /\ pc \in {"start", "open", "recover", "exited"} => peer # "open"
    /\ peer # "open" => conns < MAX_CONNS

LoginComes ==
    peer = "open" /\ ~accepted
      => \/ pc \in {"startLogin", "login"}
         \/ \E j \in 1 .. Len(answers) : answers[j].kind = "login"

(* ... What it waits to have answered is unread, being read or answered,   *)
OwedIsDue ==
    peer = "open"
      => owed = count(stream, {"ack"}) + count(answers, {"login", "stamp"})
                  + IF pc \in {"sync", "backoff"} THEN 1 ELSE 0

(* and every page that it waits for too.                                   *)
PagesAreDue ==
    peer = "open"
      => \A p \in outstanding :
             \/ \E i \in 1 .. Len(stream) : stream[i] = Line("page", p)
             \/ \E j \in 1 .. Len(answers) : answers[j] = PageAnswer(ReplyTo(p), TRUE)

ConnectionInv == Started /\ Replaceable /\ LoginComes /\ OwedIsDue /\ PagesAreDue

SessionInv == PlaceInv /\ NothingFatal /\ AssertionsHold /\ ConnectionInv

(* What a step can do to a connection that stays open. *)
Rests ==
    /\ pc' = pc \/ (pc \in {"read", "message"} /\ pc' \in {"read", "message"})
    /\ UNCHANGED <<stream, answers, serverVars>>

Replies(line) == {a \in Answers : /\ a.kind \notin {"login", "stamp"}
                                  /\ line.kind = "page" => a = PageAnswer(ReplyTo(line.page), TRUE)}

TakesLine ==
    /\ pc = "read" /\ stream # <<>>
    /\ stream' = Tail(stream)
    /\ \/ Head(stream).kind = "ack" /\ pc' = "message" /\ answers' = answers
       \/ Head(stream).kind = "failed" /\ pc' = "backoff" /\ answers' = answers
       \/ /\ Head(stream).kind = "time" /\ pc' = "sync"
          /\ answers' = Append(answers, Plain("stamp"))
       \/ /\ Head(stream).kind \notin {"ack", "failed", "time"} /\ pc' = "message"
          /\ \E a \in Replies(Head(stream)) : answers' = Append(answers, a)
    /\ UNCHANGED serverVars

EndsLine ==
    /\ pc \in {"sync", "backoff"} /\ pc' = "message"
    /\ answers' = Append(answers, Plain("plus"))
    /\ UNCHANGED <<stream, serverVars>>

LogsIn ==
    /\ pc \in {"startLogin", "login"} /\ pc' \in {"read", "message"}
    /\ answers' = Append(answers, Plain("login"))
    /\ UNCHANGED <<stream, serverVars>>

OpenStep ==
    \/ Rests \/ TakesLine \/ EndsLine \/ LogsIn
    \/ (\E page \in Pages : ServerSendsPage(page)) \/ ServerSendsOther
    \/ ServerAccepts \/ ServerHears

LEMMA ReadsInOpen ==
    ASSUME OneByOne, TypeOK, NothingFatal, read, peer = "open", peer' = "open"
    PROVE  conns' = conns /\ (Rests \/ TakesLine \/ EndsLine)
<1> USE DEF socketVars, memberVars, wireVars
<1>1. CASE ReadNothing
    BY <1>1 DEF ReadNothing, Rests
<1>2. CASE ReadFails
    BY <1>2 DEF ReadFails
<1>3. CASE ReadAck \/ ReadFailedLogin \/ ReadTime
  <2>1. PICK kind \in {"ack", "failed", "time"} :
          /\ Received(kind, NoPage)
          /\ kind = "ack" => pc' = "message" /\ answers' = answers
          /\ kind = "failed" => pc' = "backoff" /\ answers' = answers
          /\ kind = "time" => pc' = "sync" /\ answers' = Append(answers, Plain("stamp"))
      BY <1>3 DEF ReadAck, ReadFailedLogin, ReadTime, Write
  <2>2. stream # <<>> /\ Head(stream) = Line(kind, NoPage) /\ stream' = Tail(stream)
      BY <2>1, TakesOne
  <2>3. pc = "read" /\ conns' = conns /\ UNCHANGED serverVars
      BY <2>1 DEF Received
  <2>4. Head(stream).kind = kind
      BY <2>2 DEF Line
  <2> QED
      BY <2>1, <2>2, <2>3, <2>4 DEF TakesLine
<1>4. CASE ReadOther \/ ReadUnknown \/ ReadSchedule \/ ReadMalformed \/ ReadMessage
  <2> DEFINE Answered(kind, page, answer) ==
               /\ kind \notin {"ack", "failed", "time"}
               /\ Received(kind, page)
               /\ answer \in Answers /\ answer.kind \notin {"login", "stamp"}
               /\ kind = "page" => answer = PageAnswer(ReplyTo(page), TRUE)
               /\ Write(answer, "message", "recover")
  <2>1. \E kind, page, answer : Answered(kind, page, answer)
    <3>1. CASE ReadOther \/ ReadUnknown \/ ReadSchedule
      <4>1. PICK kind \in {"other", "unknown", "schedule"}, sign \in {"plus", "minus"} :
              Received(kind, NoPage) /\ Write(Plain(sign), "message", "recover")
          BY <3>1 DEF ReadOther, ReadUnknown, ReadSchedule
      <4>2. Plain(sign) \in Answers /\ Plain(sign).kind \notin {"login", "stamp"}
          BY AnswerTypes DEF Plain
      <4>3. Answered(kind, NoPage, Plain(sign))
          BY <4>1, <4>2
      <4> QED
          BY <4>3
    <3>2. CASE ReadMalformed
      <4>1. PICK id \in Ids :
              /\ Received("badpage", NoPage)
              /\ Write(PageAnswer(replyId(id), FALSE), "message", "recover")
          BY <3>2 DEF ReadMalformed
      <4>2. id \in Nat
          BY DEF Ids
      <4>3. /\ PageAnswer(replyId(id), FALSE) \in Answers
            /\ PageAnswer(replyId(id), FALSE).kind \notin {"login", "stamp"}
          BY <4>2, AnswerTypes DEF PageAnswer
      <4>4. Answered("badpage", NoPage, PageAnswer(replyId(id), FALSE))
          BY <4>1, <4>3
      <4> QED
          BY <4>4
    <3>3. CASE ReadMessage
      <4>1. PICK page \in Pages :
              /\ Received("page", page)
              /\ Write(PageAnswer(ReplyTo(page), TRUE), "message", "recover")
          BY <3>3 DEF ReadMessage, ReplyTo
      <4>2. idOf(page) \in Nat
          BY NumberRange DEF Ids
      <4>3. /\ PageAnswer(ReplyTo(page), TRUE) \in Answers
            /\ PageAnswer(ReplyTo(page), TRUE).kind \notin {"login", "stamp"}
          BY <4>2, AnswerTypes DEF PageAnswer, ReplyTo
      <4>4. Answered("page", page, PageAnswer(ReplyTo(page), TRUE))
          BY <4>1, <4>3
      <4> QED
          BY <4>4
    <3> HIDE DEF Answered
    <3> QED
        BY <1>4, <3>1, <3>2, <3>3
  <2> PICK kind, page, answer : Answered(kind, page, answer)
      BY <2>1
  <2>2. stream # <<>> /\ Head(stream) = Line(kind, page) /\ stream' = Tail(stream)
      BY TakesOne
  <2>3. pc = "read" /\ conns' = conns /\ UNCHANGED serverVars
      BY DEF Received
  <2>4. Head(stream).kind = kind /\ Head(stream).page = page
      BY <2>2 DEF Line
  <2>5. answer \in Replies(Head(stream))
      BY <2>4 DEF Replies
  <2>6. pc' = "message" /\ answers' = Append(answers, answer)
      BY DEF Write
  <2> QED
      BY <2>2, <2>3, <2>4, <2>5, <2>6 DEF TakesLine
<1>5. CASE ReadBlank \/ ReadBadCode
    BY <1>5 DEF ReadBlank, ReadBadCode
<1>6. CASE AnswerTime \/ BackoffOver
    BY <1>6 DEF AnswerTime, BackoffOver, Write, EndsLine
<1> QED
    BY <1>1, <1>2, <1>3, <1>4, <1>5, <1>6 DEF read

LEMMA StaysOpen ==
    ASSUME OneByOne, TypeOK, NothingFatal, Replaceable, [Next]_vars, peer = "open", peer' = "open"
    PROVE  conns' = conns /\ OpenStep
<1> USE DEF socketVars, memberVars, wireVars
<1>1. CASE read
    BY <1>1, ReadsInOpen DEF OpenStep
<1>2. CASE TakeMessage
    BY <1>2 DEF TakeMessage, Rests, OpenStep
<1>3. CASE StartLogin \/ RecoverLogin
    BY <1>3 DEF StartLogin, RecoverLogin, Write, LogsIn, OpenStep
<1>4. CASE StartOpen \/ StartOpenFails \/ RecoverClose \/ RecoverOpen \/ RecoverOpenFails
    BY <1>4 DEF StartOpen, StartOpenFails, RecoverClose, RecoverOpen, RecoverOpenFails,
                Replaceable
<1>5. CASE Server
    BY <1>5 DEF Server, OpenStep, ServerSendsPage, ServerSendsOther, ServerSends,
                ServerAccepts, ServerHears, ServerReads
<1>6. CASE ServerCloses \/ ConnectionBreaks
    BY <1>6 DEF ServerCloses, ConnectionBreaks
<1>7. CASE Terminated \/ UNCHANGED vars
    BY <1>7 DEF Terminated, vars, Rests, OpenStep
<1> QED
    BY <1>1, <1>2, <1>3, <1>4, <1>5, <1>6, <1>7 DEF Next, Gateway, recover

LEMMA StartedStep ==
    ASSUME SessionInv, [Next]_vars
    PROVE  Started'
<1> USE DEF socketVars, memberVars, wireVars, serverVars
<1> Started
    BY DEF SessionInv, ConnectionInv
<1>1. CASE read \/ TakeMessage \/ recover
  <2>1. pc' \notin {"start", "startLogin", "exited"}
      BY <1>1 DEF read, ReadNothing, ReadFails, ReadAck, ReadTime, AnswerTime, ReadOther,
             ReadUnknown, ReadSchedule, ReadBlank, ReadBadCode, ReadFailedLogin,
             BackoffOver, ReadMessage,
             ReadMalformed, Write, TakeMessage, recover, RecoverClose, RecoverOpen,
             RecoverOpenFails, RecoverLogin
  <2> QED
      BY <2>1 DEF Started
<1>2. CASE StartOpen \/ StartOpenFails
    BY <1>2 DEF StartOpen, StartOpenFails, Connect, Started
<1>3. CASE StartLogin
    BY <1>3 DEF StartLogin, Write, Started
<1>4. CASE Server
    BY <1>4 DEF Server, ServerSendsPage, ServerSendsOther, ServerSends, ServerAccepts,
                ServerHears, ServerReads, Started
<1>5. CASE ServerCloses \/ ConnectionBreaks
    BY <1>5 DEF ServerCloses, ConnectionBreaks, Started
<1>6. CASE Terminated \/ UNCHANGED vars
    BY <1>6 DEF Terminated, vars, Started
<1> QED
    BY <1>1, <1>2, <1>3, <1>4, <1>5, <1>6 DEF Next, Gateway

(* A connection that is not open any more opens only as a new one. *)
LEMMA Reopens ==
    ASSUME [Next]_vars, peer # "open", peer' = "open"
    PROVE  Connect /\ pc' \in {"startLogin", "login"}
<1> USE DEF socketVars, memberVars, wireVars
<1>1. CASE read
    BY <1>1 DEF read, ReadNothing, ReadFails, ReadAck, ReadTime, AnswerTime, ReadOther,
           ReadUnknown, ReadSchedule, ReadBlank, ReadBadCode, ReadFailedLogin,
           BackoffOver, ReadMessage,
           ReadMalformed, Write
<1>2. CASE StartOpen \/ RecoverOpen
    BY <1>2 DEF StartOpen, RecoverOpen
<1>3. CASE StartOpenFails \/ StartLogin \/ TakeMessage \/ RecoverClose \/ RecoverOpenFails
           \/ RecoverLogin
    BY <1>3 DEF StartOpenFails, StartLogin, TakeMessage, RecoverClose, RecoverOpenFails,
                RecoverLogin, Write
<1>4. CASE Server \/ ServerCloses \/ ConnectionBreaks
    BY <1>4 DEF Server, ServerSendsPage, ServerSendsOther, ServerSends, ServerAccepts,
                ServerHears, ServerReads, ServerCloses, ConnectionBreaks
<1>5. CASE Terminated \/ UNCHANGED vars
    BY <1>5 DEF Terminated, vars
<1> QED
    BY <1>1, <1>2, <1>3, <1>4, <1>5 DEF Next, Gateway, recover

LEMMA ReplaceableStep ==
    ASSUME SessionInv, AssertionsHold', [Next]_vars
    PROVE  Replaceable'
<1> USE DEF socketVars, memberVars, wireVars, AssertionsHold
<1> Replaceable
    BY DEF SessionInv, ConnectionInv
<1>1. CASE read
    BY <1>1 DEF read, ReadNothing, ReadFails, ReadAck, ReadTime, AnswerTime, ReadOther,
           ReadUnknown, ReadSchedule, ReadBlank, ReadBadCode, ReadFailedLogin,
           BackoffOver, ReadMessage,
           ReadMalformed, Received, Write, Replaceable
<1>2. CASE StartOpen \/ RecoverOpen
    BY <1>2 DEF StartOpen, RecoverOpen, Connect, Replaceable
<1>3. CASE StartOpenFails \/ StartLogin \/ TakeMessage \/ RecoverClose \/ RecoverOpenFails
           \/ RecoverLogin
    BY <1>3 DEF StartOpenFails, StartLogin, TakeMessage, RecoverClose, RecoverOpenFails,
                RecoverLogin, Write, Replaceable
<1>4. CASE Server
    BY <1>4 DEF Server, ServerSendsPage, ServerSendsOther, ServerSends, ServerAccepts,
                ServerHears, ServerReads, Replaceable
<1>5. CASE ServerCloses
  <2>1. peer = "open" /\ pc' = pc /\ conns' = conns /\ conns < MAX_CONNS
      BY <1>5 DEF ServerCloses
  <2> QED
      BY <1>5, <2>1 DEF ServerCloses, Replaceable
<1>6. CASE ConnectionBreaks \/ Terminated \/ UNCHANGED vars
    BY <1>6 DEF ConnectionBreaks, Terminated, vars, Replaceable
<1> QED
    BY <1>1, <1>2, <1>3, <1>4, <1>5, <1>6 DEF Next, Gateway, recover

(* Where one was added at the end of a sequence, or the first taken. *)
LEMMA Grown ==
    ASSUME NEW T, NEW s \in Seq(T), NEW e \in T
    PROVE  /\ Len(Append(s, e)) = Len(s) + 1
           /\ Len(s) + 1 \in 1 .. Len(Append(s, e)) /\ Append(s, e)[Len(s) + 1] = e
           /\ \A i \in 1 .. Len(s) : i \in 1 .. Len(Append(s, e)) /\ Append(s, e)[i] = s[i]
<1>1. Len(s) \in Nat
    OBVIOUS
<1> QED
    BY <1>1, AppendProperties

LEMMA Shrunk ==
    ASSUME NEW T, NEW s \in Seq(T), s # <<>>
    PROVE  /\ Len(Tail(s)) = Len(s) - 1
           /\ Head(s) = s[1]
           /\ \A i \in 1 .. Len(s) :
                  i = 1 \/ (i - 1 \in 1 .. Len(Tail(s)) /\ Tail(s)[i - 1] = s[i])
<1>1. /\ Len(s) \in Nat
      /\ Len(Tail(s)) = Len(s) - 1 /\ Head(s) = s[1]
      /\ \A i \in 1 .. Len(Tail(s)) : Tail(s)[i] = s[i + 1]
    BY HeadTailProperties
<1>2. ASSUME NEW i \in 1 .. Len(s), i # 1
      PROVE  i - 1 \in 1 .. Len(Tail(s)) /\ Tail(s)[i - 1] = s[i]
  <2>1. i - 1 \in 1 .. Len(Tail(s)) /\ (i - 1) + 1 = i
      BY <1>1, <1>2
  <2> QED
      BY <1>1, <1>2, <2>1
<1> QED
    BY <1>1, <1>2

LEMMA LoginStep ==
    ASSUME TypeOK, LoginComes, peer = "open", OpenStep
    PROVE  LoginComes'
<1> USE DEF socketVars, memberVars, serverVars
<1> SUFFICES ASSUME ~accepted', pc' \notin {"startLogin", "login"}
             PROVE  \E j \in 1 .. Len(answers') : answers'[j].kind = "login"
    BY DEF LoginComes
<1>0. answers \in Seq(Answers) /\ Len(answers) \in Nat
    BY LenProperties DEF TypeOK
<1>1. CASE LogsIn
  <2>1. answers' = Append(answers, Plain("login")) /\ Plain("login") \in Answers
      BY <1>1, AnswerTypes DEF LogsIn
  <2>2. Plain("login").kind = "login"
      BY DEF Plain
  <2> QED
      BY <1>0, <2>1, <2>2, Grown
<1>2. CASE ServerAccepts
    BY <1>2 DEF ServerAccepts
<1>3. CASE ~LogsIn /\ ~ServerAccepts
  <2>1. ~accepted /\ pc \notin {"startLogin", "login"}
      BY <1>3 DEF OpenStep, Rests, TakesLine, EndsLine, ServerSendsPage, ServerSendsOther,
                  ServerSends, ServerHears, ServerReads
  <2>2. PICK j \in 1 .. Len(answers) : answers[j].kind = "login"
      BY <2>1 DEF LoginComes
  <2>3. CASE ServerHears
    <3>1. answers # <<>> /\ answers' = Tail(answers) /\ Head(answers).kind # "login"
        BY <2>3 DEF ServerHears, ServerReads
    <3>2. j - 1 \in 1 .. Len(answers') /\ answers'[j - 1] = answers[j]
        BY <1>0, <2>2, <3>1, Shrunk
    <3> QED
        BY <2>2, <3>2
  <2>4. CASE ~ServerHears
    <3>1. answers' = answers \/ \E a \in Answers : answers' = Append(answers, a)
        BY <1>3, <2>1, <2>4, AnswerTypes
           DEF OpenStep, Rests, TakesLine, EndsLine, Replies, ServerSendsPage,
               ServerSendsOther, ServerSends
    <3> QED
        BY <1>0, <2>2, <3>1, Grown
  <2> QED
      BY <2>3, <2>4
<1> QED
    BY <1>1, <1>2, <1>3

LEMMA PagesDueStep ==
    ASSUME TypeOK, PagesAreDue, peer = "open", OpenStep
    PROVE  PagesAreDue'
<1> USE DEF socketVars, memberVars, serverVars
<1> DEFINE Unheard(p) == \E j \in 1 .. Len(answers') : answers'[j] = PageAnswer(ReplyTo(p), TRUE)
           NotRead(p) == \E i \in 1 .. Len(stream') : stream'[i] = Line("page", p)
<1> SUFFICES ASSUME NEW p \in outstanding' PROVE NotRead(p) \/ Unheard(p)
    BY DEF PagesAreDue, ReplyTo, replyId, idOf
<1>0. /\ answers \in Seq(Answers) /\ Len(answers) \in Nat
      /\ stream \in Seq(Lines) /\ Len(stream) \in Nat
    BY LenProperties DEF TypeOK
<1>a. ASSUME NEW a \in Answers, answers' = Append(answers, a)
      PROVE  /\ Len(answers) + 1 \in 1 .. Len(answers') /\ answers'[Len(answers) + 1] = a
             /\ \A j \in 1 .. Len(answers) : j \in 1 .. Len(answers') /\ answers'[j] = answers[j]
    BY <1>0, <1>a, Grown
<1>1. CASE \E page \in Pages : ServerSendsPage(page) /\ p = page
  <2>1. stream' = Append(stream, Line("page", p)) /\ Line("page", p) \in Lines
      BY <1>1 DEF ServerSendsPage, ServerSends, Line, Lines, Kinds
  <2>2. /\ Len(stream) + 1 \in 1 .. Len(stream')
        /\ stream'[Len(stream) + 1] = Line("page", p)
      BY <1>0, <2>1, Grown
  <2> QED
      BY <2>2
<1>2. CASE ~\E page \in Pages : ServerSendsPage(page) /\ p = page
  <2>1. p \in outstanding
      BY <1>2 DEF OpenStep, Rests, TakesLine, EndsLine, LogsIn, ServerSendsPage,
                  ServerSendsOther, ServerSends, ServerAccepts, ServerHears
  <2>2. CASE \E i \in 1 .. Len(stream) : stream[i] = Line("page", p)
    <3> PICK i \in 1 .. Len(stream) : stream[i] = Line("page", p)
        BY <2>2
    <3>1. CASE TakesLine /\ i = 1
      <4>1. Head(stream) = Line("page", p)
          BY <1>0, <3>1, Shrunk DEF TakesLine
      <4>2. Head(stream).kind = "page" /\ Head(stream).page = p
          BY <4>1 DEF Line
      <4>3. PICK a \in Replies(Head(stream)) : answers' = Append(answers, a)
          BY <3>1, <4>2 DEF TakesLine
      <4>4. a \in Answers /\ a = PageAnswer(ReplyTo(p), TRUE)
          BY <4>2 DEF Replies
      <4>5. Len(answers) + 1 \in 1 .. Len(answers') /\ answers'[Len(answers) + 1] = a
          BY <4>3, <4>4, <1>a
      <4> QED
          BY <4>4, <4>5
    <3>2. CASE TakesLine /\ i # 1
      <4>1. i - 1 \in 1 .. Len(stream') /\ stream'[i - 1] = stream[i]
          BY <1>0, <3>2, Shrunk DEF TakesLine
      <4> QED
          BY <4>1
    <3>3. CASE ~TakesLine
      <4>1. stream' = stream \/ \E line \in Lines : stream' = Append(stream, line)
        <5>1. ASSUME NEW kind \in Kinds, NEW page \in Pages \cup {NoPage}, ServerSends(kind, page)
              PROVE  \E line \in Lines : stream' = Append(stream, line)
          <6>1. Line(kind, page) \in Lines
              BY DEF Line, Lines
          <6> QED
              BY <5>1, <6>1 DEF ServerSends
        <5> QED
            BY <3>3, <5>1, SessionAssumption
               DEF SessionAssumption, Kinds, OpenStep, Rests, EndsLine, LogsIn, ServerSendsPage,
                   ServerSendsOther, ServerAccepts, ServerHears, ServerReads
      <4>2. i \in 1 .. Len(stream') /\ stream'[i] = stream[i]
          BY <1>0, <4>1, Grown
      <4> QED
          BY <4>2
    <3> QED
        BY <3>1, <3>2, <3>3
  <2>3. CASE \E j \in 1 .. Len(answers) : answers[j] = PageAnswer(ReplyTo(p), TRUE)
    <3> PICK j \in 1 .. Len(answers) : answers[j] = PageAnswer(ReplyTo(p), TRUE)
        BY <2>3
    <3>1. CASE ServerAccepts \/ ServerHears
      <4>1. answers # <<>> /\ answers' = Tail(answers)
          BY <3>1 DEF ServerAccepts, ServerHears, ServerReads
      <4>2. j # 1
        <5> SUFFICES ASSUME j = 1 PROVE FALSE
            OBVIOUS
        <5>1. Head(answers) = PageAnswer(ReplyTo(p), TRUE)
            BY <1>0, <4>1, Shrunk
        <5>2. Head(answers).kind = "page" /\ Head(answers).ok /\ Head(answers).id = ReplyTo(p)
            BY <5>1 DEF PageAnswer
        <5>3. p \in Acknowledged(Head(answers))
            BY <2>1, <5>2 DEF Acknowledged, ReplyTo, replyId
        <5> QED
            BY <3>1, <5>2, <5>3 DEF ServerAccepts, ServerHears
      <4>3. j - 1 \in 1 .. Len(answers') /\ answers'[j - 1] = answers[j]
          BY <1>0, <4>1, <4>2, Shrunk
      <4> QED
          BY <4>3
    <3>2. CASE ~ServerAccepts /\ ~ServerHears
      <4>1. answers' = answers \/ \E a \in Answers : answers' = Append(answers, a)
          BY <3>2, AnswerTypes
             DEF OpenStep, Rests, TakesLine, EndsLine, LogsIn, Replies, ServerSendsPage,
                 ServerSendsOther, ServerSends
      <4>2. j \in 1 .. Len(answers') /\ answers'[j] = answers[j]
          BY <4>1, <1>a
      <4> QED
          BY <4>2
    <3> QED
        BY <3>1, <3>2
  <2> QED
      BY <2>1, <2>2, <2>3 DEF PagesAreDue
<1> QED
    BY <1>1, <1>2

LEMMA OwedStep ==
    ASSUME TypeOK, TypeOK', OwedIsDue, peer = "open", peer' = "open", OpenStep
    PROVE  OwedIsDue'
<1> USE DEF socketVars, memberVars, serverVars
<1> DEFINE Silent == {"login", "stamp"}
           here  == IF pc \in {"sync", "backoff"} THEN 1 ELSE 0
           there == IF pc' \in {"sync", "backoff"} THEN 1 ELSE 0
           lines    == count(stream, {"ack"})
           replies  == count(answers, Silent)
           lines1   == count(stream', {"ack"})
           replies1 == count(answers', Silent)
<1>0. /\ owed = lines + replies + here
      /\ stream \in Seq(Lines) /\ stream' \in Seq(Lines)
      /\ answers \in Seq(Answers) /\ answers' \in Seq(Answers)
      /\ owed \in Nat
    BY DEF OwedIsDue, TypeOK
<1>1. /\ lines \in Nat /\ replies \in Nat /\ lines1 \in Nat /\ replies1 \in Nat
      /\ stream' = stream => lines1 = lines
      /\ answers' = answers => replies1 = replies
    BY <1>0, CountType
<1>2. ASSUME NEW a \in Answers, answers' = Append(answers, a)
      PROVE  replies1 = replies + IF a.kind \in Silent THEN 0 ELSE 1
    BY <1>0, <1>2, CountAppend
<1>3. ASSUME answers # <<>>, answers' = Tail(answers)
      PROVE  replies = replies1 + IF Head(answers).kind \in Silent THEN 0 ELSE 1
    BY <1>0, <1>3, CountTail
<1>4. ASSUME NEW line \in Lines, stream' = Append(stream, line)
      PROVE  lines1 = lines + IF line.kind \in {"ack"} THEN 0 ELSE 1
    BY <1>0, <1>4, CountAppend
<1>5. ASSUME stream # <<>>, stream' = Tail(stream)
      PROVE  lines = lines1 + IF Head(stream).kind \in {"ack"} THEN 0 ELSE 1
    BY <1>0, <1>5, CountTail
<1>6. /\ \A kind \in {"login", "stamp"} : Plain(kind) \in Answers /\ Plain(kind).kind \in Silent
      /\ Plain("plus") \in Answers /\ Plain("plus").kind \notin Silent
    BY AnswerTypes DEF Plain
<1> SUFFICES owed' = lines1 + replies1 + there
    BY DEF OwedIsDue
<1> HIDE DEF lines, replies, lines1, replies1
<1>7. CASE Rests
  <2>1. lines1 = lines /\ replies1 = replies /\ there = here /\ owed' = owed
      BY <1>1, <1>7 DEF Rests
  <2> QED
      BY <1>0, <2>1
<1>8. CASE TakesLine
  <2>1. lines = lines1 + (IF Head(stream).kind \in {"ack"} THEN 0 ELSE 1) /\ here = 0 /\ owed' = owed
      BY <1>5, <1>8 DEF TakesLine
  <2>2. CASE Head(stream).kind \in {"ack", "failed"}
    <3>1. replies1 = replies /\ there = IF Head(stream).kind = "ack" THEN 0 ELSE 1
        BY <1>1, <1>8, <2>2 DEF TakesLine
    <3> QED
        BY <1>0, <1>1, <2>1, <3>1
  <2>3. CASE Head(stream).kind = "time"
    <3>1. replies1 = replies /\ there = 1
        BY <1>1, <1>2, <1>6, <1>8, <2>3 DEF TakesLine
    <3> QED
        BY <1>0, <1>1, <2>1, <2>3, <3>1
  <2>4. CASE Head(stream).kind \notin {"ack", "failed", "time"}
    <3>1. PICK a \in Replies(Head(stream)) : answers' = Append(answers, a)
        BY <1>8, <2>4 DEF TakesLine
    <3>2. replies1 = replies + 1
        BY <1>1, <1>2, <3>1 DEF Replies
    <3>3. there = 0
        BY <1>8, <2>4 DEF TakesLine
    <3> QED
        BY <1>0, <1>1, <2>1, <2>4, <3>2, <3>3
  <2> QED
      BY <2>2, <2>3, <2>4
<1>9. CASE EndsLine
  <2>1. lines1 = lines /\ replies1 = replies + 1 /\ here = 1 /\ there = 0 /\ owed' = owed
      BY <1>1, <1>2, <1>6, <1>9 DEF EndsLine
  <2> QED
      BY <1>0, <1>1, <2>1
<1>10. CASE LogsIn
  <2>1. lines1 = lines /\ replies1 = replies /\ here = 0 /\ there = 0 /\ owed' = owed
      BY <1>1, <1>2, <1>6, <1>10 DEF LogsIn
  <2> QED
      BY <1>0, <1>1, <2>1
<1>11. CASE (\E page \in Pages : ServerSendsPage(page)) \/ ServerSendsOther
  <2>1. PICK kind \in Kinds, page \in Pages \cup {NoPage} : ServerSends(kind, page)
      BY <1>11, SessionAssumption
         DEF SessionAssumption, Kinds, ServerSendsPage, ServerSendsOther
  <2>2. Line(kind, page) \in Lines /\ Line(kind, page).kind = kind
      BY DEF Line, Lines
  <2>3. /\ lines1 = lines + IF kind \in {"ack"} THEN 0 ELSE 1
        /\ replies1 = replies /\ there = here
        /\ owed' = IF kind = "ack" THEN owed ELSE owed + 1
      BY <1>1, <1>4, <2>1, <2>2 DEF ServerSends
  <2> QED
      BY <1>0, <1>1, <2>3
<1>12. CASE ServerAccepts
  <2>1. /\ answers # <<>> /\ answers' = Tail(answers) /\ Head(answers).kind = "login"
        /\ lines1 = lines /\ there = here /\ owed' = owed
      BY <1>1, <1>12 DEF ServerAccepts, ServerReads
  <2>2. replies1 = replies
      BY <1>1, <1>3, <2>1
  <2> QED
      BY <1>0, <2>1, <2>2
<1>13. CASE ServerHears
  <2>1. /\ answers # <<>> /\ answers' = Tail(answers) /\ Head(answers).kind # "login"
        /\ lines1 = lines /\ there = here
        /\ owed' = IF Head(answers).kind = "stamp" \/ owed = 0 THEN owed ELSE owed - 1
      BY <1>1, <1>13 DEF ServerHears, ServerReads
  <2>2. replies = replies1 + IF Head(answers).kind = "stamp" THEN 0 ELSE 1
      BY <1>1, <1>3, <2>1
  <2> QED
      BY <1>0, <1>1, <2>1, <2>2
<1> QED
    BY <1>7, <1>8, <1>9, <1>10, <1>11, <1>12, <1>13 DEF OpenStep

LEMMA ConnectionStep ==
    ASSUME OneByOne, SessionInv, TypeOK', AssertionsHold', [Next]_vars
    PROVE  ConnectionInv'
<1>1. Started' /\ Replaceable'
    BY StartedStep, ReplaceableStep
<1>2. CASE peer = "open" /\ peer' = "open"
  <2>1. OpenStep
      BY <1>2, StaysOpen DEF SessionInv, PlaceInv, ConnectionInv
  <2> QED
      BY <1>1, <1>2, <2>1, LoginStep, PagesDueStep, OwedStep
         DEF SessionInv, PlaceInv, ConnectionInv
<1>3. CASE peer # "open" /\ peer' = "open"
  <2>1. /\ pc' \in {"startLogin", "login"}
        /\ stream' = <<>> /\ answers' = <<>> /\ owed' = 0 /\ outstanding' = {}
      BY <1>3, Reopens DEF Connect
  <2>2. count(stream', {"ack"}) = 0 /\ count(answers', {"login", "stamp"}) = 0
    <3>1. stream' \in Seq(Lines) /\ answers' \in Seq(Answers)
        BY DEF TypeOK
    <3> QED
        BY <2>1, <3>1, CountType
  <2>3. LoginComes' /\ OwedIsDue' /\ PagesAreDue'
      BY <2>1, <2>2 DEF LoginComes, OwedIsDue, PagesAreDue
  <2> QED
      BY <1>1, <2>3 DEF ConnectionInv
<1>4. CASE peer' # "open"
    BY <1>1, <1>4 DEF ConnectionInv, LoginComes, OwedIsDue, PagesAreDue
<1> QED
    BY <1>2, <1>3, <1>4

LEMMA SessionInvHolds ==
    ASSUME OneByOne
    PROVE  Spec => []SessionInv
<1>1. Init => NothingFatal /\ AssertionsHold
    BY DEF Init, NothingFatal, AssertionsHold
<1>2. Init => ConnectionInv
    BY SessionAssumption
       DEF SessionAssumption, Init, ConnectionInv, Started, Replaceable, LoginComes,
           OwedIsDue, PagesAreDue
<1>3. PlaceInv /\ NothingFatal /\ AssertionsHold /\ [Next]_vars
        => NothingFatal' /\ AssertionsHold'
    BY WholeStep DEF OneByOne, PlaceInv
<1>4. PlaceInv /\ PlaceInv' /\ NothingFatal /\ AssertionsHold /\ AssertionsHold' /\ ConnectionInv
        /\ [Next]_vars => ConnectionInv'
    BY ConnectionStep DEF SessionInv, PlaceInv
<1>5. SessionInv <=> PlaceInv /\ NothingFatal /\ AssertionsHold /\ ConnectionInv
    BY DEF SessionInv
<1> QED
    BY <1>1, <1>2, <1>3, <1>4, <1>5, PlaceInvHolds, PTL DEF Spec

(* What is left to do in a connection that stays open: a page or another   *)
(* line to send counts five, an unread line four, an unread answer one;    *)
(* a login, and the second step of a line, two.                            *)
AtWork == {"startLogin", "login", "sync", "backoff"}

unsent == Pages \ (acked \cup outstanding)

toDo ==
    5 * (Cardinality(unsent) + (MAX_OTHERS - others))
      + 4 * Len(stream) + Len(answers) + IF pc \in AtWork THEN 2 ELSE 0

LEMMA ToDoType ==
    ASSUME TypeOK
    PROVE  toDo \in Nat /\ IsFiniteSet(unsent) /\ Cardinality(unsent) \in Nat
<1>1. IsFiniteSet(Pages)
    BY FS_Interval, SessionAssumption DEF SessionAssumption, Pages
<1>2. IsFiniteSet(unsent) /\ Cardinality(unsent) \in Nat
    BY <1>1, FS_Subset, FS_CardinalityType DEF unsent
<1>3. /\ MAX_OTHERS - others \in Nat /\ Len(stream) \in Nat /\ Len(answers) \in Nat
    BY SessionAssumption, LenProperties DEF SessionAssumption, TypeOK
<1>4. \A a, b, c, d \in Nat :
          5 * (a + b) + 4 * c + d + (IF pc \in AtWork THEN 2 ELSE 0) \in Nat
    OBVIOUS
<1> QED
    BY <1>2, <1>3, <1>4 DEF toDo

LEMMA ToDoStep ==
    ASSUME TypeOK, TypeOK', OpenStep, ~Rests
    PROVE  toDo' < toDo
<1> USE SessionAssumption DEF SessionAssumption, socketVars, memberVars, serverVars
<1> DEFINE u == Cardinality(unsent)    u1 == Cardinality(unsent')
           o == MAX_OTHERS - others    o1 == MAX_OTHERS - others'
           l == Len(stream)            l1 == Len(stream')
           a == Len(answers)           a1 == Len(answers')
           w == IF pc \in AtWork THEN 2 ELSE 0
           w1 == IF pc' \in AtWork THEN 2 ELSE 0
<1>1. toDo = 5 * (u + o) + 4 * l + a + w /\ toDo' = 5 * (u1 + o1) + 4 * l1 + a1 + w1
    BY DEF toDo, unsent
<1>2. /\ u \in Nat /\ u1 \in Nat /\ o \in Nat /\ o1 \in Nat
      /\ l \in Nat /\ l1 \in Nat /\ a \in Nat /\ a1 \in Nat
      /\ IsFiniteSet(unsent)
  <2>1. o \in Nat /\ o1 \in Nat
    <3>1. others \in 0 .. MAX_OTHERS /\ others' \in 0 .. MAX_OTHERS
        BY DEF TypeOK
    <3>2. \A x \in 0 .. MAX_OTHERS : MAX_OTHERS - x \in Nat
        OBVIOUS
    <3> QED
        BY ONLY <3>1, <3>2
  <2>2. l \in Nat /\ l1 \in Nat /\ a \in Nat /\ a1 \in Nat
    <3>1. /\ stream \in Seq(Lines) /\ stream' \in Seq(Lines)
          /\ answers \in Seq(Answers) /\ answers' \in Seq(Answers)
        BY DEF TypeOK
    <3> QED
        BY <3>1
  <2>3. TypeOK' => (Cardinality(unsent) \in Nat)'
      BY ToDoType, PTL
  <2> QED
      BY <2>1, <2>2, <2>3, ToDoType
<1>3. /\ stream \in Seq(Lines) /\ answers \in Seq(Answers)
      /\ others \in Nat /\ others' \in Nat
    BY DEF TypeOK
<1>4. /\ \A x \in Answers : Len(Append(answers, x)) = a + 1
      /\ \A x \in Lines : Len(Append(stream, x)) = l + 1
      /\ stream # <<>> => Len(Tail(stream)) = l - 1 /\ l > 0
      /\ answers # <<>> => Len(Tail(answers)) = a - 1 /\ a > 0
    BY <1>3, Grown, Shrunk, EmptySeq
<1>5. \A kind \in {"login", "stamp", "plus"} : Plain(kind) \in Answers
    BY AnswerTypes
<1>6. UNCHANGED <<acked, outstanding>> => u1 = u
    BY DEF unsent
<1>7. CASE TakesLine
  <2>1. u1 = u /\ o1 = o /\ l1 = l - 1 /\ l > 0
      BY <1>4, <1>6, <1>7 DEF TakesLine
  <2>2. w = 0 /\ a1 + w1 <= a + 3
    <3>1. CASE Head(stream).kind \in {"ack", "failed"}
        BY <1>2, <1>7, <3>1 DEF TakesLine, AtWork
    <3>2. CASE Head(stream).kind \notin {"ack", "failed"}
      <4>1. \E x \in Answers : answers' = Append(answers, x)
          BY <1>5, <1>7, <3>2 DEF TakesLine, Replies
      <4>2. a1 = a + 1
          BY <1>4, <4>1
      <4> QED
          BY <1>2, <1>7, <4>2 DEF TakesLine, AtWork
    <3> QED
        BY <3>1, <3>2
  <2> HIDE DEF u, u1, o, o1, l, l1, a, a1, w, w1
  <2>3. w1 \in {0, 2}
      BY DEF w1
  <2> QED
      BY <1>1, <1>2, <2>1, <2>2, <2>3
<1>8. CASE EndsLine \/ LogsIn
  <2>1. u1 = u /\ o1 = o /\ l1 = l /\ w = 2 /\ w1 = 0
      BY <1>6, <1>8 DEF EndsLine, LogsIn, AtWork
  <2>2. a1 = a + 1
      BY <1>4, <1>5, <1>8 DEF EndsLine, LogsIn
  <2> HIDE DEF u, u1, o, o1, l, l1, a, a1, w, w1
  <2> QED
      BY <1>1, <1>2, <2>1, <2>2
<1>9. CASE \E page \in Pages : ServerSendsPage(page)
  <2>1. PICK page \in Pages : ServerSendsPage(page)
      BY <1>9
  <2>2. /\ stream' = Append(stream, Line("page", page)) /\ Line("page", page) \in Lines
        /\ answers' = answers /\ pc' = pc /\ others' = others
        /\ page \in unsent /\ unsent' = unsent \ {page}
      BY <2>1 DEF ServerSendsPage, ServerSends, Line, Lines, Kinds, unsent
  <2>3. u1 = u - 1
      BY <1>2, <2>2, FS_RemoveElement
  <2>4. l1 = l + 1 /\ a1 = a /\ w1 = w /\ o1 = o /\ w \in {0, 2}
      BY <1>4, <2>2
  <2> HIDE DEF u, u1, o, o1, l, l1, a, a1, w, w1
  <2> QED
      BY <1>1, <1>2, <2>3, <2>4
<1>10. CASE ServerSendsOther
  <2>1. PICK kind \in OtherKinds : ServerSends(kind, NoPage)
      BY <1>10 DEF ServerSendsOther
  <2>2. /\ stream' = Append(stream, Line(kind, NoPage)) /\ Line(kind, NoPage) \in Lines
        /\ answers' = answers /\ pc' = pc /\ others' = others + 1
      BY <1>10, <2>1 DEF ServerSendsOther, ServerSends, Line, Lines
  <2>3. l1 = l + 1 /\ a1 = a /\ w1 = w /\ o1 = o - 1 /\ w \in {0, 2}
      BY <1>3, <1>4, <2>2
  <2>4. u1 = u
      BY <1>6, <1>10, <2>1 DEF ServerSendsOther, ServerSends
  <2> HIDE DEF u, u1, o, o1, l, l1, a, a1, w, w1
  <2> QED
      BY <1>1, <1>2, <2>3, <2>4
<1>11. CASE ServerAccepts \/ ServerHears
  <2>1. /\ answers # <<>> /\ answers' = Tail(answers)
        /\ stream' = stream /\ pc' = pc /\ others' = others
        /\ unsent' = unsent
      BY <1>11 DEF ServerAccepts, ServerHears, ServerReads, Acknowledged, unsent
  <2>2. a1 = a - 1 /\ l1 = l /\ w1 = w /\ o1 = o /\ u1 = u /\ w \in {0, 2}
      BY <1>4, <2>1
  <2> HIDE DEF u, u1, o, o1, l, l1, a, a1, w, w1
  <2> QED
      BY <1>1, <1>2, <2>2
<1> QED
    BY <1>7, <1>8, <1>9, <1>10, <1>11 DEF OpenStep

(* The fairness of FairSpec, with the states in which it asks for a step   *)
(* spelt out.                                                              *)
LoginThere  == answers # <<>> /\ Head(answers).kind = "login"
AnswerThere == answers # <<>> /\ Head(answers).kind # "login"

MaySend(page) ==
    /\ accepted /\ peer = "open" /\ owed < WINDOW
    /\ page \notin acked \cup outstanding
    /\ \A p \in outstanding : idOf(p) # idOf(page)

SessionGoesOn ==
    /\ []<><<Gateway>>_vars \/ []<>(pc \in {"aborted", "exited"})
    /\ []<>(pc = "open" /\ conns < MAX_CONNS) => []<><<RecoverOpen>>_vars
    /\ []<><<ServerAccepts>>_vars \/ []<>~LoginThere
    /\ []<><<ServerHears>>_vars \/ []<>~AnswerThere
    /\ \A page \in Pages : []<><<ServerSendsPage(page)>>_vars \/ []<>~MaySend(page)

(* What the gateway does next in an open connection. *)
LEMMA GatewayInOpen ==
    ASSUME OneByOne, SessionInv, AssertionsHold', Gateway, peer = "open", peer' = "open"
    PROVE  ~Rests \/ (pc = "message" /\ pc' = "read") \/ (pc = "read" /\ stream = <<>>)
<1> USE DEF socketVars, memberVars, wireVars, serverVars, AssertionsHold
<1> TypeOK /\ NothingFatal /\ Replaceable
    BY DEF SessionInv, PlaceInv, ConnectionInv
<1>1. CASE ReadNothing \/ ReadFails
    BY <1>1 DEF ReadNothing, ReadFails
<1>2. CASE ReadAck \/ ReadTime \/ ReadOther \/ ReadUnknown \/ ReadSchedule \/ ReadBlank \/ ReadBadCode
           \/ ReadFailedLogin \/ ReadMessage \/ ReadMalformed
  <2>1. \E kind, page : Received(kind, page)
      BY <1>2 DEF ReadAck, ReadTime, ReadOther, ReadUnknown, ReadSchedule, ReadBlank,
          ReadBadCode,
                  ReadFailedLogin, ReadMessage, ReadMalformed
  <2>2. stream # <<>> /\ stream' = Tail(stream)
      BY <2>1, TakesOne
  <2>3. Len(stream') # Len(stream)
      BY <2>2, Shrunk DEF TypeOK
  <2> QED
      BY <2>3 DEF Rests
<1>3. CASE AnswerTime \/ BackoffOver \/ StartLogin \/ RecoverLogin
    BY <1>3 DEF AnswerTime, BackoffOver, StartLogin, RecoverLogin, Write, Rests
<1>4. CASE TakeMessage
    BY <1>4 DEF TakeMessage
<1>5. CASE StartOpen \/ StartOpenFails \/ RecoverClose \/ RecoverOpen \/ RecoverOpenFails
    BY <1>5 DEF StartOpen, StartOpenFails, RecoverClose, RecoverOpen, RecoverOpenFails,
                Replaceable
<1> QED
    BY <1>1, <1>2, <1>3, <1>4, <1>5 DEF Gateway, read, recover

(* Only the gateway moves from place to place. *)
LEMMA OthersStay ==
    ASSUME [Next]_vars, ~Gateway
    PROVE  pc' = pc
BY DEF Next, Server, ServerSendsPage, ServerSendsOther, ServerSends, ServerAccepts,
       ServerHears, ServerReads, ServerCloses, ConnectionBreaks, Terminated, vars

(* What the server does next. *)
LEMMA ServerInOpen ==
    ASSUME TypeOK
    PROVE  /\ ServerAccepts \/ ServerHears => ~Rests
           /\ \A page \in Pages : ServerSendsPage(page) => ~Rests
<1>1. stream \in Seq(Lines) /\ answers \in Seq(Answers) /\ Len(stream) \in Nat
      /\ Len(answers) \in Nat
    BY LenProperties DEF TypeOK
<1>2. ASSUME ServerAccepts \/ ServerHears
      PROVE  ~Rests
  <2>1. answers # <<>> /\ answers' = Tail(answers)
      BY <1>2 DEF ServerAccepts, ServerHears, ServerReads
  <2>2. Len(answers') # Len(answers)
      BY <1>1, <2>1, Shrunk
  <2> QED
      BY <2>2 DEF Rests
<1>3. ASSUME NEW page \in Pages, ServerSendsPage(page)
      PROVE  ~Rests
  <2>1. stream' = Append(stream, Line("page", page)) /\ Line("page", page) \in Lines
      BY <1>3 DEF ServerSendsPage, ServerSends, Line, Lines, Kinds
  <2>2. Len(stream') # Len(stream)
      BY <1>1, <2>1, Grown
  <2> QED
      BY <2>2 DEF Rests
<1> QED
    BY <1>2, <1>3

(* As long as a page waits to be acknowledged in an open connection, there *)
(* is something to do: at the least, the page can be sent.                 *)
LEMMA SomethingToDo ==
    ASSUME OneByOne, SessionInv, NEW page \in Pages, page \notin acked, page \in offered,
           peer = "open"
    PROVE  \/ LoginThere \/ AnswerThere \/ pc \in AtWork
           \/ (pc = "read" /\ stream # <<>>) \/ (pc = "message" /\ stream # <<>>)
           \/ MaySend(page)
<1> TypeOK /\ AssertionsHold /\ ConnectionInv
    BY DEF SessionInv, PlaceInv
<1>1. pc \in AtWork \cup {"read", "message"}
    BY DEF TypeOK, Steps, AtWork, AssertionsHold, ConnectionInv, Replaceable
<1> SUFFICES ASSUME answers = <<>>, stream = <<>>, pc \in {"read", "message"}
             PROVE  MaySend(page)
    BY <1>1 DEF LoginThere, AnswerThere
<1>2. Len(answers) = 0 /\ Len(stream) = 0
    OBVIOUS
<1>3. accepted
    BY <1>2 DEF ConnectionInv, LoginComes
<1>4. owed = 0
  <2>1. count(stream, {"ack"}) = 0 /\ count(answers, {"login", "stamp"}) = 0
      BY CountType DEF TypeOK
  <2> QED
      BY <2>1 DEF ConnectionInv, OwedIsDue
<1>5. outstanding = {}
    BY <1>2 DEF ConnectionInv, PagesAreDue
<1>6. owed < WINDOW
    BY <1>4, SessionAssumption DEF SessionAssumption
<1> QED
    BY <1>3, <1>5, <1>6 DEF MaySend

(* A page that was offered is acknowledged, or its connection lost. *)
Settled(page) == page \in acked \/ page \notin offered \/ peer # "open"

Remains(page, k) == toDo = k /\ ~Settled(page)
Nearer(page, k) == (toDo \in Nat /\ toDo < k) \/ Settled(page)

LEMMA RemainsOrNearer ==
    ASSUME OneByOne, NEW page \in Pages, NEW k \in Nat,
           SessionInv, SessionInv', [Next]_vars, Remains(page, k)
    PROVE  (Remains(page, k)' /\ Rests /\ peer' = "open") \/ Nearer(page, k)'
<1> TypeOK /\ TypeOK' /\ NothingFatal /\ Replaceable /\ peer = "open"
    BY DEF SessionInv, PlaceInv, ConnectionInv, Remains, Settled
<1> SUFFICES ASSUME ~Settled(page)'
             PROVE  (toDo' = k /\ Rests) \/ (toDo' \in Nat /\ toDo' < k)
    BY DEF Remains, Nearer, Settled
<1>1. peer' = "open"
    BY DEF Settled
<1>2. OpenStep
    BY <1>1, StaysOpen
<1>3. TypeOK' => (toDo \in Nat)'
    BY ToDoType, PTL
<1>4. CASE Rests
  <2>1. unsent' = unsent /\ others' = others
      BY <1>4 DEF Rests, serverVars, unsent
  <2>2. stream' = stream /\ answers' = answers /\ (pc' \in AtWork <=> pc \in AtWork)
      BY <1>4 DEF Rests, AtWork
  <2>3. toDo' = toDo
      BY <2>1, <2>2 DEF toDo
  <2> QED
      BY <1>4, <2>3 DEF Remains
<1>5. CASE ~Rests
    BY <1>2, <1>3, <1>5, ToDoStep DEF Remains
<1> QED
    BY <1>4, <1>5

(* So each step that may follow brings the end nearer, if the one whose    *)
(* turn it is takes it.                                                    *)
LEMMA OpenNears ==
    ASSUME OneByOne, NEW page \in Pages, NEW k \in Nat
    PROVE  Spec /\ SessionGoesOn => ComesDown(toDo, Settled(page), k)
<1> DEFINE H == Remains(page, k)
           N == Nearer(page, k)
           Waits == pc = "message" /\ stream # <<>>
           Reads == pc = "read" /\ stream # <<>>
           Works == pc \in AtWork
<1>0. SessionInv => AssertionsHold
    BY DEF SessionInv
<1>1. /\ SessionInv /\ SessionInv' /\ [Next]_vars /\ H => H' \/ N'
      /\ SessionInv /\ SessionInv' /\ [Next]_vars /\ H /\ LoginThere => (H /\ LoginThere)' \/ N'
      /\ SessionInv /\ SessionInv' /\ [Next]_vars /\ H /\ AnswerThere => (H /\ AnswerThere)' \/ N'
      /\ SessionInv /\ SessionInv' /\ [Next]_vars /\ H /\ MaySend(page) => (H /\ MaySend(page))' \/ N'
      /\ SessionInv /\ SessionInv' /\ [Next]_vars /\ H /\ Works => (H /\ Works)' \/ N'
      /\ SessionInv /\ SessionInv' /\ [Next]_vars /\ H /\ Waits
           => (H /\ Waits)' \/ (H /\ Reads)' \/ N'
  <2> SUFFICES ASSUME SessionInv, SessionInv', [Next]_vars, H, ~N'
               PROVE  /\ H'
                      /\ LoginThere => LoginThere'
                      /\ AnswerThere => AnswerThere'
                      /\ MaySend(page) => MaySend(page)'
                      /\ Works => Works'
                      /\ Waits => Waits' \/ Reads'
      OBVIOUS
  <2>1. H' /\ Rests /\ peer' = "open"
      BY RemainsOrNearer
  <2> HIDE DEF H
  <2> QED
      BY <2>1 DEF Rests, serverVars, LoginThere, AnswerThere, MaySend, idOf, AtWork
<1>2. SessionInv /\ SessionInv' /\ [Next]_vars /\ H /\ Reads => (H /\ Reads)' \/ N'
  <2> SUFFICES ASSUME SessionInv, SessionInv', [Next]_vars, H, Reads, ~N'
               PROVE  H' /\ Reads'
      OBVIOUS
  <2>1. H' /\ Rests /\ peer' = "open" /\ peer = "open"
      BY RemainsOrNearer DEF Remains, Settled
  <2>2. ~Gateway
      BY <1>0, <2>1, GatewayInOpen DEF SessionInv
  <2>3. pc' = pc
      BY <2>2, OthersStay
  <2> HIDE DEF H
  <2> QED
      BY <2>1, <2>3 DEF Rests
<1>3. /\ SessionInv /\ SessionInv' /\ [Next]_vars /\ H /\ <<ServerAccepts>>_vars => N'
      /\ SessionInv /\ SessionInv' /\ [Next]_vars /\ H /\ <<ServerHears>>_vars => N'
      /\ SessionInv /\ SessionInv' /\ [Next]_vars /\ H /\ <<ServerSendsPage(page)>>_vars => N'
  <2>1. SessionInv => TypeOK
      BY DEF SessionInv, PlaceInv
  <2> QED
      BY <2>1, RemainsOrNearer, ServerInOpen
<1>4. /\ SessionInv /\ SessionInv' /\ [Next]_vars /\ H /\ Works /\ <<Gateway>>_vars => N'
      /\ SessionInv /\ SessionInv' /\ [Next]_vars /\ H /\ Reads /\ <<Gateway>>_vars => N'
      /\ SessionInv /\ SessionInv' /\ [Next]_vars /\ H /\ Waits /\ <<Gateway>>_vars
           => (H /\ Reads)' \/ N'
  <2> SUFFICES ASSUME SessionInv, SessionInv', [Next]_vars, H, Gateway, ~N'
               PROVE  ~Works /\ ~Reads /\ (Waits => H' /\ Reads')
      OBVIOUS
  <2>1. H' /\ Rests /\ peer' = "open" /\ peer = "open"
      BY RemainsOrNearer DEF Remains, Settled
  <2>2. (pc = "message" /\ pc' = "read") \/ (pc = "read" /\ stream = <<>>)
      BY <2>1, GatewayInOpen DEF SessionInv
  <2> HIDE DEF H
  <2> QED
      BY <2>1, <2>2 DEF Rests, AtWork
<1>5. SessionInv /\ H => \/ LoginThere \/ AnswerThere \/ Works \/ Reads \/ Waits \/ MaySend(page)
    BY SomethingToDo DEF Remains, Settled
<1>6. SessionInv /\ H => ~(pc \in {"aborted", "exited"})
    BY DEF SessionInv, ConnectionInv, Replaceable, AssertionsHold, Remains, Settled
<1>7. /\ SessionGoesOn => []<><<Gateway>>_vars \/ []<>(pc \in {"aborted", "exited"})
      /\ SessionGoesOn => []<><<ServerAccepts>>_vars \/ []<>~LoginThere
      /\ SessionGoesOn => []<><<ServerHears>>_vars \/ []<>~AnswerThere
      /\ SessionGoesOn => []<><<ServerSendsPage(page)>>_vars \/ []<>~MaySend(page)
    BY DEF SessionGoesOn
<1>8. Spec => []SessionInv
    BY SessionInvHolds
<1> HIDE DEF H, N, Waits, Reads, Works
<1>9. Spec /\ SessionGoesOn => (H /\ LoginThere ~> N)
    BY <1>1, <1>3, <1>7, <1>8, PTL DEF Spec
<1>10. Spec /\ SessionGoesOn => (H /\ AnswerThere ~> N)
    BY <1>1, <1>3, <1>7, <1>8, PTL DEF Spec
<1>11. Spec /\ SessionGoesOn => (H /\ MaySend(page) ~> N)
    BY <1>1, <1>3, <1>7, <1>8, PTL DEF Spec
<1>12. Spec /\ SessionGoesOn => (H /\ Works ~> N)
    BY <1>1, <1>4, <1>6, <1>7, <1>8, PTL DEF Spec
<1>13. Spec /\ SessionGoesOn => (H /\ Reads ~> N)
    BY <1>2, <1>4, <1>6, <1>7, <1>8, PTL DEF Spec
<1>14. Spec /\ SessionGoesOn => (H /\ Waits ~> N)
    BY <1>1, <1>4, <1>6, <1>7, <1>8, <1>13, PTL DEF Spec
<1>15. toDo = k => H \/ N
    BY DEF H, N, Remains, Nearer
<1>16. N <=> (toDo \in Nat /\ toDo < k) \/ Settled(page)
    BY DEF N, Nearer
<1> QED
    BY <1>5, <1>8, <1>9, <1>10, <1>11, <1>12, <1>13, <1>14, <1>15, <1>16, PTL DEF ComesDown

(* What is left to do after the server has gone: what it had sent is still *)
(* read, and each line may take two steps and a readMessage.               *)
drainLeft ==
    3 * Len(stream) + CASE pc \in AtWork -> 3
                        [] pc = "message" -> 2
                        [] pc = "read" -> 1
                        [] OTHER -> 0

(* recover() has begun, or there is nothing to recover. *)
Recovering == peer = "open" \/ pc \in {"recover", "open"} \/ offered = {}

LEMMA DrainType ==
    ASSUME TypeOK
    PROVE  drainLeft \in Nat
<1>1. Len(stream) \in Nat
    BY LenProperties DEF TypeOK
<1> QED
    BY <1>1 DEF drainLeft, AtWork

LEMMA GatewayDrains ==
    ASSUME OneByOne, SessionInv, SessionInv', Gateway, ~Recovering, ~Recovering'
    PROVE  drainLeft' < drainLeft
<1> USE DEF socketVars, memberVars, wireVars, AtWork, AssertionsHold
<1> TypeOK /\ TypeOK' /\ NothingFatal /\ Started
    BY DEF SessionInv, PlaceInv, ConnectionInv
<1>1. Len(stream) \in Nat /\ Len(stream') \in Nat /\ stream \in Seq(Lines)
    BY LenProperties DEF TypeOK
<1>2. CASE ReadNothing \/ ReadFails \/ StartOpen \/ StartOpenFails \/ StartLogin \/ RecoverClose
           \/ RecoverOpen \/ RecoverOpenFails
    BY <1>2 DEF ReadNothing, ReadFails, StartOpen, StartOpenFails, StartLogin, RecoverClose,
                RecoverOpen, RecoverOpenFails, Recovering, Started
<1>3. CASE ReadAck \/ ReadTime \/ ReadOther \/ ReadUnknown \/ ReadSchedule \/ ReadBlank \/ ReadBadCode
           \/ ReadFailedLogin \/ ReadMessage \/ ReadMalformed
  <2>1. /\ \E kind, page : Received(kind, page)
        /\ pc = "read" /\ pc' \in {"message", "sync", "backoff", "recover", "aborted"}
      BY <1>3 DEF ReadAck, ReadTime, ReadOther, ReadUnknown, ReadSchedule, ReadBlank,
          ReadBadCode,
                  ReadFailedLogin, ReadMessage, ReadMalformed, Received, Write
  <2>2. stream # <<>> /\ stream' = Tail(stream)
      BY <2>1, TakesOne
  <2>3. Len(stream') = Len(stream) - 1
      BY <1>1, <2>2, Shrunk
  <2>4. pc' \in {"message", "sync", "backoff"}
      BY <2>1 DEF SessionInv, Recovering
  <2> QED
      BY <1>1, <2>1, <2>3, <2>4 DEF drainLeft
<1>4. CASE AnswerTime \/ BackoffOver \/ RecoverLogin
  <2>1. /\ pc \in {"sync", "backoff", "login"} /\ pc' \in {"message", "recover"}
        /\ stream' = stream
      BY <1>4 DEF AnswerTime, BackoffOver, RecoverLogin, Write
  <2>2. pc' = "message"
      BY <2>1 DEF Recovering
  <2> QED
      BY <1>1, <2>1, <2>2 DEF drainLeft
<1>5. CASE TakeMessage
  <2>1. pc = "message" /\ pc' = "read" /\ stream' = stream
      BY <1>5 DEF TakeMessage
  <2> QED
      BY <1>1, <2>1 DEF drainLeft
<1> QED
    BY <1>2, <1>3, <1>4, <1>5 DEF Gateway, read, recover

LEMMA OthersDrain ==
    ASSUME TypeOK, [Next]_vars, ~Gateway, peer # "open"
    PROVE  drainLeft' <= drainLeft
<1>1. pc' = pc
    BY OthersStay
<1>2. stream' = stream \/ stream' = <<>>
    BY DEF Next, Server, ServerSendsPage, ServerSendsOther, ServerSends, ServerAccepts,
           ServerHears, ServerReads, ServerCloses, ConnectionBreaks, Terminated, vars, wireVars
<1>3. Len(stream) \in Nat /\ Len(<<>>) = 0
    BY LenProperties DEF TypeOK
<1>4. Len(stream') <= Len(stream) /\ Len(stream') \in Nat
    BY <1>2, <1>3
<1> QED
    BY <1>1, <1>3, <1>4 DEF drainLeft, AtWork

LEMMA DrainNears ==
    ASSUME OneByOne, NEW k \in Nat
    PROVE  Spec /\ SessionGoesOn => ComesDown(drainLeft, Recovering, k)
<1> DEFINE H == drainLeft = k /\ ~Recovering
           N == (drainLeft \in Nat /\ drainLeft < k) \/ Recovering
<1>1. /\ SessionInv /\ SessionInv' /\ [Next]_vars /\ H => H' \/ N'
      /\ SessionInv /\ SessionInv' /\ [Next]_vars /\ H /\ <<Gateway>>_vars => N'
  <2> SUFFICES ASSUME SessionInv, SessionInv', [Next]_vars, H, ~Recovering'
               PROVE  /\ drainLeft' \in Nat /\ drainLeft' <= k
                      /\ Gateway => drainLeft' < k
      OBVIOUS
  <2>1. TypeOK /\ TypeOK'
      BY DEF SessionInv, PlaceInv
  <2>2. TypeOK' => (drainLeft \in Nat)'
      BY DrainType, PTL
  <2>3. peer # "open"
      BY DEF Recovering
  <2>4. CASE Gateway
      BY <2>1, <2>2, <2>4, GatewayDrains
  <2>5. CASE ~Gateway
      BY <2>1, <2>2, <2>3, <2>5, OthersDrain
  <2> QED
      BY <2>4, <2>5
<1>2. SessionInv /\ H => ~(pc \in {"aborted", "exited"})
    BY DEF SessionInv, ConnectionInv, Started, AssertionsHold, Recovering
<1>3. SessionGoesOn => []<><<Gateway>>_vars \/ []<>(pc \in {"aborted", "exited"})
    BY DEF SessionGoesOn
<1>4. Spec => []SessionInv
    BY SessionInvHolds
<1>5. drainLeft = k => H \/ N
    OBVIOUS
<1>6. N <=> (drainLeft \in Nat /\ drainLeft < k) \/ Recovering
    OBVIOUS
<1> HIDE DEF H, N
<1>7. Spec /\ SessionGoesOn => (H ~> N)
    BY <1>1, <1>2, <1>3, <1>4, PTL DEF Spec
<1> QED
    BY <1>4, <1>5, <1>6, <1>7, PTL DEF ComesDown

(* recover() (DAPNETGateway.cpp) tries until it has a connection again.    *)
LEMMA Reconnects ==
    ASSUME OneByOne
    PROVE  Spec /\ SessionGoesOn => (pc \in {"recover", "open"} ~> peer = "open")
<1> DEFINE Away == pc \in {"recover", "open"}
           Back == peer = "open"
<1>1. [Next]_vars /\ Away => Away' \/ Back'
  <2> SUFFICES ASSUME [Next]_vars, Away PROVE Away' \/ Back'
      OBVIOUS
  <2>1. CASE Gateway
      BY <2>1 DEF Gateway, read, recover, StartOpen, StartOpenFails, StartLogin, TakeMessage,
             ReadNothing, ReadFails, ReadAck, ReadTime, AnswerTime, ReadOther, ReadUnknown,
             ReadSchedule, ReadBlank, ReadBadCode, ReadFailedLogin, BackoffOver,
             ReadMessage, ReadMalformed,
             Received, RecoverClose, RecoverOpen, RecoverOpenFails, RecoverLogin, Connect
  <2>2. CASE ~Gateway
      BY <2>2, OthersStay
  <2> QED
      BY <2>1, <2>2
<1>2. [Next]_vars /\ pc = "recover" => (pc = "recover")' \/ (pc = "open")'
    BY <1>1, OthersStay
       DEF Gateway, read, recover, StartOpen, StartOpenFails, StartLogin, TakeMessage,
           ReadNothing, ReadFails, ReadAck, ReadTime, AnswerTime, ReadOther, ReadUnknown,
           ReadSchedule, ReadBlank, ReadBadCode, ReadFailedLogin, BackoffOver,
           ReadMessage, ReadMalformed,
           Received, RecoverClose, RecoverOpen, RecoverOpenFails, RecoverLogin
<1>3. [Next]_vars /\ pc = "recover" /\ <<Gateway>>_vars => (pc = "open")'
    BY DEF Gateway, read, recover, StartOpen, StartOpenFails, StartLogin, TakeMessage,
           ReadNothing, ReadFails, ReadAck, ReadTime, AnswerTime, ReadOther, ReadUnknown,
           ReadSchedule, ReadBlank, ReadBadCode, ReadFailedLogin, BackoffOver,
           ReadMessage, ReadMalformed,
           Received, RecoverClose, RecoverOpen, RecoverOpenFails, RecoverLogin
<1>4. <<RecoverOpen>>_vars => Back'
    BY DEF RecoverOpen, Connect
<1>5. SessionInv /\ pc = "open" => pc = "open" /\ conns < MAX_CONNS
    BY DEF SessionInv, ConnectionInv, Replaceable
<1>6. Away => ~(pc \in {"aborted", "exited"})
    OBVIOUS
<1>7. Away <=> pc = "recover" \/ pc = "open"
    OBVIOUS
<1>8. /\ SessionGoesOn => []<><<Gateway>>_vars \/ []<>(pc \in {"aborted", "exited"})
      /\ SessionGoesOn => ([]<>(pc = "open" /\ conns < MAX_CONNS) => []<><<RecoverOpen>>_vars)
    BY DEF SessionGoesOn
<1>9. Spec => []SessionInv
    BY SessionInvHolds
<1> HIDE DEF Away, Back
<1>10. Spec /\ SessionGoesOn => (Away ~> Back)
    BY <1>1, <1>2, <1>3, <1>4, <1>5, <1>6, <1>7, <1>8, <1>9, PTL DEF Spec
<1> QED
    BY <1>10, PTL DEF Away, Back

(* A connection that is lost costs one of those that are left. *)
connsLeft == MAX_CONNS - conns

Delivered(page) == page \in acked \/ page \notin offered

LEMMA ConnectionsRunOut ==
    ASSUME TypeOK, TypeOK', [Next]_vars
    PROVE  /\ connsLeft \in Nat /\ connsLeft' \in Nat
           /\ connsLeft' = connsLeft \/ connsLeft' < connsLeft
           /\ peer # "open" /\ peer' = "open" => connsLeft' < connsLeft
<1>1. conns' = conns \/ conns' = conns + 1
    BY DEF Next, Gateway, Server, read, recover, StartOpen, StartOpenFails, StartLogin,
        TakeMessage, ReadNothing, ReadFails, ReadAck, ReadTime, AnswerTime, ReadOther,
        ReadUnknown, ReadSchedule, ReadBlank, ReadBadCode, ReadFailedLogin, BackoffOver,
        ReadMessage,
        ReadMalformed, Received, RecoverClose, RecoverOpen, RecoverOpenFails, RecoverLogin,
        Connect, ServerSendsPage, ServerSendsOther, ServerSends, ServerAccepts, ServerHears,
        ServerReads, ServerCloses, ConnectionBreaks, Terminated, socketVars, vars
<1>2. peer # "open" /\ peer' = "open" => conns' = conns + 1
    BY Reopens DEF Connect
<1>3. conns \in 0 .. MAX_CONNS /\ conns' \in 0 .. MAX_CONNS /\ MAX_CONNS \in Nat
    BY SessionAssumption DEF SessionAssumption, TypeOK
<1>4. \A c \in 0 .. MAX_CONNS : MAX_CONNS - c \in Nat /\ MAX_CONNS - (c + 1) < MAX_CONNS - c
    BY ONLY <1>3
<1>5. connsLeft = MAX_CONNS - conns /\ connsLeft' = MAX_CONNS - conns'
    BY SessionAssumption DEF connsLeft
<1> QED
    BY ONLY <1>1, <1>2, <1>3, <1>4, <1>5

LEMMA OfferedLasts ==
    ASSUME [Next]_vars
    PROVE  offered \subseteq offered'
BY DEF Next, Gateway, Server, read, recover, StartOpen, StartOpenFails, StartLogin,
    TakeMessage, ReadNothing, ReadFails, ReadAck, ReadTime, AnswerTime, ReadOther,
    ReadUnknown, ReadSchedule, ReadBlank, ReadBadCode, ReadFailedLogin, BackoffOver,
    ReadMessage,
    ReadMalformed, Received, RecoverClose, RecoverOpen, RecoverOpenFails, RecoverLogin,
    Connect, ServerSendsPage, ServerSendsOther, ServerSends, ServerAccepts, ServerHears,
    ServerReads, ServerCloses, ConnectionBreaks, Terminated, serverVars, vars

(* The three counts, of which each restarts with every connection but the  *)
(* last, which is that of the connections.                                 *)
SessionCounts ==
    /\ CountsDown(drainLeft, Recovering)
    /\ \A page \in Pages : /\ CountsDown(toDo, Settled(page))
                           /\ CountsDown(connsLeft, Delivered(page))

LEMMA DrainEnds ==
    ASSUME OneByOne
    PROVE  Spec /\ SessionGoesOn /\ SessionCounts => (drainLeft \in Nat ~> Recovering)
<1> DEFINE Nears(k) == ComesDown(drainLeft, Recovering, k)
<1>1. Spec /\ SessionGoesOn => \A k \in Nat : Nears(k)
  <2>1. ASSUME NEW k \in Nat PROVE Spec /\ SessionGoesOn => Nears(k)
      BY DrainNears
  <2> HIDE DEF Nears
  <2> QED
      BY <2>1
<1>2. SessionCounts /\ (\A k \in Nat : Nears(k)) => (drainLeft \in Nat ~> Recovering)
    BY DEF SessionCounts, CountsDown
<1> QED
    BY <1>1, <1>2, PTL

LEMMA OpenEnds ==
    ASSUME OneByOne, NEW page \in Pages
    PROVE  Spec /\ SessionGoesOn /\ SessionCounts => (toDo \in Nat ~> Settled(page))
<1> DEFINE Nears(k) == ComesDown(toDo, Settled(page), k)
<1>1. Spec /\ SessionGoesOn => \A k \in Nat : Nears(k)
  <2>1. ASSUME NEW k \in Nat PROVE Spec /\ SessionGoesOn => Nears(k)
      BY OpenNears
  <2> HIDE DEF Nears
  <2> QED
      BY <2>1
<1>2. SessionCounts /\ (\A k \in Nat : Nears(k)) => (toDo \in Nat ~> Settled(page))
    BY DEF SessionCounts, CountsDown
<1> QED
    BY <1>1, <1>2, PTL

LEMMA ConnectionsNear ==
    ASSUME OneByOne, NEW page \in Pages, NEW k \in Nat
    PROVE  Spec /\ SessionGoesOn /\ SessionCounts => ComesDown(connsLeft, Delivered(page), k)
<1> DEFINE H == connsLeft = k /\ ~Delivered(page)
           N == (connsLeft \in Nat /\ connsLeft < k) \/ Delivered(page)
           Lost == H /\ peer # "open"
           There == H /\ peer = "open"
           Away == pc \in {"recover", "open"}
           Back == peer = "open"
<1>1. /\ SessionInv /\ SessionInv' /\ [Next]_vars /\ H => H' \/ N'
      /\ SessionInv /\ SessionInv' /\ [Next]_vars /\ Lost => Lost' \/ N'
  <2> SUFFICES ASSUME SessionInv, SessionInv', [Next]_vars, H, ~N'
               PROVE  H' /\ (peer # "open" => peer' # "open")
      OBVIOUS
  <2>1. TypeOK /\ TypeOK'
      BY DEF SessionInv, PlaceInv
  <2> QED
      BY <2>1, ConnectionsRunOut
<1>2. SessionInv => drainLeft \in Nat /\ toDo \in Nat
    BY DrainType, ToDoType DEF SessionInv, PlaceInv
<1>3. There => ~Delivered(page)
    OBVIOUS
<1>4. Settled(page) => Delivered(page) \/ ~Back
    BY DEF Settled, Delivered
<1>5. Delivered(page) => N
    OBVIOUS
<1>6. H => Lost \/ There
    OBVIOUS
<1>7. H /\ Recovering => Back \/ Away
    BY DEF Recovering, Delivered
<1>8. Spec => []SessionInv
    BY SessionInvHolds
<1>9. /\ connsLeft = k => H \/ N
      /\ N <=> (connsLeft \in Nat /\ connsLeft < k) \/ Delivered(page)
    OBVIOUS
<1>10. /\ Lost => H /\ ~Back
       /\ There <=> H /\ Back
       /\ H /\ ~Back => Lost
    OBVIOUS
<1>11. Spec /\ SessionGoesOn => (Away ~> Back)
    BY Reconnects
<1> HIDE DEF H, N, Lost, There, Away, Back
<1>12. Spec /\ SessionGoesOn /\ SessionCounts => (Lost ~> N)
    BY <1>1, <1>2, <1>7, <1>8, <1>10, <1>11, DrainEnds, PTL DEF Spec
<1>13. Spec /\ SessionGoesOn /\ SessionCounts => (There ~> N)
    BY <1>1, <1>2, <1>4, <1>5, <1>8, <1>10, <1>12, OpenEnds, PTL DEF Spec
<1> QED
    BY <1>6, <1>9, <1>12, <1>13, PTL DEF ComesDown

(* Every page that the server offers is acknowledged in the end, across    *)
(* lost connections and failed logins, for any number of pages that share  *)
(* the numbers of two digits (DAPNETNetwork::read, parseMessage, and       *)
(* recover in DAPNETGateway.cpp): where every recv() returns one line, and *)
(* if gateway, server and network go on as FairSpec says.                  *)
THEOREM EveryOfferArrives ==
    ASSUME OneByOne
    PROVE  Spec /\ SessionGoesOn /\ SessionCounts => EveryPageArrives
<1> DEFINE Arrives(page) == page \in offered ~> page \in acked
<1>1. ASSUME NEW page \in Pages
      PROVE  Spec /\ SessionGoesOn /\ SessionCounts => Arrives(page)
  <2> DEFINE Nears(k) == ComesDown(connsLeft, Delivered(page), k)
  <2>1. Spec /\ SessionGoesOn /\ SessionCounts => \A k \in Nat : Nears(k)
    <3>1. ASSUME NEW k \in Nat PROVE Spec /\ SessionGoesOn /\ SessionCounts => Nears(k)
        BY ConnectionsNear
    <3> HIDE DEF Nears
    <3> QED
        BY <3>1
  <2>2. SessionCounts /\ (\A k \in Nat : Nears(k)) => (connsLeft \in Nat ~> Delivered(page))
      BY DEF SessionCounts, CountsDown
  <2>3. TypeOK => connsLeft \in Nat
    <3>1. TypeOK => conns \in 0 .. MAX_CONNS /\ MAX_CONNS \in Nat
        BY SessionAssumption DEF SessionAssumption, TypeOK
    <3> QED
        BY <3>1 DEF connsLeft
  <2>4. [Next]_vars /\ page \in offered => (page \in offered)'
      BY OfferedLasts
  <2>5. Delivered(page) /\ page \in offered => page \in acked
      BY DEF Delivered
  <2> QED
      BY <2>1, <2>2, <2>3, <2>4, <2>5, SessionTypeCorrect, PTL DEF Spec
<1>2. EveryPageArrives <=> \A page \in Pages : Arrives(page)
    BY DEF EveryPageArrives
<1> HIDE DEF Arrives
<1> QED
    BY <1>1, <1>2
=============================================================================
