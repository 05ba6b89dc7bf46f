------------------------- MODULE GatewayQueueProofs -------------------------
(***************************************************************************)
(* The main loop implements PagingQueue: its initial states are those of   *)
(* the abstract queue, and each of its steps receives, hands over, throws  *)
(* away, lets time pass, or changes nothing that the queue can see.        *)
(***************************************************************************)
EXTENDS GatewayQueue, DAPNETGatewayProofs

(* A page that was read is held in CDAPNETNetwork::m_message only until    *)
(* readMessage is called in the same turn of the loop, so parseMessage     *)
(* never overwrites one.                                                   *)
HandsFree == pc \notin {"recover", "message"} => netMessage = None

QueueInv == TypeOK /\ HandsFree

LEMMA InitQueueInv == Init => QueueInv
  BY InitType DEF Init, QueueInv, HandsFree

LEMMA NextQueueInv == QueueInv /\ [Next]_vars => QueueInv'
  <1>. SUFFICES ASSUME QueueInv, [Next]_vars PROVE QueueInv'
    OBVIOUS
  <1>0. TypeOK /\ TypeOK' /\ HandsFree
    BY NextType DEF QueueInv
  <1>1. CASE PollHost \/ ReadOther \/ ReadSchedule \/ ReadFailedLogin \/ BackoffOver
             \/ sendMessages \/ Stop \/ sigHandler \/ ClockSet \/ UNCHANGED vars
    <2>1. netMessage' = netMessage
      BY <1>1 DEF PollHost, HostIdle, HostBusy, HostSilent, ReadOther, ReadSchedule,
          ReadFailedLogin, BackoffOver, sendMessages, SendAnySlot, SendInSlot,
          SendNothing, Stop, sigHandler, ClockSet, vars, networkVars
    <2>2. pc' \notin {"recover", "message"} => pc \notin {"recover", "message"}
      BY <1>1 DEF PollHost, HostIdle, HostBusy, HostSilent, Poll, ReadOther,
          ReadSchedule, ReadFailedLogin, BackoffOver, ReadReturns, sendMessages,
          SendAnySlot, SendInSlot, SendNothing, Stop, sigHandler, ClockSet, vars
    <2>. QED
      BY <1>0, <2>1, <2>2 DEF QueueInv, HandsFree
  <1>2. CASE ReadMessage \/ RecoverSucceeds
    BY <1>0, <1>2 DEF ReadMessage, RecoverSucceeds, ReadReturns, QueueInv, HandsFree
  <1>3. CASE QueueMessage
    BY <1>0, <1>3 DEF QueueMessage, QueueInv, HandsFree
  <1>4. CASE BackoffSleep \/ RecoverFails \/ Sleep \/ StartSlot \/ SameSlot
    <2>1. netMessage = None => netMessage' = None
      BY <1>4 DEF BackoffSleep, RecoverFails, Sleep, StartSlot, SameSlot, Elapse, ElapseFrom
    <2>2. pc' \notin {"recover", "message"} => pc \notin {"recover", "message"}
      BY <1>4 DEF BackoffSleep, RecoverFails, Sleep, StartSlot, SameSlot
    <2>. QED
      BY <1>0, <2>1, <2>2 DEF QueueInv, HandsFree
  <1>. QED
    BY <1>1, <1>2, <1>3, <1>4 DEF Next, ReadNetwork, CheckSlot, Terminated

-----------------------------------------------------------------------------
(* Time. *)

LEMMA AgedIsOlder ==
    ASSUME NEW entry \in Entries, NEW d \in Nat
    PROVE  LET short == AtMost(MAX_TIME_TO_HOLD_TIME_MESSAGES, d)
           IN  /\ short \in 0 .. MAX_TIME_TO_HOLD_TIME_MESSAGES
               /\ Aged(entry, d) = Queue!Older(entry, short)
               /\ short = 0 => Aged(entry, d) = entry
  <1>. DEFINE short == AtMost(MAX_TIME_TO_HOLD_TIME_MESSAGES, d)
  <1>1. short \in 0 .. MAX_TIME_TO_HOLD_TIME_MESSAGES
    BY CapTypes DEF AtMost
  <1>2. entry.age \in 0 .. MAX_TIME_TO_HOLD_TIME_MESSAGES
    BY DEF Entries, Ages
  <1>3. AtMost(MAX_TIME_TO_HOLD_TIME_MESSAGES, entry.age + d)
          = IF entry.age + short > MAX_TIME_TO_HOLD_TIME_MESSAGES
            THEN MAX_TIME_TO_HOLD_TIME_MESSAGES ELSE entry.age + short
    BY <1>2, CapTypes DEF AtMost
  <1>4. Aged(entry, d) = Queue!Older(entry, short)
    BY <1>3 DEF Aged, Queue!Older
  <1>5. ASSUME short = 0 PROVE Aged(entry, d) = entry
    <2>1. AtMost(MAX_TIME_TO_HOLD_TIME_MESSAGES, entry.age + d) = entry.age
      BY <1>2, <1>3, <1>5, CapTypes
    <2>. QED
      BY <2>1 DEF Aged, Entries
  <1>. QED
    BY <1>1, <1>4, <1>5

(* Ageing a page and then appending it is ageing the longer queue. *)
LEMMA AppendAged ==
    ASSUME NEW q \in Seq(Entries), NEW e \in Entries, NEW d \in Nat
    PROVE  Append([i \in DOMAIN q |-> Aged(q[i], d)], Aged(e, d))
             = [i \in DOMAIN Append(q, e) |-> Aged(Append(q, e)[i], d)]
  <1>. DEFINE qa == [i \in DOMAIN q |-> Aged(q[i], d)]
              r  == [i \in DOMAIN Append(q, e) |-> Aged(Append(q, e)[i], d)]
  <1>1. /\ qa \in Seq(Entries) /\ Len(qa) = Len(q)
        /\ \A i \in 1 .. Len(q) : qa[i] = Aged(q[i], d)
    BY AgedQueue
  <1>2. Append(q, e) \in Seq(Entries) /\ Len(Append(q, e)) = Len(q) + 1
    OBVIOUS
  <1>3. r \in Seq(Entries) /\ Len(r) = Len(q) + 1
    BY <1>2, AgedQueue
  <1>4. \A i \in 1 .. Len(q) + 1 : r[i] = Aged(Append(q, e)[i], d)
    BY <1>2
  <1>. HIDE DEF qa, r
  <1>5. Aged(e, d) \in Entries
    BY AgedType
  <1>6. /\ Append(qa, Aged(e, d)) \in Seq(Entries)
        /\ Len(Append(qa, Aged(e, d))) = Len(q) + 1
    BY <1>1, <1>5
  <1>7. ASSUME NEW i \in 1 .. Len(q) + 1
        PROVE  Append(qa, Aged(e, d))[i] = r[i]
    <2>1. CASE i = Len(q) + 1
      BY <1>1, <1>4, <1>5, <2>1
    <2>2. CASE i \in 1 .. Len(q)
      <3>1. Append(qa, Aged(e, d))[i] = qa[i] /\ Append(q, e)[i] = q[i]
        BY <1>1, <1>5, <2>2
      <3>. QED
        BY <1>1, <1>4, <2>2, <3>1
    <2>3. i = Len(q) + 1 \/ i \in 1 .. Len(q)
      OBVIOUS
    <2>. QED
      BY <2>1, <2>2, <2>3
  <1>8. Append(qa, Aged(e, d)) = r
    BY <1>3, <1>6, <1>7
  <1>. QED
    BY <1>8 DEF qa, r

LEMMA AgedPending ==
    ASSUME QueueInv, NEW d \in Nat, NEW timer, NEW boundaries,
           ElapseFrom(d, timer, boundaries)
    PROVE  /\ pendingBar \in Seq(Entries)
           /\ pendingBar' = [i \in DOMAIN pendingBar |-> Aged(pendingBar[i], d)]
  <1>1. m_queue \in Seq(Entries) /\ netMessage \in Entries \cup {None}
    BY DEF QueueInv, TypeOK
  <1>2. /\ m_queue' = [i \in DOMAIN m_queue |-> Aged(m_queue[i], d)]
        /\ netMessage' = IF netMessage = None THEN None ELSE Aged(netMessage, d)
    BY DEF ElapseFrom
  <1>3. pendingBar \in Seq(Entries)
    BY <1>1 DEF pendingBar
  <1>4. CASE netMessage = None
    BY <1>2, <1>3, <1>4 DEF pendingBar
  <1>5. CASE netMessage # None
    <2>1. netMessage' \in Entries /\ netMessage'.page = netMessage.page
      BY <1>1, <1>2, <1>5, AgedType
    <2>2. netMessage' # None
      BY <2>1, GatewayAssumption
    <2>3. CASE Accepted(Conf, netMessage.page)
      <3>1. pendingBar = Append(m_queue, netMessage)
        BY <1>5, <2>3 DEF pendingBar
      <3>2. pendingBar' = Append(m_queue', netMessage')
        BY <2>1, <2>2, <2>3 DEF pendingBar
      <3>3. netMessage' = Aged(netMessage, d)
        BY <1>2, <1>5
      <3>. QED
        BY <1>1, <1>2, <1>3, <1>5, <3>1, <3>2, <3>3, AppendAged
    <2>4. CASE ~Accepted(Conf, netMessage.page)
      BY <1>2, <1>3, <1>5, <2>1, <2>4 DEF pendingBar
    <2>. QED
      BY <2>3, <2>4
  <1>. QED
    BY <1>3, <1>4, <1>5

LEMMA ElapseWaits ==
    ASSUME QueueInv, NEW d \in Nat, NEW timer, NEW boundaries,
           ElapseFrom(d, timer, boundaries), hostRx' = hostRx
    PROVE  [Queue!Next]_<<pendingBar, hostRx>>
  <1>. DEFINE short == AtMost(MAX_TIME_TO_HOLD_TIME_MESSAGES, d)
  <1>1. /\ pendingBar \in Seq(Entries)
        /\ pendingBar' = [i \in DOMAIN pendingBar |-> Aged(pendingBar[i], d)]
    BY AgedPending
  <1>2. /\ short \in 0 .. MAX_TIME_TO_HOLD_TIME_MESSAGES
        /\ \A i \in DOMAIN pendingBar :
              /\ Aged(pendingBar[i], d) = Queue!Older(pendingBar[i], short)
              /\ short = 0 => Aged(pendingBar[i], d) = pendingBar[i]
    <2>1. \A i \in DOMAIN pendingBar : pendingBar[i] \in Entries
      BY <1>1
    <2>2. short \in 0 .. MAX_TIME_TO_HOLD_TIME_MESSAGES
      BY CapTypes DEF AtMost
    <2>. QED
      BY <2>1, <2>2, AgedIsOlder
  <1>. HIDE DEF short
  <1>3. CASE short = 0
    <2>1. pendingBar' = pendingBar
      BY <1>1, <1>2, <1>3
    <2>. QED
      BY <2>1
  <1>4. CASE short # 0
    <2>1. short \in 1 .. MAX_TIME_TO_HOLD_TIME_MESSAGES
      BY <1>2, <1>4, CapTypes
    <2>2. pendingBar' = [i \in DOMAIN pendingBar |-> Queue!Older(pendingBar[i], short)]
      BY <1>1, <1>2
    <2>3. Queue!Wait
      BY <2>1, <2>2 DEF Queue!Wait
    <2>. QED
      BY <2>3 DEF Queue!Next
  <1>. QED
    BY <1>3, <1>4

-----------------------------------------------------------------------------
(* Pages. *)

LEMMA ReadReceives ==
    ASSUME QueueInv, ReadMessage
    PROVE  [Queue!Next]_<<pendingBar, hostRx>>
  <1>1. netMessage = None /\ m_queue' = m_queue /\ hostRx' = hostRx
    BY DEF ReadMessage, QueueInv, HandsFree, hostVars
  <1>2. PICK m \in Messages : netMessage' = [page |-> m, age |-> 0]
    BY DEF ReadMessage
  <1>3. netMessage' # None /\ netMessage'.page = m
    <2>1. netMessage' \in Entries
      BY <1>2, CapTypes DEF Entries, Ages
    <2>. QED
      BY <1>2, <2>1, GatewayAssumption
  <1>4. pendingBar = m_queue
    BY <1>1 DEF pendingBar
  <1>5. CASE Accepted(Conf, m)
    <2>1. pendingBar' = Append(pendingBar, [page |-> m, age |-> 0])
      BY <1>1, <1>2, <1>3, <1>4, <1>5 DEF pendingBar
    <2>2. m \in AdmittedMessages
      BY <1>5 DEF AdmittedMessages
    <2>. QED
      BY <1>1, <2>1, <2>2 DEF Queue!Next, Queue!Receive
  <1>6. CASE ~Accepted(Conf, m)
    BY <1>1, <1>3, <1>4, <1>6 DEF pendingBar
  <1>. QED
    BY <1>5, <1>6

LEMMA SendingHandsOver ==
    ASSUME QueueInv, SendAnySlot \/ SendInSlot
    PROVE  [Queue!Next]_<<pendingBar, hostRx>>
  <1>. DEFINE entry == Head(m_queue)
  <1>1. netMessage = None /\ netMessage' = None
    BY DEF SendAnySlot, SendInSlot, QueueInv, HandsFree, networkVars
  <1>2. pendingBar = m_queue /\ pendingBar' = m_queue'
    BY <1>1 DEF pendingBar
  <1>3. m_queue # <<>> /\ m_queue' = Tail(m_queue)
    BY DEF SendAnySlot, SendInSlot
  <1>4. entry.page \in Messages
    <2>1. entry \in Entries
      BY <1>3 DEF QueueInv, TypeOK
    <2>. QED
      BY <2>1 DEF Entries
  <1>5. Stale(entry) <=> Queue!Useless(entry)
    BY <1>4 DEF Stale, Queue!Useless
  <1>6. CASE Stale(entry)
    <2>1. hostRx' = hostRx
      BY <1>6 DEF SendAnySlot, SendInSlot, Drop
    <2>. QED
      BY <1>2, <1>3, <1>5, <1>6, <2>1 DEF Queue!Next, Queue!ThrowAway
  <1>7. CASE ~Stale(entry)
    <2>1. hostRx' \in {entry.page, hostRx}
      BY <1>7 DEF SendAnySlot, SendInSlot, Write
    <2>. QED
      BY <1>2, <1>3, <1>5, <1>7, <2>1 DEF Queue!Next, Queue!HandOver
  <1>. QED
    BY <1>6, <1>7

LEMMA NextSimulates ==
    QueueInv /\ [Next]_vars => [Queue!Next]_<<pendingBar, hostRx>>
  <1>. SUFFICES ASSUME QueueInv, [Next]_vars
                PROVE  [Queue!Next]_<<pendingBar, hostRx>>
    OBVIOUS
  <1>1. CASE PollHost \/ ReadOther \/ ReadSchedule \/ ReadFailedLogin \/ BackoffOver
             \/ RecoverSucceeds \/ SendNothing \/ Stop \/ sigHandler \/ ClockSet \/ UNCHANGED vars
    <2>1. UNCHANGED <<m_queue, netMessage, hostRx>>
      BY <1>1 DEF PollHost, HostIdle, HostBusy, HostSilent, ReadOther, ReadSchedule,
          ReadFailedLogin, BackoffOver, RecoverSucceeds, SendNothing, Stop, sigHandler,
          ClockSet, vars, networkVars, hostVars
    <2>. QED
      BY <2>1 DEF pendingBar
  <1>2. CASE ReadMessage
    BY <1>2, ReadReceives
  <1>3. CASE QueueMessage
    BY <1>3 DEF QueueMessage, pendingBar, hostVars
  <1>4. CASE BackoffSleep \/ RecoverFails \/ Sleep \/ StartSlot \/ SameSlot
    <2>1. PICK d \in OutageTimes \cup SleepTimes \cup StepTimes :
              \E timer, boundaries : ElapseFrom(d, timer, boundaries)
      BY <1>4 DEF BackoffSleep, RecoverFails, Sleep, StartSlot, SameSlot, Elapse
    <2>2. d \in Nat
      BY GatewayAssumption, CapTypes
    <2>3. hostRx' = hostRx
      BY <1>4 DEF BackoffSleep, RecoverFails, Sleep, StartSlot, SameSlot
    <2>. QED
      BY <2>1, <2>2, <2>3, ElapseWaits
  <1>5. CASE SendAnySlot \/ SendInSlot
    BY <1>5, SendingHandsOver
  <1>. QED
    BY <1>1, <1>2, <1>3, <1>4, <1>5
    DEF Next, ReadNetwork, CheckSlot, sendMessages, Terminated

(* The gateway buffers pages and hands them over in order (README.md:3),   *)
(* for any pages, lists, schedules and waits, and a queue of any length:   *)
(* every behaviour of the main loop is one of PagingQueue.                 *)
THEOREM LoopImplementsQueue == Spec => InOrder
  <1>1. Init => Queue!Init
    BY DEF Init, Queue!Init, pendingBar
  <1>. QED
    BY <1>1, InitQueueInv, NextQueueInv, NextSimulates, PTL
    DEF Spec, InOrder, Queue!Spec, Queue!vars

-----------------------------------------------------------------------------
(* What follows for the lists of the operator. *)

(* Nothing waits or is on the air that the lists do not admit. *)
Admits ==
    /\ pendingBar \in Seq([page : AdmittedMessages, age : Nat])
    /\ hostRx \in AdmittedMessages \cup {None}

LEMMA QueueAdmits == Admits /\ [Queue!Next]_<<pendingBar, hostRx>> => Admits'
  <1>. DEFINE AdmittedEntries == [page : AdmittedMessages, age : Nat]
  <1>. SUFFICES ASSUME Admits, [Queue!Next]_<<pendingBar, hostRx>>
                PROVE  Admits'
    OBVIOUS
  <1>1. /\ pendingBar \in Seq(AdmittedEntries)
        /\ hostRx \in AdmittedMessages \cup {None}
    BY DEF Admits
  <1>. HIDE DEF AdmittedEntries
  <1>2. CASE Queue!Receive
    <2>1. PICK m \in AdmittedMessages :
              /\ pendingBar' = Append(pendingBar, [page |-> m, age |-> 0])
              /\ hostRx' = hostRx
      BY <1>2 DEF Queue!Receive
    <2>2. [page |-> m, age |-> 0] \in AdmittedEntries
      BY DEF AdmittedEntries
    <2>3. pendingBar' \in Seq(AdmittedEntries)
      BY <1>1, <2>1, <2>2
    <2>. QED
      BY <1>1, <2>1, <2>3 DEF Admits, AdmittedMessages, AdmittedEntries
  <1>3. CASE Queue!HandOver \/ Queue!ThrowAway
    <2>1. pendingBar # <<>> /\ pendingBar' = Tail(pendingBar)
      BY <1>3 DEF Queue!HandOver, Queue!ThrowAway
    <2>2. Head(pendingBar) \in AdmittedEntries /\ pendingBar' \in Seq(AdmittedEntries)
      BY <1>1, <2>1
    <2>3. hostRx' \in {Head(pendingBar).page, hostRx}
      BY <1>3 DEF Queue!HandOver, Queue!ThrowAway
    <2>4. Head(pendingBar).page \in AdmittedMessages
      BY <2>2 DEF AdmittedEntries
    <2>. QED
      BY <1>1, <2>2, <2>3, <2>4 DEF Admits, AdmittedMessages, AdmittedEntries
  <1>4. CASE Queue!Wait
    <2>1. PICK d \in 1 .. MAX_TIME_TO_HOLD_TIME_MESSAGES :
              /\ pendingBar' = [i \in DOMAIN pendingBar |-> Queue!Older(pendingBar[i], d)]
              /\ hostRx' = hostRx
      BY <1>4 DEF Queue!Wait
    <2>2. ASSUME NEW entry \in AdmittedEntries
          PROVE  Queue!Older(entry, d) \in AdmittedEntries
      BY CapTypes DEF Queue!Older, AdmittedEntries
    <2>3. pendingBar' \in Seq(AdmittedEntries)
      BY <1>1, <2>1, <2>2
    <2>. QED
      BY <1>1, <2>1, <2>3 DEF Admits, AdmittedMessages, AdmittedEntries
  <1>5. CASE UNCHANGED <<pendingBar, hostRx>>
    BY <1>1, <1>5 DEF Admits, AdmittedMessages, AdmittedEntries
  <1>. QED
    BY <1>2, <1>3, <1>4, <1>5 DEF Queue!Next

(* What the lists and the regular expressions hold back never reaches the  *)
(* host, by whatever way it came through the loop.                         *)
ListsObeyed ==
    hostRx # None =>
        /\ hostRx.ric \notin Conf.blackList
        /\ Conf.whiteList # {} => hostRx.ric \in Conf.whiteList
        /\ ~blacklistRegexmatch(Conf, hostRx) /\ whitelistRegexmatch(Conf, hostRx)

(* In no state has a page reached the host that a list or an expression    *)
(* excludes: the test is made once, when a page is queued, and nothing in  *)
(* the loop puts a page on the queue or on the air around it.              *)
THEOREM OnlyAdmittedOnAir == Spec => []ListsObeyed
  <1>1. Queue!Init => Admits
    BY DEF Queue!Init, Admits
  <1>2. Admits => ListsObeyed
    BY DEF Admits, AdmittedMessages, ListsObeyed, Accepted, found, blackListRIC
  <1>. QED
    BY <1>1, <1>2, QueueAdmits, LoopImplementsQueue, PTL
    DEF InOrder, Queue!Spec, Queue!vars

-----------------------------------------------------------------------------
(* The network. *)

(* Time makes a page older and leaves the page itself alone. *)
LEMMA ElapseKeepsPage ==
    ASSUME QueueInv, NEW d \in Nat, NEW timer, NEW boundaries,
           ElapseFrom(d, timer, boundaries)
    PROVE  /\ netMessage' = None <=> netMessage = None
           /\ netMessage # None => netMessage'.page = netMessage.page
  <1>1. netMessage \in Entries \cup {None}
    BY DEF QueueInv, TypeOK
  <1>2. netMessage' = IF netMessage = None THEN None ELSE Aged(netMessage, d)
    BY DEF ElapseFrom
  <1>3. ASSUME netMessage # None
        PROVE  netMessage' \in Entries /\ netMessage'.page = netMessage.page
    BY <1>1, <1>2, <1>3, AgedType
  <1>. QED
    BY <1>2, <1>3, GatewayAssumption

LEMMA InputStep ==
    ASSUME QueueInv, [Next]_vars
    PROVE  [Input!Next]_(Input!vars)
  <1>. USE DEF placeBar, Input!vars
  <1>1. CASE PollHost \/ RecoverSucceeds \/ sendMessages \/ Stop \/ sigHandler
             \/ ClockSet \/ UNCHANGED vars
    <2>1. netMessage' = netMessage /\ netSchedule' = netSchedule
      BY <1>1 DEF PollHost, HostIdle, HostBusy, HostSilent, RecoverSucceeds,
          sendMessages, SendAnySlot, SendInSlot, SendNothing, Stop, sigHandler,
          ClockSet, vars, networkVars
    <2>2. CASE RecoverSucceeds
      <3>1. Input!Recovered
        BY <2>1, <2>2 DEF RecoverSucceeds, Input!Recovered
      <3>. QED
        BY <3>1 DEF Input!Next
    <2>3. CASE ~RecoverSucceeds
      <3>1. placeBar' = placeBar
        BY <1>1, <2>3 DEF PollHost, HostIdle, HostBusy, HostSilent, Poll, sendMessages,
            SendAnySlot, SendInSlot, SendNothing, Stop, sigHandler, ClockSet, vars
      <3>. QED
        BY <2>1, <3>1
    <2>. QED
      BY <2>2, <2>3
  <1>2. CASE ReadOther
    <2>1. Input!ReadOther
      BY <1>2 DEF ReadOther, ReadReturns, networkVars, Input!ReadOther, Input!Returns
    <2>. QED
      BY <2>1 DEF Input!Next
  <1>3. CASE ReadMessage
    <2>1. PICK m \in Messages : netMessage' = [page |-> m, age |-> 0]
      BY <1>3 DEF ReadMessage
    <2>2. netMessage = None
      BY <1>3 DEF ReadMessage, QueueInv, HandsFree
    <2>3. netMessage' # None /\ netMessage'.page = m
      <3>1. netMessage' \in Entries
        BY <2>1, CapTypes DEF Entries, Ages
      <3>. QED
        BY <2>1, <3>1, GatewayAssumption
    <2>4. Input!ReadPage
      BY <1>3, <2>2, <2>3 DEF ReadMessage, ReadReturns, Input!ReadPage, Input!Returns
    <2>. QED
      BY <2>4 DEF Input!Next
  <1>4. CASE ReadSchedule
    <2>1. netSchedule' # None
      BY <1>4, GatewayAssumption DEF ReadSchedule
    <2>2. Input!ReadSchedule
      BY <1>4, <2>1 DEF ReadSchedule, ReadReturns, Input!ReadSchedule, Input!Returns
    <2>. QED
      BY <2>2 DEF Input!Next
  <1>5. CASE ReadFailedLogin
    <2>1. Input!ReadFailedLogin
      BY <1>5 DEF ReadFailedLogin, networkVars, Input!ReadFailedLogin
    <2>. QED
      BY <2>1 DEF Input!Next
  <1>6. CASE BackoffOver
    <2>1. Input!BackoffOver
      BY <1>6 DEF BackoffOver, ReadReturns, networkVars, Input!BackoffOver, Input!Returns
    <2>. QED
      BY <2>1 DEF Input!Next
  <1>7. CASE QueueMessage
    <2>1. Input!Take
      BY <1>7 DEF QueueMessage, Input!Take
    <2>. QED
      BY <2>1 DEF Input!Next
  <1>8. CASE BackoffSleep \/ RecoverFails \/ Sleep \/ StartSlot \/ SameSlot
    <2>1. PICK d \in OutageTimes \cup SleepTimes \cup StepTimes :
              \E timer, boundaries : ElapseFrom(d, timer, boundaries)
      BY <1>8 DEF BackoffSleep, RecoverFails, Sleep, StartSlot, SameSlot, Elapse
    <2>2. d \in Nat
      BY GatewayAssumption, CapTypes
    <2>3. /\ netMessage' = None <=> netMessage = None
          /\ netMessage # None => netMessage'.page = netMessage.page
      BY <2>1, <2>2, ElapseKeepsPage
    <2>4. placeBar' = placeBar
      BY <1>8 DEF BackoffSleep, RecoverFails, Sleep, StartSlot, SameSlot
    <2>5. CASE netSchedule' = netSchedule
      BY <2>3, <2>4, <2>5
    <2>6. CASE netSchedule' # netSchedule
      <3>1. placeBar = "read" /\ netSchedule' = None
        BY <1>8, <2>6 DEF BackoffSleep, RecoverFails, Sleep, StartSlot, SameSlot, loadSchedule
      <3>2. Input!TakeSchedule
        BY <2>3, <2>4, <3>1 DEF Input!TakeSchedule
      <3>. QED
        BY <3>2 DEF Input!Next
    <2>. QED
      BY <2>5, <2>6
  <1>. QED
    BY <1>1, <1>2, <1>3, <1>4, <1>5, <1>6, <1>7, <1>8
    DEF Next, ReadNetwork, CheckSlot, Terminated

(* The loop takes no more of the network than DAPNETInput says, which is   *)
(* what the session provides (SessionFeedsTheLoop).                        *)
THEOREM LoopTakesInput == Spec => TakesInput
  <1>1. Init => Input!Init
    BY DEF Init, Input!Init, placeBar
  <1>2. QueueInv /\ [Next]_vars => [Input!Next]_(Input!vars)
    BY InputStep
  <1>. QED
    BY <1>1, <1>2, InitQueueInv, NextQueueInv, PTL
    DEF Spec, TakesInput, Input!Spec

(* And it turns nothing down: whatever DAPNETInput may do where the loop   *)
(* waits for the network is a step of the loop, with any page and any      *)
(* schedule, as long as the bound on the queue is not reached.             *)
THEOREM LoopAcceptsInput ==
    ASSUME pc \in {"dapnet", "backoff", "recover"}, pc' \in Steps,
           Len(m_queue) < MaxQueue,
           \/ /\ Input!ReadPage
              /\ netMessage' \in [page : Messages, age : {0}]
              /\ UNCHANGED netSchedule
           \/ /\ Input!ReadSchedule
              /\ netSchedule' \in Schedules
              /\ UNCHANGED netMessage
           \/ /\ \/ Input!ReadOther \/ Input!ReadFailedLogin
                 \/ Input!BackoffOver \/ Input!Recovered
              /\ UNCHANGED networkVars,
           UNCHANGED <<m_killed, m_queue, m_schedule, loopVars, clockVars, hostVars>>
    PROVE  ReadNetwork
  <1>. USE DEF placeBar, networkVars
  <1>1. ASSUME Input!Returns
        PROVE  \E ok \in BOOLEAN : ReadReturns(ok)
    BY <1>1 DEF Input!Returns, ReadReturns, Steps
  <1>2. CASE Input!ReadPage /\ netMessage' \in [page : Messages, age : {0}]
             /\ UNCHANGED netSchedule
    <2>1. pc = "dapnet" /\ Input!Returns
      BY <1>2 DEF Input!ReadPage
    <2>2. \E m \in Messages : netMessage' = [page |-> m, age |-> 0]
      BY <1>2
    <2>. QED
      BY <1>1, <1>2, <2>1, <2>2 DEF ReadNetwork, ReadMessage
  <1>3. CASE Input!ReadSchedule /\ netSchedule' \in Schedules /\ UNCHANGED netMessage
    <2>1. pc = "dapnet" /\ Input!Returns
      BY <1>3 DEF Input!ReadSchedule
    <2>. QED
      BY <1>1, <1>3, <2>1 DEF ReadNetwork, ReadSchedule
  <1>4. CASE Input!ReadOther /\ UNCHANGED networkVars
    <2>1. pc = "dapnet" /\ Input!Returns
      BY <1>4 DEF Input!ReadOther
    <2>. QED
      BY <1>1, <1>4, <2>1 DEF ReadNetwork, ReadOther
  <1>5. CASE Input!ReadFailedLogin /\ UNCHANGED networkVars
    <2>1. pc = "dapnet" /\ pc' = "backoff"
      BY <1>5 DEF Input!ReadFailedLogin, Steps
    <2>. QED
      BY <1>5, <2>1 DEF ReadNetwork, ReadFailedLogin
  <1>6. CASE Input!BackoffOver /\ UNCHANGED networkVars
    <2>1. pc = "backoff" /\ Input!Returns
      BY <1>6 DEF Input!BackoffOver
    <2>. QED
      BY <1>1, <1>6, <2>1 DEF ReadNetwork, BackoffOver
  <1>7. CASE Input!Recovered /\ UNCHANGED networkVars
    <2>1. pc = "recover" /\ pc' = "message"
      BY <1>7 DEF Input!Recovered, Steps
    <2>. QED
      BY <1>7, <2>1 DEF ReadNetwork, RecoverSucceeds
  <1>. QED
    BY <1>2, <1>3, <1>4, <1>5, <1>6, <1>7
=============================================================================
