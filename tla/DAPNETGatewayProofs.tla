------------------------ MODULE DAPNETGatewayProofs ------------------------
(***************************************************************************)
(* Proofs about the main loop for every value of its constants.            *)
(***************************************************************************)
EXTENDS DAPNETGateway, AirtimeProofs, CountDown

LEMMA CapTypes ==
    /\ SLOT_TIME_MS \in Nat \ {0}
    /\ ELAPSED_CAP \in Nat
    /\ MAX_TIME_TO_HOLD_TIME_MESSAGES \in Nat
    /\ AIR_CAP \in Nat
    /\ MaxMissed \in Nat \ {0}
    /\ SLOTS \in Nat \ {0, 1}
  BY TimingTypes, GatewayAssumption DEF ELAPSED_CAP

LEMMA PageWordsType ==
    ASSUME NEW m \in Messages
    PROVE  pageWords(m) \in Nat /\ sendTime(pageWords(m)) \in Nat
  <1>1. m.functional \in 0 .. 3 /\ m.length \in Nat
    BY GatewayAssumption
  <1>2. pageWords(m) \in Nat
    BY <1>1, EvenNumberOfWords DEF pageWords
  <1>. HIDE DEF pageWords
  <1>3. PREAMBLE_TIME_US + pageWords(m) * CODEWORD_TIME_US \in Nat
    BY <1>2, TimingTypes, TimingAssumption
  <1>4. sendTime(pageWords(m)) \in Nat
    <2>. DEFINE us == PREAMBLE_TIME_US + pageWords(m) * CODEWORD_TIME_US
    <2>1. us \in Nat
      BY <1>3
    <2>. HIDE DEF us
    <2>2. us \div 1000 \in Nat
      BY <2>1
    <2>. QED
      BY <2>2 DEF us, sendTime
  <1>. QED
    BY <1>2, <1>4

LEMMA ElapsedCodewordsType ==
    ASSUME NEW elapsed \in Nat
    PROVE  elapsedCodewords(elapsed) \in Nat
  <1>1. (elapsed * 1000) % UINT_RANGE \in Nat
    BY TimingAssumption
  <1>. QED
    BY <1>1, TimingAssumption, DivNat DEF elapsedCodewords

LEMMA AgedType ==
    ASSUME NEW entry \in Entries, NEW d \in Nat
    PROVE  Aged(entry, d) \in Entries /\ Aged(entry, d).page = entry.page
  BY CapTypes DEF Aged, Entries, Ages, AtMost

LEMMA AgedQueue ==
    ASSUME NEW q \in Seq(Entries), NEW d \in Nat
    PROVE  /\ [i \in DOMAIN q |-> Aged(q[i], d)] \in Seq(Entries)
           /\ Len([i \in DOMAIN q |-> Aged(q[i], d)]) = Len(q)
  <1>1. \A i \in 1 .. Len(q) : Aged(q[i], d) \in Entries
    BY AgedType
  <1>. QED
    BY <1>1

(* What the passing of time does to the types, whatever the slot timer and *)
(* the count of boundaries start from.                                     *)
LEMMA ElapseTypes ==
    ASSUME TypeOK, NEW d \in 0 .. SLOT_TIME_MS,
           NEW timer \in 0 .. ELAPSED_CAP, NEW boundaries \in 0 .. MaxMissed,
           ElapseFrom(d, timer, boundaries)
    PROVE  /\ offset' \in 0 .. SLOT_TIME_MS - 1
           /\ wallSlot' \in Slots
           /\ missed' \in 0 .. MaxMissed
           /\ slotWords' \in Nat
           /\ uncounted' \in BOOLEAN
           /\ m_slotTimer' \in 0 .. ELAPSED_CAP
           /\ airLeft' \in 0 .. AIR_CAP
           /\ m_queue' \in Seq(Entries)
           /\ netMessage' \in Entries \cup {None}
  <1>. USE CapTypes
  <1>1. offset' \in 0 .. SLOT_TIME_MS - 1
    BY DEF TypeOK, ElapseFrom, Crosses
  <1>2. wallSlot' \in Slots
    BY DEF TypeOK, ElapseFrom, Slots
  <1>3. missed' \in 0 .. MaxMissed
    BY DEF TypeOK, ElapseFrom
  <1>4. slotWords' \in Nat /\ uncounted' \in BOOLEAN
    BY DEF TypeOK, ElapseFrom
  <1>5. m_slotTimer' \in 0 .. ELAPSED_CAP
    BY DEF ElapseFrom, AtMost
  <1>6. airLeft' \in 0 .. AIR_CAP
    BY DEF TypeOK, ElapseFrom
  <1>7. m_queue' \in Seq(Entries)
    BY AgedQueue DEF TypeOK, ElapseFrom
  <1>8. netMessage' \in Entries \cup {None}
    BY AgedType DEF TypeOK, ElapseFrom
  <1>. QED
    BY <1>1, <1>2, <1>3, <1>4, <1>5, <1>6, <1>7, <1>8

-----------------------------------------------------------------------------
(* Type correctness. *)

LEMMA InitType == Init => TypeOK
  <1>1. SUFFICES ASSUME Init PROVE TypeOK
    OBVIOUS
  <1>2. 0 \in Slots /\ ELAPSED_CAP \in 0 .. ELAPSED_CAP
    BY CapTypes DEF Slots
  <1>3. offset \in 0 .. SLOT_TIME_MS - 1
    <2>1. StartOffsets \subseteq 0 .. SLOT_TIME_MS - 1
      BY GatewayAssumption
    <2>. QED
      BY <1>1, <2>1 DEF Init
  <1>4. /\ m_queue \in Seq(Entries) /\ m_slotTimer \in 0 .. ELAPSED_CAP
        /\ m_currentSlot \in Slots /\ wallSlot \in Slots
        /\ m_sentCodewords \in Nat /\ slotWords \in Nat
        /\ airLeft \in 0 .. AIR_CAP /\ missed \in 0 .. MaxMissed
    BY <1>1, <1>2, CapTypes DEF Init
  <1>5. /\ pc \in Steps /\ m_killed \in BOOLEAN /\ m_mmdvmFree \in BOOLEAN
        /\ m_allSlots \in BOOLEAN /\ uncounted \in BOOLEAN /\ stepped \in BOOLEAN
    BY <1>1 DEF Init, Steps
  <1>6. /\ m_schedule = None /\ netMessage = None /\ netSchedule = None /\ hostRx = None
    BY <1>1 DEF Init
  <1>. QED
    BY <1>3, <1>4, <1>5, <1>6 DEF TypeOK

(* The actions in which time passes. *)
LEMMA WaitingType ==
    ASSUME TypeOK,
           BackoffSleep \/ RecoverFails \/ StartSlot \/ SameSlot \/ Sleep
    PROVE  TypeOK'
  <1>. USE DEF TypeOK, Steps
  <1>0. 0 \in 0 .. ELAPSED_CAP /\ 0 \in 0 .. MaxMissed
    BY CapTypes
  <1>1. CASE BackoffSleep
    <2>1. PICK d \in OutageTimes : ElapseFrom(d, m_slotTimer, missed) /\ stepped' = stepped
      BY <1>1 DEF BackoffSleep, Elapse
    <2>2. d \in 0 .. SLOT_TIME_MS
      BY GatewayAssumption
    <2>. QED
      BY <1>1, <2>1, <2>2, ElapseTypes DEF BackoffSleep, loopVars
  <1>2. CASE RecoverFails
    <2>1. PICK d \in OutageTimes : ElapseFrom(d, m_slotTimer, missed) /\ stepped' = stepped
      BY <1>2 DEF RecoverFails, Elapse
    <2>2. d \in 0 .. SLOT_TIME_MS
      BY GatewayAssumption
    <2>. QED
      BY <1>2, <2>1, <2>2, ElapseTypes DEF RecoverFails, loopVars
  <1>3. CASE StartSlot
    <2>1. PICK d \in StepTimes : ElapseFrom(d, 0, 0)
      BY <1>3 DEF StartSlot
    <2>2. d \in 0 .. SLOT_TIME_MS
      BY GatewayAssumption
    <2>3. /\ m_schedule' \in (SUBSET Slots) \cup {None}
          /\ netSchedule' \in (SUBSET Slots) \cup {None}
          /\ m_allSlots' \in BOOLEAN
      BY <1>3 DEF StartSlot, loadSchedule
    <2>. QED
      BY <1>0, <1>3, <2>1, <2>2, <2>3, ElapseTypes DEF StartSlot
  <1>4. CASE SameSlot
    <2>1. PICK d \in StepTimes : ElapseFrom(d, m_slotTimer, 0)
      BY <1>4 DEF SameSlot
    <2>2. d \in 0 .. SLOT_TIME_MS
      BY GatewayAssumption
    <2>. QED
      BY <1>0, <1>4, <2>1, <2>2, ElapseTypes DEF SameSlot, loopVars
  <1>5. CASE Sleep
    <2>1. PICK d \in SleepTimes : ElapseFrom(d, m_slotTimer, missed) /\ stepped' = stepped
      BY <1>5 DEF Sleep, Elapse
    <2>2. d \in 0 .. SLOT_TIME_MS
      BY GatewayAssumption, CapTypes
    <2>. QED
      BY <1>5, <2>1, <2>2, ElapseTypes DEF Sleep, loopVars
  <1>. QED
    BY <1>1, <1>2, <1>3, <1>4, <1>5

(* The actions that take pages from the queue. *)
LEMMA SendingType ==
    ASSUME TypeOK, SendAnySlot \/ SendInSlot
    PROVE  TypeOK'
  <1>. USE DEF TypeOK, Steps
  <1>1. Head(m_queue) \in Entries /\ Tail(m_queue) \in Seq(Entries)
    BY DEF SendAnySlot, SendInSlot
  <1>2. Head(m_queue).page \in Messages
    BY <1>1 DEF Entries
  <1>3. ASSUME Write(Head(m_queue).page)
        PROVE  hostRx' \in Messages \cup {None} /\ airLeft' \in 0 .. AIR_CAP
    BY <1>2, <1>3, PageWordsType, CapTypes DEF Write, AtMost
  <1>4. CASE SendAnySlot
    BY <1>1, <1>3, <1>4 DEF SendAnySlot, Drop, loopVars, networkVars, clockVars
  <1>5. CASE SendInSlot
    <2>1. totalCodewords(Head(m_queue).page) \in Nat
      BY <1>2, PageWordsType, TimingAssumption DEF totalCodewords
    <2>2. slotWords + PREAMBLE_LENGTH_CODEWORDS + pageWords(Head(m_queue).page) \in Nat
      BY <1>2, PageWordsType, TimingAssumption
    <2>3. /\ m_sentCodewords' \in Nat /\ slotWords' \in Nat /\ uncounted' \in BOOLEAN
          /\ hostRx' \in Messages \cup {None} /\ airLeft' \in 0 .. AIR_CAP
      BY <1>3, <1>5, <2>1, <2>2 DEF SendInSlot, Drop
    <2>. QED
      BY <1>1, <1>5, <2>3 DEF SendInSlot, networkVars, clockVars
  <1>. QED
    BY <1>4, <1>5

LEMMA NextType == TypeOK /\ [Next]_vars => TypeOK'
  <1>. SUFFICES ASSUME TypeOK, [Next]_vars PROVE TypeOK'
    OBVIOUS
  <1>. USE DEF TypeOK, Steps, loopVars, networkVars, clockVars, hostVars
  <1>1. CASE HostIdle
    <2>1. m_slotTimer \in Nat
      BY CapTypes
    <2>2. m_sentCodewords' \in Nat
      BY <1>1, <2>1, ElapsedCodewordsType DEF HostIdle
    <2>3. uncounted' \in BOOLEAN
      BY <1>1 DEF HostIdle
    <2>. QED
      BY <1>1, <2>2, <2>3 DEF HostIdle, Poll
  <1>2. CASE HostBusy
    BY <1>2 DEF HostBusy, Poll
  <1>3. CASE HostSilent
    BY <1>3 DEF HostSilent, Poll
  <1>4. CASE ReadOther
    BY <1>4 DEF ReadOther, ReadReturns
  <1>5. CASE ReadMessage
    <2>1. netMessage' \in Entries
      BY <1>5, CapTypes DEF ReadMessage, Entries, Ages
    <2>. QED
      BY <1>5, <2>1 DEF ReadMessage, ReadReturns
  <1>6. CASE ReadSchedule
    <2>1. netSchedule' \in SUBSET Slots
      BY <1>6, GatewayAssumption DEF ReadSchedule
    <2>. QED
      BY <1>6, <2>1 DEF ReadSchedule, ReadReturns
  <1>7. CASE ReadFailedLogin
    BY <1>7 DEF ReadFailedLogin
  <1>8. CASE BackoffOver
    BY <1>8 DEF BackoffOver, ReadReturns
  <1>9. CASE RecoverSucceeds
    BY <1>9 DEF RecoverSucceeds
  <1>10. CASE QueueMessage
    <2>1. m_queue' \in Seq(Entries)
      BY <1>10 DEF QueueMessage
    <2>. QED
      BY <1>10, <2>1 DEF QueueMessage
  <1>11. CASE BackoffSleep \/ RecoverFails \/ StartSlot \/ SameSlot \/ Sleep
    BY <1>11, WaitingType
  <1>12. CASE SendAnySlot \/ SendInSlot
    BY <1>12, SendingType
  <1>13. CASE SendNothing
    BY <1>13 DEF SendNothing
  <1>14. CASE Stop
    BY <1>14 DEF Stop
  <1>15. CASE sigHandler
    BY <1>15 DEF sigHandler
  <1>16. CASE ClockSet
    <2>1. wallSlot' \in Slots /\ offset' \in 0 .. SLOT_TIME_MS - 1
      BY <1>16, GatewayAssumption DEF ClockSet
    <2>2. missed' \in 0 .. MaxMissed
      BY <1>16, CapTypes DEF ClockSet
    <2>. QED
      BY <1>16, <2>1, <2>2 DEF ClockSet
  <1>17. CASE UNCHANGED vars
    BY <1>17 DEF vars
  <1>. QED
    BY <1>1, <1>2, <1>3, <1>4, <1>5, <1>6, <1>7, <1>8, <1>9, <1>10, <1>11,
       <1>12, <1>13, <1>14, <1>15, <1>16, <1>17
    DEF Next, PollHost, ReadNetwork, CheckSlot, sendMessages, Terminated

(* The variables of the loop keep their types, for every set of pages,     *)
(* every schedule and every length of the waits (run, lines 335-442).      *)
THEOREM TypeCorrect == Spec => []TypeOK
  <1>. QED
    BY InitType, NextType, PTL DEF Spec

-----------------------------------------------------------------------------
(* The codeword budget.  SlotBudget is not inductive: what keeps slotWords *)
(* small is that m_sentCodewords is at least as large, and that holds      *)
(* between slot checks only because nothing has been handed over in a slot *)
(* that the loop has not noticed yet.                                      *)

Counted ==
    /\ slotWords < CODEWORDS_PER_SLOT
    /\ missed = 0 => slotWords <= m_sentCodewords
    /\ missed > 0 => slotWords = 0
    /\ missed = 0 /\ slotWords > 0 => wallSlot = m_currentSlot

(* What is tested just before a page is sent. *)
SlotChecked == pc = "send" /\ missed = 0 => wallSlot = m_currentSlot

BudgetInv == TypeOK /\ (~uncounted => Counted) /\ SlotChecked

(* Waiting keeps the count, wherever the loop waits. *)
LEMMA ElapseCounted ==
    ASSUME TypeOK, ~uncounted => Counted,
           NEW d \in Nat, Elapse(d),
           UNCHANGED <<m_sentCodewords, m_currentSlot>>
    PROVE  ~uncounted' => Counted'
  <1>1. CASE Crosses(d)
    BY <1>1, GatewayAssumption, CapTypes DEF Elapse, ElapseFrom, Counted, TypeOK
  <1>2. CASE ~Crosses(d)
    BY <1>2 DEF Elapse, ElapseFrom, Counted, TypeOK
  <1>. QED
    BY <1>1, <1>2

LEMMA InitBudget == Init => BudgetInv
  BY InitType, GatewayAssumption DEF Init, BudgetInv, Counted, SlotChecked

LEMMA StartSlotBudget ==
    ASSUME BudgetInv, TypeOK', StartSlot
    PROVE  BudgetInv'
  <1>1. PICK d \in StepTimes : ElapseFrom(d, 0, 0)
    BY DEF StartSlot
  <1>2. d \in Nat
    BY GatewayAssumption, CapTypes
  <1>3. m_sentCodewords' = 0 /\ m_currentSlot' = wallSlot
    BY DEF StartSlot
  <1>4. missed' = 0 => wallSlot' = wallSlot
    BY <1>1, <1>2, CapTypes DEF ElapseFrom
  <1>5. CASE Crosses(d)
    <2>1. slotWords' = 0 /\ missed' = 1
      BY <1>1, <1>5 DEF ElapseFrom
    <2>. QED
      BY <1>3, <1>4, <2>1, GatewayAssumption DEF BudgetInv, Counted, SlotChecked
  <1>6. CASE ~Crosses(d)
    <2>1. /\ slotWords' = slotWords /\ missed' = 0
          /\ wallSlot' = wallSlot /\ uncounted' = uncounted
      BY <1>1, <1>6 DEF ElapseFrom, BudgetInv, TypeOK
    <2>2. wallSlot # m_currentSlot
      BY DEF StartSlot
    <2>3. ~uncounted => slotWords = 0
      BY <2>2 DEF BudgetInv, Counted, TypeOK
    <2>. QED
      BY <1>3, <2>1, <2>3, GatewayAssumption DEF BudgetInv, Counted, SlotChecked
  <1>. QED
    BY <1>5, <1>6

LEMMA SameSlotBudget ==
    ASSUME BudgetInv, TypeOK', SameSlot
    PROVE  BudgetInv'
  <1>1. PICK d \in StepTimes : ElapseFrom(d, m_slotTimer, 0)
    BY DEF SameSlot
  <1>2. d \in Nat
    BY GatewayAssumption, CapTypes
  <1>3. /\ m_sentCodewords' = m_sentCodewords /\ m_currentSlot' = m_currentSlot
        /\ wallSlot = m_currentSlot
    BY DEF SameSlot, loopVars
  <1>4. CASE Crosses(d)
    <2>1. slotWords' = 0 /\ missed' = 1
      BY <1>1, <1>4 DEF ElapseFrom
    <2>. QED
      BY <1>3, <2>1, GatewayAssumption DEF BudgetInv, Counted, SlotChecked
  <1>5. CASE ~Crosses(d)
    <2>1. /\ slotWords' = slotWords /\ missed' = 0
          /\ wallSlot' = wallSlot /\ uncounted' = uncounted
      BY <1>1, <1>5 DEF ElapseFrom, BudgetInv, TypeOK
    <2>. QED
      BY <1>3, <2>1 DEF BudgetInv, Counted, SlotChecked, TypeOK
  <1>. QED
    BY <1>4, <1>5

LEMMA SendInSlotBudget ==
    ASSUME BudgetInv, TypeOK', SendInSlot
    PROVE  BudgetInv'
  <1>. DEFINE entry == Head(m_queue)
  <1>1. pc = "send" /\ pc' = "sleep" /\ UNCHANGED <<missed, wallSlot, m_currentSlot>>
    BY DEF SendInSlot, clockVars
  <1>2. CASE Stale(entry)
    BY <1>1, <1>2 DEF SendInSlot, BudgetInv, Counted, SlotChecked
  <1>3. CASE ~Stale(entry)
    <2>1. /\ m_sentCodewords' = totalCodewords(entry.page)
          /\ slotWords' = slotWords + PREAMBLE_LENGTH_CODEWORDS + pageWords(entry.page)
          /\ uncounted' = (uncounted \/ missed > 0)
          /\ totalCodewords(entry.page) < CODEWORDS_PER_SLOT
      BY <1>3 DEF SendInSlot, FitsInSlot
    <2>2. entry.page \in Messages
      <3>1. m_queue \in Seq(Entries) /\ m_queue # <<>>
        BY DEF SendInSlot, BudgetInv, TypeOK
      <3>2. entry \in Entries
        BY <3>1
      <3>. QED
        BY <3>2 DEF Entries
    <2>3. pageWords(entry.page) \in Nat
      BY <2>2, PageWordsType
    <2>4. ~uncounted' => ~uncounted /\ missed = 0
      <3>1. ~uncounted' => ~uncounted /\ ~(missed > 0)
        BY <2>1
      <3>2. missed \in Nat
        BY CapTypes DEF BudgetInv, TypeOK
      <3>. QED
        BY <3>1, <3>2
    <2>5. ASSUME ~uncounted' PROVE slotWords' <= m_sentCodewords'
      <3>1. slotWords <= m_sentCodewords
        BY <2>4, <2>5 DEF BudgetInv, Counted
      <3>2. slotWords \in Nat /\ m_sentCodewords \in Nat
        BY DEF BudgetInv, TypeOK
      <3>3. PREAMBLE_LENGTH_CODEWORDS \in Nat
        BY TimingAssumption
      <3>4. m_sentCodewords'
              = m_sentCodewords + PREAMBLE_LENGTH_CODEWORDS + pageWords(entry.page)
        BY <2>1 DEF totalCodewords
      <3>. QED
        BY <2>1, <2>3, <3>1, <3>2, <3>3, <3>4
    <2>6. ~uncounted' => Counted'
      BY <1>1, <2>1, <2>4, <2>5, TimingTypes DEF BudgetInv, Counted, SlotChecked, TypeOK
    <2>. QED
      BY <1>1, <2>6 DEF BudgetInv, SlotChecked
  <1>. QED
    BY <1>2, <1>3

LEMMA NextBudget == BudgetInv /\ [Next]_vars => BudgetInv'
  <1>. SUFFICES ASSUME BudgetInv, [Next]_vars PROVE BudgetInv'
    OBVIOUS
  <1>0. TypeOK' /\ TypeOK
    BY NextType DEF BudgetInv
  <1>1. CASE HostIdle
    <2>1. /\ pc' = "dapnet" /\ uncounted' = (uncounted \/ m_sentCodewords' < slotWords)
          /\ UNCHANGED <<slotWords, missed, wallSlot, m_currentSlot>>
      BY <1>1 DEF HostIdle, Poll, clockVars
    <2>2. ~uncounted' => ~uncounted /\ ~(m_sentCodewords' < slotWords)
      BY <2>1, <1>0 DEF TypeOK
    <2>3. m_sentCodewords' \in Nat /\ slotWords \in Nat
      BY <1>0 DEF TypeOK
    <2>. QED
      BY <1>0, <2>1, <2>2, <2>3 DEF BudgetInv, Counted, SlotChecked
  <1>2. CASE BackoffSleep \/ RecoverFails \/ Sleep
    <2>1. PICK d \in OutageTimes \cup SleepTimes : Elapse(d)
      BY <1>2 DEF BackoffSleep, RecoverFails, Sleep
    <2>2. d \in Nat
      BY GatewayAssumption, CapTypes
    <2>3. pc' # "send" /\ UNCHANGED <<m_sentCodewords, m_currentSlot>>
      BY <1>2 DEF BackoffSleep, RecoverFails, Sleep, loopVars
    <2>. QED
      BY <1>0, <2>1, <2>2, <2>3, ElapseCounted DEF BudgetInv, SlotChecked
  <1>3. CASE StartSlot
    BY <1>0, <1>3, StartSlotBudget
  <1>4. CASE SameSlot
    BY <1>0, <1>4, SameSlotBudget
  <1>5. CASE SendInSlot
    BY <1>0, <1>5, SendInSlotBudget
  <1>6. CASE HostBusy \/ HostSilent \/ ReadOther \/ ReadMessage \/ ReadSchedule
             \/ ReadFailedLogin \/ BackoffOver \/ RecoverSucceeds \/ QueueMessage
             \/ SendAnySlot \/ SendNothing \/ Stop
    <2>1. pc' # "send"
      BY <1>6 DEF HostBusy, HostSilent, Poll, ReadOther, ReadMessage, ReadSchedule,
          ReadFailedLogin, BackoffOver, RecoverSucceeds, ReadReturns, QueueMessage,
          SendAnySlot, SendNothing, Stop
    <2>2. UNCHANGED <<m_sentCodewords, m_currentSlot, slotWords, uncounted, missed, wallSlot>>
      BY <1>6 DEF HostBusy, HostSilent, ReadOther, ReadMessage, ReadSchedule,
          ReadFailedLogin, BackoffOver, RecoverSucceeds, QueueMessage, SendAnySlot,
          SendNothing, Stop, loopVars, clockVars, hostVars
    <2>. QED
      BY <1>0, <2>1, <2>2 DEF BudgetInv, Counted, SlotChecked
  <1>7. CASE sigHandler \/ UNCHANGED vars
    <2>1. UNCHANGED <<pc, m_sentCodewords, m_currentSlot, slotWords, uncounted, missed, wallSlot>>
      BY <1>7 DEF sigHandler, vars, loopVars, clockVars, hostVars
    <2>. QED
      BY <1>0, <2>1 DEF BudgetInv, Counted, SlotChecked
  <1>8. CASE ClockSet
    <2>1. slotWords' = 0 /\ missed' = missed + 1
      BY <1>8 DEF ClockSet
    <2>2. missed \in Nat
      BY <1>0, CapTypes DEF TypeOK
    <2>. QED
      BY <1>0, <2>1, <2>2, GatewayAssumption DEF BudgetInv, Counted, SlotChecked
  <1>. QED
    BY <1>1, <1>2, <1>3, <1>4, <1>5, <1>6, <1>7, <1>8
    DEF Next, PollHost, ReadNetwork, CheckSlot, sendMessages, Terminated

(* The budget test of sendMessages (lines 488-492) keeps the pages of a    *)
(* slot of the clock below CODEWORDS_PER_SLOT, for any pages, schedule and *)
(* waits, unless the count was lost in one of the two ways of uncounted.   *)
THEOREM BudgetKept == Spec => []SlotBudget
  <1>1. BudgetInv => SlotBudget
    BY DEF BudgetInv, Counted, SlotBudget
  <1>. QED
    BY <1>1, InitBudget, NextBudget, PTL DEF Spec

-----------------------------------------------------------------------------
(* Pages leave in our slots only. *)

(* No other action makes the queue shorter. *)
LEMMA OnlySendingPops ==
    ASSUME TypeOK, [Next]_vars, Len(m_queue') < Len(m_queue)
    PROVE  SendAnySlot \/ SendInSlot
  <1>0. Len(m_queue) \in Nat
    BY DEF TypeOK
  <1>1. CASE QueueMessage
    <2>1. m_queue' = m_queue \/ m_queue' = Append(m_queue, netMessage)
      BY <1>1 DEF QueueMessage
    <2>. QED
      BY <1>0, <2>1 DEF TypeOK
  <1>2. ASSUME NEW d \in Nat, NEW timer, NEW boundaries,
               ElapseFrom(d, timer, boundaries)
        PROVE  FALSE
    <2>1. m_queue' = [j \in DOMAIN m_queue |-> Aged(m_queue[j], d)]
      BY <1>2 DEF ElapseFrom
    <2>2. Len(m_queue') = Len(m_queue)
      BY <2>1, AgedQueue DEF TypeOK
    <2>. QED
      BY <1>0, <2>2
  <1>3. CASE BackoffSleep \/ RecoverFails \/ Sleep \/ StartSlot \/ SameSlot
    <2>1. PICK d \in OutageTimes \cup SleepTimes \cup StepTimes :
              \E timer, boundaries : ElapseFrom(d, timer, boundaries)
      BY <1>3 DEF BackoffSleep, RecoverFails, Sleep, StartSlot, SameSlot, Elapse
    <2>2. d \in Nat
      BY GatewayAssumption, CapTypes
    <2>. QED
      BY <1>2, <2>1, <2>2
  <1>4. CASE PollHost \/ ReadOther \/ ReadMessage \/ ReadSchedule \/ ReadFailedLogin
             \/ BackoffOver \/ RecoverSucceeds \/ SendNothing \/ Stop \/ sigHandler
             \/ ClockSet \/ UNCHANGED vars
    <2>1. m_queue' = m_queue
      BY <1>4 DEF PollHost, HostIdle, HostBusy, HostSilent, ReadOther, ReadMessage,
          ReadSchedule, ReadFailedLogin, BackoffOver, RecoverSucceeds, SendNothing,
          Stop, sigHandler, ClockSet, vars
    <2>. QED
      BY <1>0, <2>1
  <1>. QED
    BY <1>1, <1>3, <1>4
    DEF Next, ReadNetwork, CheckSlot, sendMessages, Terminated

(* A slot that began between the slot check and the sending. *)
Overtaken ==
    pc = "send" /\ missed > 0
      => slotWords = 0 /\ (stepped \/ m_currentSlot = previousSlot)

LEMMA OvertakenStep ==
    ASSUME TypeOK, Overtaken, [Next]_vars
    PROVE  Overtaken'
  <1>1. CASE StartSlot \/ SameSlot
    <2>1. PICK d \in StepTimes : \E timer : ElapseFrom(d, timer, 0)
      BY <1>1 DEF StartSlot, SameSlot
    <2>2. m_currentSlot' = wallSlot
      BY <1>1 DEF StartSlot, SameSlot, loopVars
    <2>3. CASE Crosses(d)
      <3>1. /\ slotWords' = 0
            /\ wallSlot' = IF wallSlot = SLOTS - 1 THEN 0 ELSE wallSlot + 1
        BY <2>1, <2>3 DEF ElapseFrom
      <3>2. wallSlot \in Slots /\ SLOTS \in Nat
        BY GatewayAssumption DEF TypeOK
      <3>3. previousSlot' = wallSlot
        <4>1. previousSlot' = IF wallSlot' = 0 THEN SLOTS - 1 ELSE wallSlot' - 1
          BY DEF previousSlot
        <4>. QED
          BY <3>1, <3>2, <4>1 DEF Slots
      <3>. QED
        BY <2>2, <3>1, <3>3 DEF Overtaken
    <2>4. CASE ~Crosses(d)
      BY <2>1, <2>4 DEF ElapseFrom, Overtaken
    <2>. QED
      BY <2>3, <2>4
  <1>2. CASE ClockSet
    BY <1>2 DEF ClockSet, Overtaken
  <1>3. CASE PollHost \/ ReadNetwork \/ QueueMessage \/ sendMessages \/ Sleep \/ Stop
    <2>1. pc' # "send"
      BY <1>3 DEF PollHost, HostIdle, HostBusy, HostSilent, Poll, ReadNetwork, ReadOther,
          ReadMessage, ReadSchedule, ReadFailedLogin, BackoffSleep, BackoffOver,
          RecoverFails, RecoverSucceeds, ReadReturns, QueueMessage, sendMessages,
          SendAnySlot, SendInSlot, SendNothing, Sleep, Stop
    <2>. QED
      BY <2>1 DEF Overtaken
  <1>4. CASE sigHandler \/ UNCHANGED vars
    <2>1. UNCHANGED <<pc, missed, slotWords, stepped, m_currentSlot, wallSlot>>
      BY <1>4 DEF sigHandler, vars, loopVars, clockVars, hostVars
    <2>. QED
      BY <2>1 DEF Overtaken, previousSlot
  <1>. QED
    BY <1>1, <1>2, <1>3, <1>4 DEF Next, CheckSlot, Terminated

LEMMA OvertakenHolds == Spec => []Overtaken
  <1>1. Init => Overtaken
    BY DEF Init, Overtaken
  <1>. QED
    BY <1>1, OvertakenStep, TypeCorrect, PTL DEF Spec

(* Where a page may go out: what OnlyInScheduledSlot says of the slot. *)
InOurSlot ==
    /\ m_mmdvmFree
    /\ m_schedule # None
    /\ missed = 0 => wallSlot \in m_schedule
    /\ missed > 0 => slotWords = 0 /\ (stepped \/ previousSlot \in m_schedule)

LEMMA SendingInOurSlot ==
    ASSUME BudgetInv, Overtaken, SendAnySlot \/ SendInSlot
    PROVE  InOurSlot
  BY DEF SendAnySlot, SendInSlot, SlotOpen, BudgetInv, SlotChecked, Overtaken, InOurSlot

(* The tests at the head of sendMessages (lines 459-472) hold by the clock *)
(* as well: a page leaves the queue only when the host is free and the     *)
(* schedule gives us the slot, for every schedule and however long the     *)
(* loop was held up before the slot check; and of a slot that ends between *)
(* the slot check and the sending no more than one page strays into the    *)
(* next.                                                                   *)
THEOREM ScheduleKept == Spec => OnlyInScheduledSlot
  <1>. DEFINE Sending ==
          Len(m_queue') < Len(m_queue)
            => /\ m_mmdvmFree
               /\ m_schedule # None
               /\ missed = 0 => wallSlot \in m_schedule
               /\ missed > 0 => /\ slotWords = 0
                                /\ stepped \/ previousSlot \in m_schedule
  <1>1. BudgetInv /\ Overtaken /\ [Next]_vars => [Sending]_vars
    <2>. SUFFICES ASSUME BudgetInv, Overtaken, [Next]_vars, Len(m_queue') < Len(m_queue)
                  PROVE  InOurSlot
      BY DEF InOurSlot
    <2>1. SendAnySlot \/ SendInSlot
      BY OnlySendingPops DEF BudgetInv
    <2>. QED
      BY <2>1, SendingInOurSlot
  <1>2. Spec => [][Sending]_vars
    BY <1>1, InitBudget, NextBudget, OvertakenHolds, PTL DEF Spec
  <1>. QED
    BY <1>2 DEF OnlyInScheduledSlot

-----------------------------------------------------------------------------
(* The slot timer.  When no wait is as long as a cycle, the loop's notion  *)
(* of the slot lags behind the clock by the boundaries it has missed, and  *)
(* as long as it has missed none its timer lags as well.  A setting of the *)
(* clock breaks this, and the next slot that is noticed restores it.       *)

Behind(slot, n) == IF slot + n < SLOTS THEN slot + n ELSE slot + n - SLOTS

Phase ==
    m_schedule # None /\ ~stepped =>
        /\ wallSlot = Behind(m_currentSlot, missed)
        /\ missed = 0 => m_slotTimer <= offset

PhaseInv == TypeOK /\ Phase

LEMMA ElapsePhase ==
    ASSUME TypeOK, MaxMissed < SLOTS,
           NEW d \in Nat, NEW timer \in Nat, NEW boundaries \in 0 .. MaxMissed,
           NEW slot \in Slots,
           ElapseFrom(d, timer, boundaries),
           wallSlot = Behind(slot, boundaries),
           boundaries = 0 => timer <= offset
    PROVE  /\ wallSlot' = Behind(slot, missed')
           /\ missed' = 0 => m_slotTimer' <= offset'
  <1>. USE CapTypes
  <1>1. CASE Crosses(d)
    <2>1. missed' = boundaries + 1 /\ boundaries < MaxMissed
      BY <1>1 DEF ElapseFrom
    <2>2. wallSlot' = IF wallSlot = SLOTS - 1 THEN 0 ELSE wallSlot + 1
      BY <1>1 DEF ElapseFrom
    <2>. QED
      BY <2>1, <2>2 DEF Behind, Slots
  <1>2. CASE ~Crosses(d)
    BY <1>2 DEF ElapseFrom, AtMost, TypeOK
  <1>. QED
    BY <1>1, <1>2

LEMMA NextPhase ==
    ASSUME MaxMissed < SLOTS, PhaseInv, [Next]_vars
    PROVE  PhaseInv'
  <1>0. TypeOK /\ TypeOK' /\ Phase
    BY NextType DEF PhaseInv
  <1>1. CASE BackoffSleep \/ RecoverFails \/ Sleep
    <2>1. PICK d \in OutageTimes \cup SleepTimes : ElapseFrom(d, m_slotTimer, missed)
      BY <1>1 DEF BackoffSleep, RecoverFails, Sleep, Elapse
    <2>2. d \in Nat
      BY GatewayAssumption, CapTypes
    <2>3. UNCHANGED <<m_schedule, m_currentSlot, stepped>>
      BY <1>1 DEF BackoffSleep, RecoverFails, Sleep, Elapse, loopVars
    <2>4. m_slotTimer \in Nat /\ missed \in 0 .. MaxMissed /\ m_currentSlot \in Slots
      BY <1>0, CapTypes DEF TypeOK
    <2>5. CASE m_schedule = None \/ stepped
      BY <1>0, <2>3, <2>5 DEF PhaseInv, Phase
    <2>6. CASE m_schedule # None /\ ~stepped
      BY <1>0, <2>1, <2>2, <2>3, <2>4, <2>6, ElapsePhase DEF PhaseInv, Phase
    <2>. QED
      BY <2>5, <2>6
  <1>2. CASE StartSlot
    <2>1. PICK d \in StepTimes : ElapseFrom(d, 0, 0)
      BY <1>2 DEF StartSlot
    <2>2. d \in Nat
      BY GatewayAssumption, CapTypes
    <2>3. m_currentSlot' = wallSlot
      BY <1>2 DEF StartSlot
    <2>4. /\ wallSlot \in Slots /\ 0 \in 0 .. MaxMissed
          /\ wallSlot = Behind(wallSlot, 0) /\ 0 <= offset
      BY <1>0, CapTypes DEF TypeOK, Slots, Behind
    <2>5. wallSlot' = Behind(wallSlot, missed') /\ (missed' = 0 => m_slotTimer' <= offset')
      BY <1>0, <2>1, <2>2, <2>4, ElapsePhase
    <2>. QED
      BY <1>0, <2>3, <2>5 DEF PhaseInv, Phase
  <1>3. CASE SameSlot
    <2>1. PICK d \in StepTimes : ElapseFrom(d, m_slotTimer, 0)
      BY <1>3 DEF SameSlot
    <2>2. d \in Nat
      BY GatewayAssumption, CapTypes
    <2>3. UNCHANGED <<m_schedule, m_currentSlot, stepped>> /\ wallSlot = m_currentSlot
      BY <1>3 DEF SameSlot, loopVars
    <2>4. CASE m_schedule = None \/ stepped
      BY <1>0, <2>3, <2>4 DEF PhaseInv, Phase
    <2>5. CASE m_schedule # None /\ ~stepped
      <3>1. missed = 0
        BY <1>0, <2>3, <2>5, CapTypes DEF Phase, Behind, TypeOK, Slots
      <3>2. m_slotTimer \in Nat /\ 0 \in 0 .. MaxMissed /\ m_currentSlot \in Slots
        BY <1>0, CapTypes DEF TypeOK
      <3>. QED
        BY <1>0, <2>1, <2>2, <2>3, <2>5, <3>1, <3>2, ElapsePhase DEF PhaseInv, Phase
    <2>. QED
      BY <2>4, <2>5
  <1>4. CASE PollHost \/ ReadOther \/ ReadMessage \/ ReadSchedule \/ ReadFailedLogin
             \/ BackoffOver \/ RecoverSucceeds \/ QueueMessage \/ sendMessages \/ Stop
             \/ sigHandler \/ UNCHANGED vars
    <2>1. UNCHANGED <<m_schedule, m_currentSlot, wallSlot, missed, stepped, m_slotTimer,
                      offset>>
      BY <1>4 DEF PollHost, HostIdle, HostBusy, HostSilent, ReadOther, ReadMessage,
          ReadSchedule, ReadFailedLogin, BackoffOver, RecoverSucceeds, QueueMessage,
          sendMessages, SendAnySlot, SendInSlot, SendNothing, Stop, sigHandler, vars,
          loopVars, clockVars
    <2>. QED
      BY <1>0, <2>1 DEF PhaseInv, Phase
  <1>5. CASE ClockSet
    BY <1>0, <1>5 DEF ClockSet, PhaseInv, Phase
  <1>. QED
    BY <1>1, <1>2, <1>3, <1>4, <1>5 DEF Next, ReadNetwork, CheckSlot, Terminated

(* The reading of the slot timer in sendMessages (line 496) never claims   *)
(* more than has gone of the slot of the clock, so the subtraction does    *)
(* not wrap, if no wait of the loop is as long as a cycle of slots and     *)
(* from the first slot on that is noticed after the clock was set.         *)
THEOREM TimerHonest ==
    ASSUME MaxMissed < SLOTS
    PROVE  Spec => []SlotTimerHonest
  <1>1. Init => PhaseInv
    BY InitType DEF Init, PhaseInv, Phase
  <1>2. PhaseInv /\ [Next]_vars => PhaseInv'
    BY NextPhase
  <1>3. PhaseInv => SlotTimerHonest
    BY DEF PhaseInv, Phase, SlotTimerHonest
  <1>. QED
    BY <1>1, <1>2, <1>3, PTL DEF Spec

(* Nothing but sendMessages gives an idle host something to send. *)
LEMMA OnlySendingFillsAir ==
    ASSUME TypeOK, [Next]_vars, ~m_allSlots, airLeft = 0, airLeft' > 0
    PROVE  SendInSlot
  <1>1. ASSUME NEW d \in Nat, NEW timer, NEW boundaries, ElapseFrom(d, timer, boundaries)
        PROVE  FALSE
    BY <1>1 DEF ElapseFrom
  <1>2. CASE BackoffSleep \/ RecoverFails \/ Sleep \/ StartSlot \/ SameSlot
    <2>1. PICK d \in OutageTimes \cup SleepTimes \cup StepTimes :
              \E timer, boundaries : ElapseFrom(d, timer, boundaries)
      BY <1>2 DEF BackoffSleep, RecoverFails, Sleep, StartSlot, SameSlot, Elapse
    <2>2. d \in Nat
      BY GatewayAssumption, CapTypes
    <2>. QED
      BY <1>1, <2>1, <2>2
  <1>3. CASE SendAnySlot
    BY <1>3 DEF SendAnySlot
  <1>4. CASE PollHost \/ ReadOther \/ ReadMessage \/ ReadSchedule \/ ReadFailedLogin
             \/ BackoffOver \/ RecoverSucceeds \/ QueueMessage \/ SendNothing \/ Stop
             \/ sigHandler \/ ClockSet \/ UNCHANGED vars
    <2>1. airLeft' = airLeft
      BY <1>4 DEF PollHost, HostIdle, HostBusy, HostSilent, ReadOther, ReadMessage,
          ReadSchedule, ReadFailedLogin, BackoffOver, RecoverSucceeds, QueueMessage,
          SendNothing, Stop, sigHandler, ClockSet, vars, hostVars
    <2>. QED
      BY <2>1
  <1>. QED
    BY <1>2, <1>3, <1>4 DEF Next, ReadNetwork, CheckSlot, sendMessages, Terminated

(* The time test of sendMessages (line 497) does what its comment says for *)
(* a page that finds the host idle, but for the delay with which the loop  *)
(* noticed the slot.                                                       *)
THEOREM LonePageEnds ==
    ASSUME MaxMissed < SLOTS
    PROVE  Spec => LonePageEndsInSlot
  <1>. DEFINE Ends ==
          ~m_allSlots /\ airLeft = 0 /\ airLeft' > 0 /\ missed = 0 /\ ~stepped
              => LET late == offset - m_slotTimer
                 IN  offset + airLeft' < SLOT_TIME_MS + late
  <1>1. PhaseInv /\ [Next]_vars => [Ends]_vars
    <2>. SUFFICES ASSUME PhaseInv, [Next]_vars, ~m_allSlots, airLeft = 0, airLeft' > 0,
                         missed = 0, ~stepped
                  PROVE  offset + airLeft' < SLOT_TIME_MS + (offset - m_slotTimer)
      OBVIOUS
    <2>. DEFINE words == pageWords(Head(m_queue).page)
    <2>1. SendInSlot /\ TypeOK
      BY OnlySendingFillsAir DEF PhaseInv
    <2>2. m_slotTimer <= offset
      BY <2>1 DEF SendInSlot, SlotOpen, PhaseInv, Phase
    <2>3. /\ m_slotTimer \in Nat /\ offset \in 0 .. SLOT_TIME_MS - 1
          /\ SLOT_TIME_MS \in Nat /\ AIR_CAP \in Nat
      BY <2>1, CapTypes DEF TypeOK
    <2>4. timeLeft(m_slotTimer) = SLOT_TIME_MS - m_slotTimer
      BY <2>2, <2>3, TimingAssumption DEF timeLeft, SLOT_TIME_MS
    <2>5. Head(m_queue).page \in Messages
      <3>1. Head(m_queue) \in Entries
        BY <2>1 DEF SendInSlot, TypeOK
      <3>. QED
        BY <3>1 DEF Entries
    <2>6. words \in Nat /\ sendTime(words) \in Nat
      BY <2>5, PageWordsType
    <2>. HIDE DEF words
    <2>7. airLeft' = AtMost(AIR_CAP, airLeft + sendTime(words))
      BY <2>1 DEF SendInSlot, Write, Drop, words
    <2>8. sendTime(words) < timeLeft(m_slotTimer)
      BY <2>1 DEF SendInSlot, FitsInSlot, words
    <2>9. PICK n \in Nat : airLeft' = n /\ n <= sendTime(words)
      BY <2>3, <2>6, <2>7 DEF AtMost
    <2>10. n < SLOT_TIME_MS - m_slotTimer
      BY <2>3, <2>4, <2>6, <2>8, <2>9
    <2>11. offset + n < SLOT_TIME_MS + (offset - m_slotTimer)
      BY <2>3, <2>10
    <2>. QED
      BY <2>9, <2>11
  <1>2. Init => PhaseInv
    BY InitType DEF Init, PhaseInv, Phase
  <1>3. PhaseInv /\ [Next]_vars => PhaseInv'
    BY NextPhase
  <1>. QED
    BY <1>1, <1>2, <1>3, PTL DEF Spec, LonePageEndsInSlot

-----------------------------------------------------------------------------
(* What is left on the air.  Of what the host has been given, anything but *)
(* the pages of this slot ends within it; and these are shorter than a     *)
(* slot, by the budget.                                                    *)

(* Microseconds on the air. *)
airTime(words) == words * CODEWORD_TIME_US

LEMMA AirTimeAdds ==
    ASSUME NEW words \in Nat, NEW more \in Nat
    PROVE  /\ airTime(words) \in Nat
           /\ airTime(words + PREAMBLE_LENGTH_CODEWORDS + more)
                = airTime(words) + airTime(PREAMBLE_LENGTH_CODEWORDS + more)
  BY TimingAssumption DEF airTime

LEMMA SendTimeRoundsDown ==
    ASSUME NEW words \in Nat
    PROVE  1000 * sendTime(words) <= airTime(PREAMBLE_LENGTH_CODEWORDS + words)
  <1>. DEFINE us == PREAMBLE_TIME_US + words * CODEWORD_TIME_US
  <1>1. us = airTime(PREAMBLE_LENGTH_CODEWORDS + words) /\ us \in Nat
    BY TimingAssumption DEF airTime, PREAMBLE_TIME_US
  <1>. HIDE DEF us
  <1>2. 1000 * (us \div 1000) <= us
    BY <1>1
  <1>. QED
    BY <1>1, <1>2 DEF sendTime, us

LEMMA SlotIsLonger ==
    ASSUME NEW words \in Nat, words < CODEWORDS_PER_SLOT
    PROVE  airTime(words) <= 1000 * SLOT_TIME_MS + 999
  <1>1. CODEWORDS_PER_SLOT \in Nat /\ CODEWORD_TIME_US \in Nat \ {0} /\ SLOT_TIME_US \in Nat
    BY TimingTypes, TimingAssumption
  <1>2. CODEWORDS_PER_SLOT * CODEWORD_TIME_US <= SLOT_TIME_US
    BY <1>1, TimingAssumption DEF CODEWORDS_PER_SLOT
  <1>3. words * CODEWORD_TIME_US <= CODEWORDS_PER_SLOT * CODEWORD_TIME_US
    BY <1>1
  <1>4. SLOT_TIME_US <= 1000 * SLOT_TIME_MS + 999
    BY <1>1 DEF SLOT_TIME_MS
  <1>5. /\ words * CODEWORD_TIME_US \in Nat
        /\ CODEWORDS_PER_SLOT * CODEWORD_TIME_US \in Nat
        /\ SLOT_TIME_MS \in Nat
    BY <1>1, TimingTypes
  <1>. QED
    BY <1>1, <1>2, <1>3, <1>4, <1>5 DEF airTime

Spill == 1000 * (airLeft + offset + 1) <= airTime(slotWords) + 1000 * SLOT_TIME_MS

SpillInv ==
    /\ BudgetInv /\ ~uncounted
    /\ pc = "send" => missed = 0
    /\ m_allSlots = FALSE
    /\ netSchedule \in Schedules \cup {None}
    /\ ~m_mmdvmFree => slotWords = 0
    /\ Spill

LEMMA ElapseSpill ==
    ASSUME TypeOK, Spill, slotWords < CODEWORDS_PER_SLOT,
           NEW d \in 0 .. SLOT_TIME_MS, NEW timer, NEW boundaries,
           ElapseFrom(d, timer, boundaries)
    PROVE  Spill'
  <1>1. /\ slotWords \in Nat /\ airLeft \in Nat
        /\ offset \in 0 .. SLOT_TIME_MS - 1 /\ SLOT_TIME_MS \in Nat
    BY CapTypes DEF TypeOK
  <1>2. airTime(slotWords) \in Nat /\ airTime(slotWords) <= 1000 * SLOT_TIME_MS + 999
    BY <1>1, AirTimeAdds, SlotIsLonger
  <1>3. airLeft' = IF airLeft > d THEN airLeft - d ELSE 0
    BY DEF ElapseFrom
  <1>4. CASE Crosses(d)
    <2>1. offset' = offset + d - SLOT_TIME_MS /\ slotWords' = 0
      BY <1>4 DEF ElapseFrom
    <2>2. airTime(slotWords') = 0
      BY <2>1, TimingAssumption DEF airTime
    <2>3. airLeft' + offset' <= SLOT_TIME_MS - 1
      BY <1>1, <1>2, <1>3, <2>1 DEF Spill
    <2>4. PICK m \in Int, n \in Int : airLeft' = m /\ offset' = n
      BY <1>1, <1>3, <2>1
    <2>5. m + n <= SLOT_TIME_MS - 1
      BY <2>3, <2>4
    <2>6. 1000 * (m + n + 1) <= 1000 * SLOT_TIME_MS
      BY <1>1, <2>5
    <2>. QED
      BY <1>1, <2>2, <2>4, <2>6 DEF Spill
  <1>5. CASE ~Crosses(d)
    <2>1. offset' = offset + d /\ slotWords' = slotWords /\ offset + d < SLOT_TIME_MS
      BY <1>1, <1>5 DEF ElapseFrom, Crosses
    <2>2. airTime(slotWords') = airTime(slotWords)
      BY <2>1
    <2>. QED
      BY <1>1, <1>2, <1>3, <2>1, <2>2 DEF Spill
  <1>. QED
    BY <1>4, <1>5

LEMMA SendInSlotSpill ==
    ASSUME SpillInv, SendInSlot
    PROVE  Spill' /\ ~uncounted'
  <1>. DEFINE entry == Head(m_queue)
              words == pageWords(entry.page)
  <1>1. TypeOK /\ missed = 0 /\ offset' = offset /\ uncounted = FALSE
    BY DEF SpillInv, BudgetInv, SendInSlot, clockVars, TypeOK
  <1>2. CASE Stale(entry)
    BY <1>1, <1>2 DEF SendInSlot, Drop, SpillInv, Spill
  <1>3. CASE ~Stale(entry)
    <2>1. /\ airLeft' = AtMost(AIR_CAP, airLeft + sendTime(words))
          /\ slotWords' = slotWords + PREAMBLE_LENGTH_CODEWORDS + words
          /\ uncounted' = (uncounted \/ missed > 0)
      BY <1>3 DEF SendInSlot, Write
    <2>2. entry.page \in Messages
      <3>1. m_queue \in Seq(Entries) /\ m_queue # <<>>
        BY <1>1 DEF SendInSlot, TypeOK
      <3>2. entry \in Entries
        BY <3>1
      <3>. QED
        BY <3>2 DEF Entries
    <2>3. words \in Nat /\ sendTime(words) \in Nat
      BY <2>2, PageWordsType
    <2>. HIDE DEF words
    <2>4. /\ slotWords \in Nat /\ airLeft \in Nat /\ offset \in Nat
          /\ SLOT_TIME_MS \in Nat /\ AIR_CAP \in Nat
      BY <1>1, CapTypes DEF TypeOK
    <2>5. 1000 * sendTime(words) <= airTime(PREAMBLE_LENGTH_CODEWORDS + words)
      BY <2>3, SendTimeRoundsDown
    <2>6. airTime(slotWords') = airTime(slotWords) + airTime(PREAMBLE_LENGTH_CODEWORDS + words)
      BY <2>1, <2>3, <2>4, AirTimeAdds
    <2>7. /\ airTime(slotWords) \in Nat
          /\ airTime(PREAMBLE_LENGTH_CODEWORDS + words) \in Nat
      <3>1. PREAMBLE_LENGTH_CODEWORDS + words \in Nat
        BY <2>3, TimingAssumption
      <3>. QED
        BY <2>4, <3>1, AirTimeAdds
    <2>8. airLeft' <= airLeft + sendTime(words) /\ airLeft' \in Nat
      BY <2>1, <2>3, <2>4 DEF AtMost
    <2>9. Spill'
      BY <1>1, <2>3, <2>4, <2>5, <2>6, <2>7, <2>8 DEF SpillInv, Spill
    <2>10. ~uncounted'
      <3>1. ~uncounted /\ ~(missed > 0)
        BY <1>1
      <3>. QED
        BY <2>1, <3>1
    <2>. QED
      BY <2>9, <2>10
  <1>. QED
    BY <1>2, <1>3

LEMMA NextSpill ==
    ASSUME StepTimes = {0}, SetOffsets = {}, Slots \notin Schedules,
           SpillInv, [SteadyNext]_vars
    PROVE  SpillInv'
  <1>0. /\ TypeOK /\ TypeOK' /\ BudgetInv /\ BudgetInv' /\ [Next]_vars
        /\ slotWords < CODEWORDS_PER_SLOT
    BY NextBudget DEF SpillInv, BudgetInv, Counted, SteadyNext
  <1>. USE <1>0 DEF SpillInv
  <1>1. CASE HostIdle
    <2>1. /\ m_mmdvmFree' = TRUE /\ pc' = "dapnet"
          /\ uncounted' = (uncounted \/ m_sentCodewords' < slotWords)
          /\ slotWords = 0
          /\ UNCHANGED <<airLeft, slotWords, m_allSlots, netSchedule, offset>>
      BY <1>1 DEF HostIdle, Poll, clockVars, networkVars
    <2>2. m_sentCodewords' \in Nat
      BY DEF TypeOK
    <2>3. ~uncounted'
      <3>1. ~uncounted /\ ~(m_sentCodewords' < slotWords)
        BY <2>1, <2>2
      <3>. QED
        BY <2>1, <3>1
    <2>4. Spill'
      BY <2>1 DEF Spill
    <2>. QED
      BY <2>1, <2>3, <2>4
  <1>2. CASE BackoffSleep \/ RecoverFails \/ Sleep
    <2>1. PICK d \in OutageTimes \cup SleepTimes : ElapseFrom(d, m_slotTimer, missed)
      BY <1>2 DEF BackoffSleep, RecoverFails, Sleep, Elapse
    <2>2. d \in 0 .. SLOT_TIME_MS
      BY GatewayAssumption, CapTypes
    <2>3. Spill'
      BY <2>1, <2>2, ElapseSpill
    <2>4. /\ pc' # "send"
          /\ UNCHANGED <<m_mmdvmFree, m_allSlots, netSchedule>>
      BY <1>2 DEF BackoffSleep, RecoverFails, Sleep, loopVars
    <2>5. ~uncounted' /\ slotWords' \in {0, slotWords}
      BY <2>1 DEF ElapseFrom, TypeOK
    <2>. QED
      BY <2>3, <2>4, <2>5
  <1>3. CASE StartSlot \/ SameSlot
    <2>1. PICK timer : ElapseFrom(0, timer, 0)
      BY <1>3 DEF StartSlot, SameSlot
    <2>2. Spill'
      BY <2>1, CapTypes, ElapseSpill
    <2>3. missed' = 0 /\ ~uncounted' /\ slotWords' \in {0, slotWords}
      BY <2>1, CapTypes DEF ElapseFrom, Crosses, TypeOK
    <2>4. m_mmdvmFree' = m_mmdvmFree
      BY <1>3 DEF StartSlot, SameSlot, loopVars
    <2>5. \/ UNCHANGED <<m_allSlots, netSchedule>>
          \/ netSchedule # None /\ m_allSlots' = (netSchedule = Slots) /\ netSchedule' = None
      BY <1>3 DEF StartSlot, SameSlot, loadSchedule, loopVars
    <2>6. m_allSlots' = FALSE /\ netSchedule' \in Schedules \cup {None}
      BY <2>5
    <2>. QED
      BY <2>2, <2>3, <2>4, <2>6
  <1>4. CASE SendInSlot
    <2>1. Spill' /\ ~uncounted'
      BY <1>4, SendInSlotSpill
    <2>2. /\ pc' # "send" /\ m_mmdvmFree
          /\ UNCHANGED <<m_mmdvmFree, m_allSlots, netSchedule>>
      BY <1>4 DEF SendInSlot, SlotOpen, networkVars
    <2>. QED
      BY <2>1, <2>2
  <1>5. CASE SendAnySlot
    BY <1>5 DEF SendAnySlot
  <1>6. CASE ReadSchedule
    <2>1. /\ pc' # "send" /\ netSchedule' \in Schedules
          /\ UNCHANGED <<m_mmdvmFree, m_allSlots, uncounted, slotWords, airLeft, offset>>
      BY <1>6 DEF ReadSchedule, ReadReturns, loopVars, hostVars, clockVars
    <2>2. Spill'
      BY <2>1 DEF Spill
    <2>. QED
      BY <2>1, <2>2
  <1>7. CASE HostBusy \/ HostSilent \/ ReadOther \/ ReadMessage \/ ReadFailedLogin
             \/ BackoffOver \/ RecoverSucceeds \/ QueueMessage \/ SendNothing \/ Stop
             \/ sigHandler \/ UNCHANGED vars
    <2>1. UNCHANGED <<m_allSlots, netSchedule, uncounted, slotWords, airLeft, offset, missed>>
      BY <1>7 DEF HostBusy, HostSilent, ReadOther, ReadMessage, ReadFailedLogin, BackoffOver,
          RecoverSucceeds, QueueMessage, SendNothing, Stop, sigHandler, vars, loopVars,
          networkVars, clockVars, hostVars
    <2>2. pc' = "send" => pc = "send"
      BY <1>7 DEF HostBusy, HostSilent, Poll, ReadOther, ReadMessage, ReadFailedLogin,
          BackoffOver, RecoverSucceeds, ReadReturns, QueueMessage, SendNothing, Stop,
          sigHandler, vars
    <2>3. m_mmdvmFree => m_mmdvmFree'
      BY DEF SteadyNext, vars, loopVars
    <2>4. Spill'
      BY <2>1 DEF Spill
    <2>. QED
      BY <2>1, <2>2, <2>3, <2>4
  <1>8. CASE ClockSet
    BY <1>8 DEF ClockSet
  <1>. QED
    BY <1>1, <1>2, <1>3, <1>4, <1>5, <1>6, <1>7, <1>8
    DEF Next, PollHost, ReadNetwork, CheckSlot, sendMessages, Terminated

(* The time test of sendMessages (line 497) forgets what the host still    *)
(* has to send, yet the budget keeps the delay below one slot: for any     *)
(* pages, waits and schedules that leave a slot to others, if the host is  *)
(* steady, the clock is not set and no time is lost between slot check and *)
(* sending.                                                                *)
THEOREM SpillBounded ==
    ASSUME StepTimes = {0}, SetOffsets = {}, Slots \notin Schedules
    PROVE  SteadySpec => []SpillsIntoOneSlot
  <1>1. Init => SpillInv
    <2>. SUFFICES ASSUME Init PROVE SpillInv
      OBVIOUS
    <2>1. airLeft = 0 /\ slotWords = 0 /\ offset \in 0 .. SLOT_TIME_MS - 1
      BY InitType DEF Init, TypeOK
    <2>2. airTime(slotWords) = 0
      BY <2>1, TimingAssumption DEF airTime
    <2>3. Spill
      BY <2>1, <2>2, CapTypes DEF Spill
    <2>. QED
      BY <2>3, InitBudget DEF Init, SpillInv
  <1>2. SpillInv /\ [SteadyNext]_vars => SpillInv'
    BY NextSpill
  <1>3. SpillInv => SpillsIntoOneSlot
    <2>. SUFFICES ASSUME SpillInv PROVE SpillsIntoOneSlot
      OBVIOUS
    <2>1. /\ slotWords \in Nat /\ airLeft \in Nat /\ offset \in Nat /\ SLOT_TIME_MS \in Nat
          /\ slotWords < CODEWORDS_PER_SLOT
      BY CapTypes DEF SpillInv, BudgetInv, Counted, TypeOK
    <2>2. airTime(slotWords) \in Nat /\ airTime(slotWords) <= 1000 * SLOT_TIME_MS + 999
      BY <2>1, AirTimeAdds, SlotIsLonger
    <2>. QED
      BY <2>1, <2>2 DEF SpillInv, Spill, SpillsIntoOneSlot
  <1>. QED
    BY <1>1, <1>2, <1>3, PTL DEF SteadySpec

-----------------------------------------------------------------------------
(* Liveness.  WF_vars makes the steps of the loop happen; that they can is *)
(* NeverStuck, which TLC checks.  The loop is followed from one place to   *)
(* the next.                                                               *)

(* Where the loop goes from each place. *)
Onward(place) ==
    CASE place = "dapnet"  -> {"message", "backoff", "recover"}
      [] place = "backoff" -> {"message", "recover"}
      [] place = "recover" -> {"message"}
      [] place = "message" -> {"slot"}
      [] place = "slot"    -> {"send"}
      [] place = "send"    -> {"sleep"}
      [] place = "sleep"   -> {"pocsag"}
      [] place = "pocsag"  -> {"dapnet", "stopped"}

Places == Steps \ {"stopped"}

(* The step that does not wait: in the two waits it is the one that ends   *)
(* them.                                                                   *)
Ahead(place) ==
    CASE place = "backoff" -> BackoffOver
      [] place = "recover" -> RecoverSucceeds
      [] OTHER             -> Loop

Standing(place) == pc = place
Onwards(place)  == pc \in Onward(place)

LEMMA AheadLeaves ==
    ASSUME NEW place \in Places, Standing(place), Ahead(place)
    PROVE  Onwards(place)'
  <1>1. CASE place = "backoff"
    BY <1>1 DEF Standing, Onwards, Onward, Ahead, BackoffOver, ReadReturns
  <1>2. CASE place = "recover"
    BY <1>2 DEF Standing, Onwards, Onward, Ahead, RecoverSucceeds
  <1>3. CASE place \notin {"backoff", "recover"}
    <2>1. Loop
      BY <1>3 DEF Ahead
    <2>. QED
      BY <1>3, <2>1 DEF Standing, Onwards, Onward, Places, Steps, Loop, PollHost, HostIdle,
          HostBusy, HostSilent, Poll, ReadNetwork, ReadOther, ReadMessage, ReadSchedule,
          ReadFailedLogin, BackoffSleep, BackoffOver, RecoverFails, RecoverSucceeds,
          ReadReturns, QueueMessage, CheckSlot, StartSlot, SameSlot, sendMessages,
          SendAnySlot, SendInSlot, SendNothing, Sleep, Stop
  <1>. QED
    BY <1>1, <1>2, <1>3

LEMMA StaysOrLeaves ==
    ASSUME NEW place \in Places, Standing(place), [Next]_vars
    PROVE  Standing(place)' \/ Onwards(place)'
  <1>1. CASE Loop
    <2>1. CASE place \in {"backoff", "recover"}
      BY <1>1, <2>1 DEF Standing, Onwards, Onward, Loop, PollHost, HostIdle,
          HostBusy, HostSilent, Poll, ReadNetwork, ReadOther, ReadMessage, ReadSchedule,
          ReadFailedLogin, BackoffSleep, BackoffOver, RecoverFails, RecoverSucceeds,
          ReadReturns, QueueMessage, CheckSlot, StartSlot, SameSlot, sendMessages,
          SendAnySlot, SendInSlot, SendNothing, Sleep, Stop
    <2>2. CASE place \notin {"backoff", "recover"}
      BY <1>1, <2>2, AheadLeaves DEF Ahead
    <2>. QED
      BY <2>1, <2>2
  <1>2. CASE sigHandler \/ ClockSet \/ Terminated \/ UNCHANGED vars
    BY <1>2 DEF Standing, sigHandler, ClockSet, Terminated, vars
  <1>. QED
    BY <1>1, <1>2 DEF Next, Loop

GoesOn(place) == Standing(place) ~> Onwards(place)

(* The loop goes on from each place. *)
LEMMA CarriedOn ==
    ASSUME NEW place \in Places \ {"backoff", "recover"}
    PROVE  FairSpec /\ []NeverStuck => GoesOn(place)
  <1>1. Standing(place) /\ [Next]_vars => Standing(place)' \/ Onwards(place)'
    BY StaysOrLeaves
  <1>2. Standing(place) /\ <<Loop>>_vars => Onwards(place)'
    BY AheadLeaves DEF Ahead
  <1>3. Standing(place) /\ NeverStuck => ENABLED <<Loop>>_vars
    BY DEF Standing, NeverStuck, Places
  <1>. QED
    BY <1>1, <1>2, <1>3, PTL DEF FairSpec, Fairness, Spec, GoesOn

LEMMA BackoffEnds == FairSpec /\ []NeverStuck => GoesOn("backoff")
  <1>0. "backoff" \in Places
    BY DEF Places, Steps
  <1>1. Standing("backoff") /\ [Next]_vars => Standing("backoff")' \/ Onwards("backoff")'
    BY <1>0, StaysOrLeaves
  <1>2. Standing("backoff") /\ <<BackoffOver>>_vars => Onwards("backoff")'
    BY <1>0, AheadLeaves DEF Ahead
  <1>3. Standing("backoff") /\ NeverStuck => ENABLED <<BackoffOver>>_vars
    BY DEF Standing, NeverStuck
  <1>. QED
    BY <1>1, <1>2, <1>3, PTL DEF FairSpec, Fairness, Spec, GoesOn

LEMMA RecoverEnds == FairSpec /\ []NeverStuck => GoesOn("recover")
  <1>0. "recover" \in Places
    BY DEF Places, Steps
  <1>1. Standing("recover") /\ [Next]_vars => Standing("recover")' \/ Onwards("recover")'
    BY <1>0, StaysOrLeaves
  <1>2. Standing("recover") /\ <<RecoverSucceeds>>_vars => Onwards("recover")'
    BY <1>0, AheadLeaves DEF Ahead
  <1>3. Standing("recover") /\ NeverStuck => ENABLED <<RecoverSucceeds>>_vars
    BY DEF Standing, NeverStuck
  <1>. QED
    BY <1>1, <1>2, <1>3, PTL DEF FairSpec, Fairness, Spec, GoesOn

LEMMA StopIsFinal == pc = "stopped" /\ [Next]_vars => (pc = "stopped")'
  BY DEF Next, PollHost, HostIdle, HostBusy, HostSilent, Poll, ReadNetwork, ReadOther,
      ReadMessage, ReadSchedule, ReadFailedLogin, BackoffSleep, BackoffOver,
      RecoverFails, RecoverSucceeds, QueueMessage, CheckSlot, StartSlot, SameSlot,
      sendMessages, SendAnySlot, SendInSlot, SendNothing, Sleep, Stop, sigHandler,
      ClockSet, Terminated, vars

(* The slot is checked and CThread::sleep called again and again. *)
TurnsGoOn ==
    \/ <>(pc = "stopped")
    \/ []<><<CheckSlot>>_vars /\ []<><<Sleep>>_vars

(* Every turn of the loop ends, unless the program does (lines 335-442):   *)
(* whatever the host, the network, the queue or the schedule is like, no   *)
(* way leads round in a circle without the slot check and the sleep.       *)
THEOREM LoopTurns == FairSpec /\ []NeverStuck => TurnsGoOn
  <1>1. FairSpec /\ []NeverStuck =>
          /\ GoesOn("dapnet") /\ GoesOn("message") /\ GoesOn("slot")
          /\ GoesOn("send") /\ GoesOn("sleep") /\ GoesOn("pocsag")
    BY CarriedOn, SMT DEF Places, Steps
  <1>2. /\ Onwards("dapnet") => Standing("message") \/ Standing("backoff")
                                                    \/ Standing("recover")
        /\ Onwards("backoff") => Standing("message") \/ Standing("recover")
        /\ Onwards("recover") => Standing("message")
        /\ Onwards("message") => Standing("slot")
        /\ Onwards("slot")    => Standing("send")
        /\ Onwards("send")    => Standing("sleep")
        /\ Onwards("sleep")   => Standing("pocsag")
        /\ Onwards("pocsag")  => Standing("dapnet") \/ pc = "stopped"
    BY DEF Onwards, Onward, Standing
  <1>3. TypeOK =>
          \/ Standing("dapnet") \/ Standing("backoff") \/ Standing("recover")
          \/ Standing("message") \/ Standing("slot") \/ Standing("send")
          \/ Standing("sleep") \/ Standing("pocsag") \/ pc = "stopped"
    BY DEF TypeOK, Steps, Standing
  <1>4. /\ Standing("slot") => ~Standing("send")
        /\ Standing("sleep") => ~Standing("pocsag")
    BY DEF Standing
  <1>5. Standing("slot") /\ [Next]_vars => Standing("slot")' \/ <<CheckSlot>>_vars
    BY DEF Standing, Next, PollHost, HostIdle, HostBusy, HostSilent, Poll, ReadNetwork,
        ReadOther, ReadMessage, ReadSchedule, ReadFailedLogin, BackoffSleep, BackoffOver,
        RecoverFails, RecoverSucceeds, QueueMessage, CheckSlot, StartSlot, SameSlot,
        sendMessages, SendAnySlot, SendInSlot, SendNothing, Sleep, Stop, sigHandler,
        ClockSet, Terminated, vars
  <1>6. Standing("sleep") /\ [Next]_vars => Standing("sleep")' \/ <<Sleep>>_vars
    BY DEF Standing, Next, PollHost, HostIdle, HostBusy, HostSilent, Poll, ReadNetwork,
        ReadOther, ReadMessage, ReadSchedule, ReadFailedLogin, BackoffSleep, BackoffOver,
        RecoverFails, RecoverSucceeds, QueueMessage, CheckSlot, StartSlot, SameSlot,
        sendMessages, SendAnySlot, SendInSlot, SendNothing, Sleep, Stop, sigHandler,
        ClockSet, Terminated, vars
  <1>. QED
    BY <1>1, <1>2, <1>3, <1>4, <1>5, <1>6, BackoffEnds, RecoverEnds, TypeCorrect, PTL
    DEF GoesOn, TurnsGoOn, FairSpec, Spec

(* A signal ends the loop wherever it arrives: m_killed is looked at once  *)
(* in every turn (line 335), and neither the backoff nor recover() lasts   *)
(* for ever.                                                               *)
THEOREM SignalEndsLoop == FairSpec /\ []NeverStuck => Stops
  <1>1. m_killed /\ [Next]_vars => m_killed'
    BY DEF Next, PollHost, HostIdle, HostBusy, HostSilent, ReadNetwork, ReadOther,
        ReadMessage, ReadSchedule, ReadFailedLogin, BackoffSleep, BackoffOver,
        RecoverFails, RecoverSucceeds, QueueMessage, CheckSlot, StartSlot, SameSlot,
        sendMessages, SendAnySlot, SendInSlot, SendNothing, Sleep, Stop, sigHandler,
        ClockSet, Terminated, vars
  <1>2. <<Sleep>>_vars => Standing("pocsag")'
    BY DEF Sleep, Standing
  <1>3. Standing("pocsag") /\ m_killed /\ [Next]_vars
          => Standing("pocsag")' \/ (pc = "stopped")'
    BY DEF Standing, Next, PollHost, HostIdle, HostBusy, HostSilent, Poll, ReadNetwork,
        ReadOther, ReadMessage, ReadSchedule, ReadFailedLogin, BackoffSleep, BackoffOver,
        RecoverFails, RecoverSucceeds, QueueMessage, CheckSlot, StartSlot, SameSlot,
        sendMessages, SendAnySlot, SendInSlot, SendNothing, Sleep, Stop, sigHandler,
        ClockSet, Terminated, vars
  <1>4. Standing("pocsag") /\ m_killed /\ <<Sleep>>_vars => FALSE
    BY DEF Standing, Sleep
  <1>. QED
    BY <1>1, <1>2, <1>3, <1>4, StopIsFinal, LoopTurns, PTL
    DEF TurnsGoOn, Stops, FairSpec, Spec

-----------------------------------------------------------------------------
(* The slots.  Each sleep brings the start of the cycle nearer, and when   *)
(* no wait skips a slot it is noticed.  From there the loop notices slot   *)
(* after slot, so that it cannot come round again without having noticed   *)
(* one of ours, if there is one.                                           *)

(* No wait is longer than a slot, and the clock is not set. *)
NoneSkipped == MaxMissed = 1 /\ SetOffsets = {}

(* The loop's slot is the clock's, or the one before if that is not over   *)
(* for the loop.  It is so from the first slot check on.                   *)
InStep == wallSlot = Behind(m_currentSlot, missed)

(* The cycle has begun, and the loop has not noticed yet. *)
Begun == wallSlot = 0 /\ missed = 1

(* The milliseconds to the start of the next cycle. *)
timeToCycle == (SLOTS - wallSlot) * SLOT_TIME_MS - offset

LEMMA TimeToCycleType == TypeOK => timeToCycle \in Nat
  <1>. SUFFICES ASSUME TypeOK PROVE timeToCycle \in Nat
    OBVIOUS
  <1>. DEFINE n == SLOTS - wallSlot
  <1>1. n \in Nat \ {0} /\ SLOT_TIME_MS \in Nat /\ offset \in Nat /\ offset < SLOT_TIME_MS
    BY CapTypes DEF TypeOK, Slots
  <1>2. timeToCycle = n * SLOT_TIME_MS - offset
    BY DEF timeToCycle
  <1>. HIDE DEF n
  <1>3. n * SLOT_TIME_MS \in Nat /\ n * SLOT_TIME_MS >= SLOT_TIME_MS
    BY <1>1
  <1>. QED
    BY <1>1, <1>2, <1>3

LEMMA NoStepTime == NoneSkipped => StepTimes = {0}
  BY GatewayAssumption DEF NoneSkipped

(* What a wait does to clock and slot. *)
LEMMA ElapseNears ==
    ASSUME NoneSkipped, TypeOK, NEW d \in Nat, d <= SLOT_TIME_MS,
           NEW timer, NEW boundaries \in 0 .. MaxMissed,
           ElapseFrom(d, timer, boundaries)
    PROVE  /\ timeToCycle' <= timeToCycle - d \/ Begun'
           /\ \A slot \in Slots : wallSlot = Behind(slot, boundaries)
                                    => wallSlot' = Behind(slot, missed')
  <1>1. CASE Crosses(d)
    <2>1. boundaries = 0 /\ missed' = 1 /\ offset' = offset + d - SLOT_TIME_MS
      BY <1>1 DEF ElapseFrom, NoneSkipped
    <2>2. wallSlot' = IF wallSlot = SLOTS - 1 THEN 0 ELSE wallSlot + 1
      BY <1>1 DEF ElapseFrom
    <2>3. CASE wallSlot = SLOTS - 1
      BY <2>1, <2>2, <2>3, CapTypes DEF Begun, Behind, Slots
    <2>4. CASE wallSlot # SLOTS - 1
      <3>1. wallSlot' = wallSlot + 1
        BY <2>2, <2>4
      <3>. DEFINE n == SLOTS - wallSlot
      <3>2. n \in Nat /\ SLOT_TIME_MS \in Nat /\ offset \in Nat
        BY CapTypes DEF TypeOK, Slots
      <3>3. SLOTS - wallSlot' = n - 1
        BY <3>1, CapTypes DEF TypeOK, Slots
      <3>4. (n - 1) * SLOT_TIME_MS = n * SLOT_TIME_MS - SLOT_TIME_MS
        <4>. HIDE DEF n
        <4>. QED
          BY <3>2
      <3>5. timeToCycle' = (n - 1) * SLOT_TIME_MS - (offset + d - SLOT_TIME_MS)
        BY <2>1, <3>3 DEF timeToCycle
      <3>6. timeToCycle = n * SLOT_TIME_MS - offset
        BY DEF timeToCycle
      <3>7. n * SLOT_TIME_MS \in Int
        <4>. HIDE DEF n
        <4>. QED
          BY <3>2
      <3>8. timeToCycle' <= timeToCycle - d
        <4>. HIDE DEF n
        <4>. QED
          BY <3>2, <3>4, <3>5, <3>6, <3>7
      <3>9. ASSUME NEW slot \in Slots, wallSlot = Behind(slot, boundaries)
            PROVE  wallSlot' = Behind(slot, missed')
        <4>1. wallSlot = slot /\ slot + 1 < SLOTS
          BY <2>1, <2>4, <3>9, CapTypes DEF Behind, Slots
        <4>. QED
          BY <2>1, <3>1, <4>1 DEF Behind
      <3>. QED
        BY <3>8, <3>9
    <2>. QED
      BY <2>3, <2>4
  <1>2. CASE ~Crosses(d)
    <2>1. wallSlot' = wallSlot /\ offset' = offset + d /\ missed' = boundaries
      BY <1>2 DEF ElapseFrom
    <2>. DEFINE t == (SLOTS - wallSlot) * SLOT_TIME_MS
    <2>2. timeToCycle' = t - (offset + d) /\ timeToCycle = t - offset
      BY <2>1 DEF timeToCycle
    <2>3. t \in Int /\ offset \in Nat
      BY CapTypes DEF TypeOK, Slots
    <2>. HIDE DEF t
    <2>. QED
      BY <2>1, <2>2, <2>3
  <1>. QED
    BY <1>1, <1>2

(* Without a wait nothing changes but the loop's notion of the slot. *)
LEMMA CheckNears ==
    ASSUME NoneSkipped, TypeOK, CheckSlot
    PROVE  /\ UNCHANGED <<wallSlot, offset>> /\ missed' = 0
           /\ m_currentSlot' = wallSlot
  <1>1. PICK timer : ElapseFrom(0, timer, 0)
    BY NoStepTime DEF CheckSlot, StartSlot, SameSlot
  <1>2. ~Crosses(0)
    BY CapTypes DEF TypeOK, Crosses
  <1>. QED
    BY <1>1, <1>2 DEF TypeOK, ElapseFrom, CheckSlot, StartSlot, SameSlot, loopVars

LEMMA StepNears ==
    ASSUME NoneSkipped, TypeOK, [Next]_vars
    PROVE  /\ timeToCycle' <= timeToCycle \/ Begun'
           /\ Sleep => timeToCycle' < timeToCycle \/ Begun'
           /\ InStep \/ CheckSlot => InStep'
  <1>0. timeToCycle \in Nat /\ m_currentSlot \in Slots /\ missed \in 0 .. MaxMissed
    BY TimeToCycleType DEF TypeOK
  <1>1. CASE BackoffSleep \/ RecoverFails \/ Sleep
    <2>1. PICK d \in OutageTimes \cup SleepTimes :
              Elapse(d) /\ (Sleep => d \in SleepTimes)
      BY <1>1 DEF BackoffSleep, RecoverFails, Sleep
    <2>2. d \in Nat /\ d <= SLOT_TIME_MS /\ (Sleep => d > 0)
      BY <2>1, GatewayAssumption, CapTypes
    <2>3. m_currentSlot' = m_currentSlot /\ ~CheckSlot
      BY <1>1 DEF BackoffSleep, RecoverFails, Sleep, loopVars, CheckSlot, StartSlot, SameSlot
    <2>4. /\ timeToCycle' <= timeToCycle - d \/ Begun'
          /\ \A slot \in Slots : wallSlot = Behind(slot, missed)
                                   => wallSlot' = Behind(slot, missed')
      BY <1>0, <2>1, <2>2, ElapseNears DEF Elapse
    <2>5. timeToCycle' \in Nat
      <3>1. TypeOK' => (timeToCycle \in Nat)'
        BY TimeToCycleType, PTL
      <3>. QED
        BY <3>1, NextType
    <2>. QED
      BY <1>0, <2>2, <2>3, <2>4, <2>5 DEF InStep
  <1>2. CASE CheckSlot
    <2>1. timeToCycle' = timeToCycle
      BY <1>2, CheckNears DEF timeToCycle
    <2>2. InStep'
      BY <1>2, CheckNears, CapTypes DEF InStep, Behind, TypeOK, Slots
    <2>3. ~Sleep
      BY <1>2 DEF CheckSlot, StartSlot, SameSlot, Sleep
    <2>. QED
      BY <1>0, <2>1, <2>2, <2>3
  <1>3. CASE PollHost \/ ReadOther \/ ReadMessage \/ ReadSchedule \/ ReadFailedLogin
             \/ BackoffOver \/ RecoverSucceeds \/ QueueMessage \/ sendMessages \/ Stop
             \/ sigHandler \/ UNCHANGED vars
    <2>1. UNCHANGED <<m_currentSlot, wallSlot, missed, offset>> /\ ~Sleep /\ ~CheckSlot
      BY <1>3 DEF PollHost, HostIdle, HostBusy, HostSilent, Poll, ReadOther, ReadMessage,
          ReadSchedule, ReadFailedLogin, BackoffOver, RecoverSucceeds, QueueMessage,
          sendMessages, SendAnySlot, SendInSlot, SendNothing, Stop, sigHandler, vars,
          loopVars, clockVars, Sleep, CheckSlot, StartSlot, SameSlot
    <2>. QED
      BY <1>0, <2>1 DEF timeToCycle, InStep
  <1>4. CASE ClockSet
    BY <1>4 DEF ClockSet, NoneSkipped
  <1>. QED
    BY <1>1, <1>2, <1>3, <1>4 DEF Next, ReadNetwork, Terminated

(* A slot of ours follows, and the loop has not noticed it yet. *)
Due == m_schedule # None /\ \E slot \in m_schedule : m_currentSlot < slot

(* A cycle that has begun is noticed by the next slot check. *)
LEMMA BegunNoticed ==
    ASSUME NoneSkipped, TypeOK, InStep, Begun, [Next]_vars
    PROVE  (Begun' /\ ~CheckSlot) \/ <<Notices(0)>>_vars
  <1>1. m_currentSlot # wallSlot
    BY CapTypes DEF TypeOK, InStep, Begun, Behind, Slots
  <1>2. CASE CheckSlot
    BY <1>1, <1>2 DEF CheckSlot, StartSlot, SameSlot, Notices, Begun, vars
  <1>3. CASE BackoffSleep \/ RecoverFails \/ Sleep
    <2>1. PICK d : ElapseFrom(d, m_slotTimer, missed)
      BY <1>3 DEF BackoffSleep, RecoverFails, Sleep, Elapse
    <2>2. wallSlot' = 0 /\ missed' = 1
      BY <2>1 DEF ElapseFrom, Begun, NoneSkipped
    <2>. QED
      BY <1>3, <2>2 DEF Begun, BackoffSleep, RecoverFails, Sleep, CheckSlot, StartSlot,
          SameSlot
  <1>4. CASE PollHost \/ ReadOther \/ ReadMessage \/ ReadSchedule \/ ReadFailedLogin
             \/ BackoffOver \/ RecoverSucceeds \/ QueueMessage \/ sendMessages \/ Stop
             \/ sigHandler \/ UNCHANGED vars
    BY <1>4 DEF PollHost, HostIdle, HostBusy, HostSilent, Poll, ReadOther, ReadMessage,
        ReadSchedule, ReadFailedLogin, BackoffOver, RecoverSucceeds, QueueMessage,
        sendMessages, SendAnySlot, SendInSlot, SendNothing, Stop, sigHandler, vars,
        loopVars, clockVars, CheckSlot, StartSlot, SameSlot, Begun
  <1>5. CASE ClockSet
    BY <1>5 DEF ClockSet, NoneSkipped
  <1>. QED
    BY <1>2, <1>3, <1>4, <1>5 DEF Next, ReadNetwork, Terminated

(* At the start of a cycle a usable schedule has a slot for us to come. *)
LEMMA StartsDue ==
    ASSUME NoneSkipped, TypeOK, TypeOK', Notices(0), Usable'
    PROVE  Due' \/ <<NoticesOurs>>_vars
  <1>1. m_schedule' # None /\ m_schedule' \subseteq Slots /\ m_schedule' # {}
    BY DEF Usable, TypeOK
  <1>2. StartSlot /\ wallSlot = 0 /\ m_currentSlot' = 0
    BY DEF Notices, StartSlot
  <1>3. CASE 0 \in m_schedule'
    BY <1>1, <1>2, <1>3 DEF NoticesOurs, StartSlot, vars
  <1>4. CASE 0 \notin m_schedule'
    <2>1. PICK slot \in m_schedule' : slot # 0
      BY <1>1, <1>4
    <2>2. 0 < slot
      BY <1>1, <2>1, CapTypes DEF Slots
    <2>. QED
      BY <1>1, <1>2, <2>1, <2>2 DEF Due
  <1>. QED
    BY <1>3, <1>4

(* It stays to come until the loop notices a slot of ours. *)
LEMMA StaysDue ==
    ASSUME NoneSkipped, TypeOK, InStep, Due, [Next]_vars
    PROVE  (Due' /\ ~Notices(0)) \/ <<NoticesOurs>>_vars
  <1>1. PICK slot \in m_schedule : m_currentSlot < slot
    BY DEF Due
  <1>2. m_schedule # None /\ slot \in Slots /\ m_currentSlot \in Slots
    BY <1>1 DEF Due, TypeOK
  <1>3. CASE StartSlot
    <2>1. wallSlot = m_currentSlot + 1
      BY <1>1, <1>2, <1>3, CapTypes DEF StartSlot, InStep, Behind, TypeOK, Slots, NoneSkipped
    <2>2. wallSlot # 0 /\ m_schedule' = m_schedule /\ m_currentSlot' = wallSlot
      BY <1>2, <1>3, <2>1 DEF StartSlot, MayLoad, Slots
    <2>3. CASE wallSlot \in m_schedule
      BY <1>2, <1>3, <2>2, <2>3 DEF NoticesOurs, StartSlot, vars
    <2>4. CASE wallSlot \notin m_schedule
      <3>1. m_currentSlot' < slot
        BY <1>1, <1>2, <2>1, <2>2, <2>4, CapTypes DEF Slots
      <3>. QED
        BY <1>1, <1>2, <2>2, <3>1 DEF Due, Notices
    <2>. QED
      BY <2>3, <2>4
  <1>4. CASE ~StartSlot
    <2>1. UNCHANGED <<m_schedule, m_currentSlot>>
      BY <1>4 DEF Next, PollHost, HostIdle, HostBusy, HostSilent, ReadNetwork, ReadOther,
          ReadMessage, ReadSchedule, ReadFailedLogin, BackoffSleep, BackoffOver,
          RecoverFails, RecoverSucceeds, QueueMessage, CheckSlot, SameSlot, sendMessages,
          SendAnySlot, SendInSlot, SendNothing, Sleep, Stop, sigHandler, ClockSet,
          Terminated, vars, loopVars
    <2>. QED
      BY <1>1, <1>2, <1>4, <2>1 DEF Due, Notices
  <1>. QED
    BY <1>3, <1>4

CycleNears(k) == ComesDown(timeToCycle, Begun \/ pc = "stopped", k)

LEMMA SleepNears ==
    ASSUME NoneSkipped, NEW k \in Nat
    PROVE  FairSpec /\ []NeverStuck => CycleNears(k)
  <1>. DEFINE Nearer == (timeToCycle \in Nat /\ timeToCycle < k) \/ Begun
  <1>1. TypeOK /\ timeToCycle = k /\ [Next]_vars => (timeToCycle = k)' \/ Nearer'
    <2>. SUFFICES ASSUME TypeOK, timeToCycle = k, [Next]_vars
                  PROVE  timeToCycle' = k \/ Nearer'
      OBVIOUS
    <2>1. timeToCycle' <= k \/ Begun'
      BY StepNears
    <2>2. TypeOK' => (timeToCycle \in Nat)'
      BY TimeToCycleType, PTL
    <2>. QED
      BY <2>1, <2>2, NextType
  <1>2. TypeOK /\ timeToCycle = k /\ <<Sleep>>_vars => Nearer'
    <2>. SUFFICES ASSUME TypeOK, timeToCycle = k, Sleep
                  PROVE  Nearer'
      OBVIOUS
    <2>1. timeToCycle' < k \/ Begun'
      BY StepNears DEF Next
    <2>2. TypeOK' => (timeToCycle \in Nat)'
      BY TimeToCycleType, PTL
    <2>. QED
      BY <2>1, <2>2, NextType DEF Next
  <1>. QED
    BY <1>1, <1>2, StopIsFinal, LoopTurns, TypeCorrect, PTL
    DEF FairSpec, Spec, TurnsGoOn, CycleNears, ComesDown

(* The loop does not lose the slots (lines 417-440): as long as it runs it *)
(* notices the start of every cycle and, with a usable schedule, slots of  *)
(* ours again and again, if no wait skips a slot and the clock is not set. *)
(* The time to the start of the cycle counts down.                         *)
THEOREM CycleNeverEnds ==
    ASSUME NoneSkipped
    PROVE  FairSpec /\ []NeverStuck /\ CountsDown(timeToCycle, Begun \/ pc = "stopped")
              => CycleGoesOn
  <1>1. FairSpec /\ []NeverStuck => \A k \in Nat : CycleNears(k)
    BY SleepNears
  <1>2. (\A k \in Nat : CycleNears(k)) /\ CountsDown(timeToCycle, Begun \/ pc = "stopped")
          => ((timeToCycle \in Nat) ~> (Begun \/ pc = "stopped"))
    BY DEF CycleNears, CountsDown
  <1>3. TypeOK => timeToCycle \in Nat
    BY TimeToCycleType
  <1>4. /\ TypeOK /\ <<CheckSlot>>_vars => InStep'
        /\ TypeOK /\ InStep /\ [Next]_vars => InStep'
    BY StepNears DEF Next
  <1>5. /\ TypeOK /\ InStep /\ Begun /\ [Next]_vars => Begun' \/ <<Notices(0)>>_vars
        /\ TypeOK /\ InStep /\ Begun /\ [Next]_vars /\ <<CheckSlot>>_vars => <<Notices(0)>>_vars
    BY BegunNoticed
  <1>6. TypeOK /\ TypeOK' /\ Usable' /\ <<Notices(0)>>_vars => Due' \/ <<NoticesOurs>>_vars
    BY StartsDue
  <1>7. TypeOK /\ InStep /\ Due /\ [Next]_vars
          => (Due' /\ ~<<Notices(0)>>_vars) \/ <<NoticesOurs>>_vars
    BY StaysDue
  <1>. QED
    BY <1>1, <1>2, <1>3, <1>4, <1>5, <1>6, <1>7, LoopTurns, TypeCorrect, PTL
    DEF FairSpec, Spec, TurnsGoOn, CycleGoesOn

(* A schedule that was received comes into force (lines 433-434): it waits *)
(* in the network for the start of a cycle and no longer, if the loop      *)
(* notices the starts of cycles.                                           *)
THEOREM ScheduleLoads == Spec /\ CycleGoesOn => ScheduleTakesEffect
  <1>1. netSchedule # None /\ <<Notices(0)>>_vars => (netSchedule = None)'
    BY DEF Notices, StartSlot, MayLoad, loadSchedule
  <1>2. netSchedule # None <=> ~(netSchedule = None)
    OBVIOUS
  <1>. QED
    BY <1>1, <1>2, StopIsFinal, PTL DEF Spec, CycleGoesOn, ScheduleTakesEffect

(* Every page is short enough for a slot of ours that is noticed at its    *)
(* start, whatever time the loop then takes to come to sendMessages.       *)
PagesFit ==
    \A m \in Messages, d \in StepTimes :
        /\ PREAMBLE_LENGTH_CODEWORDS + pageWords(m) < CODEWORDS_PER_SLOT
        /\ sendTime(pageWords(m)) < timeLeft(d)

(* It is so in the program, if the loop takes less than half a slot. *)
THEOREM RealPagesFit ==
    ASSUME RealTiming,
           \A m \in Messages : m.length <= MAX_LENGTH,
           StepTimes \subseteq 0 .. 3200
    PROVE  PagesFit
  <1>. SUFFICES ASSUME NEW m \in Messages, NEW d \in StepTimes
                PROVE  /\ PREAMBLE_LENGTH_CODEWORDS + pageWords(m) < CODEWORDS_PER_SLOT
                       /\ sendTime(pageWords(m)) < timeLeft(d)
    BY DEF PagesFit
  <1>1. m.functional \in 0 .. 3 /\ m.length \in 1 .. MAX_LENGTH
    BY GatewayAssumption DEF MAX_LENGTH, BUFFER_LENGTH
  <1>. DEFINE words == pageWords(m)
  <1>2. /\ words \in Nat /\ words <= 83
        /\ sendTime(words) \in Nat /\ sendTime(words) <= 2694
    <2>. DEFINE f == m.functional
                n == m.length
    <2>1. f \in 0 .. 3 /\ n \in 1 .. MAX_LENGTH
      BY <1>1
    <2>2. words = calculateCodewords(f, n)
      BY DEF pageWords
    <2>. HIDE DEF f, n, words
    <2>. QED
      BY <2>1, <2>2, LongestPage
  <1>. HIDE DEF words
  <1>3. CODEWORDS_PER_SLOT = 239 /\ SLOT_TIME_MS = 6400
    BY DEF RealTiming, CODEWORDS_PER_SLOT, SLOT_TIME_MS
  <1>4. d \in Nat /\ d <= 3200
    OBVIOUS
  <1>5. timeLeft(d) = 6400 - d
    <2>1. UINT_RANGE \in Nat \ {0} /\ 6400 < UINT_RANGE
      BY <1>3, TimingAssumption DEF SLOT_TIME_MS
    <2>2. 6400 - d \in Nat /\ 6400 - d < UINT_RANGE
      BY <1>4, <2>1
    <2>3. (6400 - d) % UINT_RANGE = 6400 - d
      BY <2>1, <2>2
    <2>. QED
      BY <1>3, <2>3 DEF timeLeft
  <1>6. PREAMBLE_LENGTH_CODEWORDS + words < CODEWORDS_PER_SLOT
    BY <1>2, <1>3 DEF RealTiming
  <1>7. sendTime(words) < timeLeft(d)
    <2>1. PICK t \in Nat : t = sendTime(words) /\ t <= 2694
      BY <1>2
    <2>2. t < 6400 - d
      BY <1>4, <2>1
    <2>. QED
      BY <1>5, <2>1, <2>2
  <1>. QED
    BY <1>6, <1>7 DEF words

(* sendMessages has just been reached in a slot of ours that was noticed   *)
(* and in which nothing has been sent.                                     *)
Fresh ==
    /\ pc = "send"
    /\ m_schedule # None /\ m_currentSlot \in m_schedule
    /\ m_sentCodewords = 0
    /\ m_slotTimer \in StepTimes

LEMMA FreshSends ==
    ASSUME PagesFit, TypeOK, Fresh, Usable, m_queue # <<>>, Loop
    PROVE  Popped
  <1>1. sendMessages
    BY DEF Fresh, Loop, PollHost, HostIdle, HostBusy, HostSilent, Poll, ReadNetwork,
        ReadOther, ReadMessage, ReadSchedule, ReadFailedLogin, BackoffSleep, BackoffOver,
        RecoverFails, RecoverSucceeds, QueueMessage, CheckSlot, StartSlot, SameSlot,
        Sleep, Stop
  <1>2. Head(m_queue).page \in Messages
    <2>1. Head(m_queue) \in Entries
      BY DEF TypeOK
    <2>. QED
      BY <2>1 DEF Entries
  <1>3. FitsInSlot(Head(m_queue).page)
    <2>1. pageWords(Head(m_queue).page) \in Nat
      BY <1>2, PageWordsType
    <2>. QED
      BY <1>2, <2>1, TimingAssumption DEF Fresh, PagesFit, FitsInSlot, totalCodewords
  <1>4. SlotOpen
    BY DEF Fresh, Usable, SlotOpen
  <1>5. m_queue' = Tail(m_queue)
    BY <1>1, <1>3, <1>4 DEF sendMessages, SendAnySlot, SendInSlot, SendNothing
  <1>. QED
    BY <1>5 DEF Popped, TypeOK

(* The queue keeps moving while the host is free and a slot of ours comes  *)
(* round: in each such slot sendMessages takes at least the first page it  *)
(* finds, so that neither test (lines 490 and 497) holds a page for ever.  *)
THEOREM QueueDrains ==
    ASSUME PagesFit
    PROVE  FairSpec /\ []NeverStuck /\ CycleGoesOn => Drains
  <1>1. <<NoticesOurs>>_vars => Fresh'
    <2>. SUFFICES ASSUME NoticesOurs PROVE Fresh'
      OBVIOUS
    <2>1. PICK d \in StepTimes : ElapseFrom(d, 0, 0)
      BY DEF NoticesOurs, StartSlot
    <2>2. m_slotTimer' = d
      BY <2>1, GatewayAssumption, CapTypes DEF ElapseFrom, AtMost, ELAPSED_CAP
    <2>. QED
      BY <2>2 DEF NoticesOurs, StartSlot, Fresh
  <1>2. TypeOK /\ Fresh /\ Usable /\ m_queue # <<>> /\ [Next]_vars
          => Fresh' \/ <<Popped>>_vars
    <2>. SUFFICES ASSUME TypeOK, Fresh, Usable, m_queue # <<>>, [Next]_vars
                  PROVE  Fresh' \/ <<Popped>>_vars
      OBVIOUS
    <2>1. CASE Loop
      BY <2>1, FreshSends DEF Popped, vars
    <2>2. CASE sigHandler \/ ClockSet \/ Terminated \/ UNCHANGED vars
      BY <2>2 DEF Fresh, sigHandler, ClockSet, Terminated, vars, loopVars, clockVars
    <2>. QED
      BY <2>1, <2>2 DEF Next, Loop
  <1>3. TypeOK /\ Fresh /\ Usable /\ m_queue # <<>> /\ <<Loop>>_vars => <<Popped>>_vars
    BY FreshSends
  <1>4. Fresh /\ NeverStuck => ENABLED <<Loop>>_vars
    BY DEF Fresh, NeverStuck
  <1>5. m_queue # <<>> <=> ~(m_queue = <<>>)
    OBVIOUS
  <1>. QED
    BY <1>1, <1>2, <1>3, <1>4, <1>5, TypeCorrect, PTL
    DEF FairSpec, Fairness, Spec, CycleGoesOn, Drains

(* Together: neither host, network, queue nor schedule brings the loop to  *)
(* a standstill, if no wait skips a slot and every page fits one.          *)
THEOREM NothingHangs ==
    ASSUME NoneSkipped, PagesFit
    PROVE  FairSpec /\ []NeverStuck /\ CountsDown(timeToCycle, Begun \/ pc = "stopped")
              => CycleGoesOn /\ Drains /\ ScheduleTakesEffect /\ Stops
  <1>. QED
    BY CycleNeverEnds, QueueDrains, ScheduleLoads, SignalEndsLoop, PTL DEF FairSpec
=============================================================================
