--------------------------- MODULE DAPNETGateway ---------------------------
(***************************************************************************)
(* The main loop of CDAPNETGateway::run: poll the MMDVM host for its       *)
(* status, poll DAPNET for a page or a schedule, queue the page, notice    *)
(* the start of a slot, hand at most one page to the host, sleep.          *)
(*                                                                         *)
(* Time is in milliseconds and passes only where the code waits: in        *)
(* CThread::sleep at the end of the loop, in the sleep after a failed      *)
(* login, in the attempts of recover(), and for a moment (StepTimes)       *)
(* between the reading of the clock and the test of the schedule.  The     *)
(* wall clock, which gives the slots, may be set at any time; the slot     *)
(* timer and the ages of the pages run on a clock that cannot be.          *)
(***************************************************************************)
EXTENDS Airtime, MessageFilter, Sequences

CONSTANTS
    None,           \* the null pointer
    SLOTS,          \* slots in a cycle, 16 in the program
    Messages,       \* pages [ric, body, type, functional, length]
    XTimeBodies,    \* the texts that begin with "XTIME="
    Conf,           \* the configured lists, see MessageFilter
    Schedules,      \* the schedules DAPNET may announce
    MAX_TIME_TO_HOLD_TIME_MESSAGES,
    StartOffsets,   \* how far into a slot the program may be started
    SleepTimes,     \* how long CThread::sleep(10) may take
    OutageTimes,    \* how long an attempt to reconnect or a backoff may take
    StepTimes,      \* how long the loop may take from slot check to sending
    SetOffsets,     \* how far into a slot the clock may be set; {}: never
    MaxQueue,       \* bound on the pages that wait
    MaxMissed,      \* bound on missed, see below
    AIR_CAP         \* bound on the backlog of the host; 0: not observed

Slots == 0 .. SLOTS - 1

(* A page and the reading of its m_timeQueued, up to the longest time that *)
(* anything is compared with.                                              *)
Ages    == 0 .. MAX_TIME_TO_HOLD_TIME_MESSAGES
Entries == [page : Messages, age : Ages]

ASSUME GatewayAssumption ==
    /\ SLOTS \in Nat \ {0, 1}
    /\ SLOT_TIME_MS > 0 /\ CODEWORDS_PER_SLOT > 0
    /\ \A m \in Messages : m.functional \in 0 .. 3 /\ m.length \in Nat \ {0}
    /\ None \notin Messages /\ None \notin Entries
    /\ Schedules \subseteq SUBSET Slots
    /\ \A schedule \in SUBSET Slots : None # schedule
    /\ MAX_TIME_TO_HOLD_TIME_MESSAGES \in Nat
    /\ StartOffsets \subseteq 0 .. SLOT_TIME_MS - 1
    /\ SleepTimes \subseteq 1 .. SLOT_TIME_MS /\ SleepTimes # {}
    /\ OutageTimes \subseteq 0 .. SLOT_TIME_MS /\ 0 \in OutageTimes
    /\ StepTimes \subseteq 0 .. SLOT_TIME_MS /\ 0 \in StepTimes
    /\ SetOffsets \subseteq 0 .. SLOT_TIME_MS - 1
    /\ MaxQueue \in Nat
    /\ MaxMissed \in Nat \ {0} /\ (MaxMissed = 1 => StepTimes = {0})
    /\ AIR_CAP \in Nat

VARIABLES
    pc,               \* where run() is
    m_killed,
    m_mmdvmFree,
    m_queue,          \* oldest page first: push_front appends, back() is Head
    m_slotTimer,      \* its elapsed(), up to ELAPSED_CAP
    m_schedule,       \* the set of the slots that are TRUE, or None
    m_allSlots,
    m_currentSlot,
    m_sentCodewords,
    netMessage,       \* CDAPNETNetwork::m_message
    netSchedule,      \* CDAPNETNetwork::m_schedule
    wallSlot,         \* the clock: number of the slot,
    offset,           \* milliseconds into it
    hostRx,           \* the last page that reached the host
    airLeft,          \* milliseconds of pages the host still has to send
    missed,           \* slot boundaries and settings of the clock since the
                      \* last slot check
    stepped,          \* the clock was set since a new slot was last noticed
    slotWords,        \* codewords handed over under the budget since the clock
                      \* has come to show wallSlot, or was set
    uncounted         \* TRUE when m_sentCodewords lost count of slotWords

loopVars    == <<m_mmdvmFree, m_allSlots, m_currentSlot, m_sentCodewords>>
networkVars == <<netMessage, netSchedule>>
clockVars   == <<wallSlot, offset, m_slotTimer, missed, stepped>>
hostVars    == <<hostRx, airLeft, slotWords, uncounted>>
vars == <<pc, m_killed, m_queue, m_schedule, loopVars, networkVars, clockVars, hostVars>>

(* elapsed() of a slot timer that has run for more than a slot: every such *)
(* reading makes timeLeft wrap and fills the budget.                       *)
ELAPSED_CAP == SLOT_TIME_MS + 1

AtMost(cap, n) == IF n > cap THEN cap ELSE n

Steps == {"pocsag", "dapnet", "backoff", "recover", "message", "slot",
          "send", "sleep", "stopped"}

TypeOK ==
    /\ pc \in Steps
    /\ m_killed \in BOOLEAN
    /\ m_mmdvmFree \in BOOLEAN
    /\ m_queue \in Seq(Entries)
    /\ m_slotTimer \in 0 .. ELAPSED_CAP
    /\ m_schedule \in (SUBSET Slots) \cup {None}
    /\ m_allSlots \in BOOLEAN
    /\ m_currentSlot \in Slots
    /\ m_sentCodewords \in Nat
    /\ netMessage \in Entries \cup {None}
    /\ netSchedule \in (SUBSET Slots) \cup {None}
    /\ wallSlot \in Slots
    /\ offset \in 0 .. SLOT_TIME_MS - 1
    /\ hostRx \in Messages \cup {None}
    /\ airLeft \in 0 .. AIR_CAP
    /\ missed \in 0 .. MaxMissed
    /\ stepped \in BOOLEAN
    /\ slotWords \in Nat
    /\ uncounted \in BOOLEAN

(* CDAPNETGateway::CDAPNETGateway, and the start of run() with both        *)
(* networks open.  m_slotTimer has not been started: its m_startMS is zero *)
(* and elapsed() is the uptime of the machine.                             *)
Init ==
    /\ pc = "pocsag"
    /\ m_killed = FALSE
    /\ m_mmdvmFree = FALSE
    /\ m_queue = <<>>
    /\ m_slotTimer = ELAPSED_CAP
    /\ m_schedule = None
    /\ m_allSlots = FALSE
    /\ m_currentSlot = 0
    /\ m_sentCodewords = 0
    /\ netMessage = None
    /\ netSchedule = None
    /\ wallSlot \in Slots
    /\ offset \in StartOffsets
    /\ hostRx = None
    /\ airLeft = 0
    /\ missed = 0
    /\ stepped = FALSE
    /\ slotWords = 0
    /\ uncounted = FALSE

-----------------------------------------------------------------------------
(* The passing of time. *)

Crosses(d) == offset + d >= SLOT_TIME_MS

Aged(entry, d) ==
    [entry EXCEPT !.age = AtMost(MAX_TIME_TO_HOLD_TIME_MESSAGES, @ + d)]

(* d milliseconds go by; the slot timer reads timer and the last slot      *)
(* check was boundaries ago when they begin.  d is at most a slot.         *)
ElapseFrom(d, timer, boundaries) ==
    /\ Crosses(d) => boundaries < MaxMissed
    /\ offset'      = IF Crosses(d) THEN offset + d - SLOT_TIME_MS ELSE offset + d
    /\ wallSlot'    = IF ~Crosses(d)           THEN wallSlot
                      ELSE IF wallSlot = SLOTS - 1 THEN 0 ELSE wallSlot + 1
    /\ missed'      = IF Crosses(d) THEN boundaries + 1 ELSE boundaries
    /\ slotWords'   = IF Crosses(d) THEN 0 ELSE slotWords
    /\ uncounted'   = (uncounted /\ ~Crosses(d))
    /\ m_slotTimer' = AtMost(ELAPSED_CAP, timer + d)
    /\ airLeft'     = IF airLeft > d THEN airLeft - d ELSE 0
    /\ m_queue'     = [i \in DOMAIN m_queue |-> Aged(m_queue[i], d)]
    /\ netMessage'  = IF netMessage = None THEN None ELSE Aged(netMessage, d)

Elapse(d) == ElapseFrom(d, m_slotTimer, missed) /\ UNCHANGED stepped

(* CStopWatch::time() reads the clock of the day, elapsed() a monotonic    *)
(* one: only the former can be set.                                        *)
ClockSet ==
    /\ missed < MaxMissed
    /\ wallSlot' \in Slots
    /\ offset' \in SetOffsets
    /\ missed' = missed + 1
    /\ stepped' = TRUE
    /\ slotWords' = 0 /\ uncounted' = FALSE
    /\ UNCHANGED <<pc, m_killed, m_queue, m_schedule, loopVars, networkVars,
                   m_slotTimer, hostRx, airLeft>>

-----------------------------------------------------------------------------
(* CPOCSAGNetwork::read and the switch on its first byte.  The loop has    *)
(* just found m_killed clear.                                              *)

(* Mutant of Poll: the loop condition is not evaluated. *)
Poll_Forever == pc = "pocsag" /\ pc' = "dapnet"

Poll == pc = "pocsag" /\ ~m_killed /\ pc' = "dapnet"

(* Mutant of HostIdle: what is left of the slot instead of what is gone.   *)
HostIdle_Left ==
    /\ Poll
    /\ m_mmdvmFree' = TRUE
    /\ m_sentCodewords' = CODEWORDS_PER_SLOT - elapsedCodewords(m_slotTimer)
    /\ UNCHANGED <<m_killed, m_queue, m_schedule, m_allSlots, m_currentSlot,
                   networkVars, clockVars, hostVars>>

(* 0x00: the host has become idle.  What is already gone of the slot is    *)
(* taken for sent, whatever had been sent in it.                           *)
HostIdle ==
    /\ Poll
    /\ ~m_mmdvmFree
    /\ m_mmdvmFree' = TRUE
    /\ m_sentCodewords' = elapsedCodewords(m_slotTimer)
    /\ uncounted' = (uncounted \/ m_sentCodewords' < slotWords)
    /\ UNCHANGED <<m_killed, m_queue, m_schedule, m_allSlots, m_currentSlot,
                   networkVars, clockVars, hostRx, airLeft, slotWords>>

(* 0xFF: the host is busy with another mode. *)
HostBusy ==
    /\ Poll
    /\ m_mmdvmFree' = FALSE
    /\ UNCHANGED <<m_killed, m_queue, m_schedule, m_allSlots, m_currentSlot,
                   m_sentCodewords, networkVars, clockVars, hostVars>>

(* No datagram, one from another address or one with another first byte,   *)
(* or 0x00 when the host is already free.                                  *)
HostSilent ==
    /\ Poll
    /\ UNCHANGED <<m_killed, m_queue, m_schedule, loopVars, networkVars,
                   clockVars, hostVars>>

-----------------------------------------------------------------------------
(* CDAPNETNetwork::read and recover().  A read fails when the socket does  *)
(* or when the answer cannot be written; what it stored stays stored.      *)

ReadReturns(ok) == pc' = IF ok THEN "message" ELSE "recover"

(* Nothing, an acknowledgement, a time synchronisation or anything else    *)
(* that stores nothing.                                                    *)
ReadOther ==
    /\ pc = "dapnet"
    /\ \E ok \in BOOLEAN : ReadReturns(ok)
    /\ UNCHANGED <<m_killed, m_queue, m_schedule, loopVars, networkVars,
                   clockVars, hostVars>>

(* parseMessage *)
ReadMessage ==
    /\ pc = "dapnet"
    /\ Len(m_queue) < MaxQueue
    /\ \E m \in Messages : netMessage' = [page |-> m, age |-> 0]
    /\ \E ok \in BOOLEAN : ReadReturns(ok)
    /\ UNCHANGED <<m_killed, m_queue, m_schedule, loopVars, netSchedule,
                   clockVars, hostVars>>

(* parseSchedule *)
ReadSchedule ==
    /\ pc = "dapnet"
    /\ netSchedule' \in Schedules
    /\ \E ok \in BOOLEAN : ReadReturns(ok)
    /\ UNCHANGED <<m_killed, m_queue, m_schedule, loopVars, netMessage,
                   clockVars, hostVars>>

(* parseFailedLogin goes to sleep, ... *)
ReadFailedLogin ==
    /\ pc = "dapnet"
    /\ pc' = "backoff"
    /\ UNCHANGED <<m_killed, m_queue, m_schedule, loopVars, networkVars,
                   clockVars, hostVars>>

(* ... for seconds or minutes ... *)
BackoffSleep ==
    /\ pc = "backoff"
    /\ \E d \in OutageTimes : Elapse(d)
    /\ UNCHANGED <<pc, m_killed, m_schedule, loopVars, netSchedule, hostRx>>

(* ... and acknowledges the failure. *)
BackoffOver ==
    /\ pc = "backoff"
    /\ \E ok \in BOOLEAN : ReadReturns(ok)
    /\ UNCHANGED <<m_killed, m_queue, m_schedule, loopVars, networkVars,
                   clockVars, hostVars>>

(* recover(): close, open and login fail, and are tried again; m_killed is *)
(* not looked at.                                                          *)
RecoverFails ==
    /\ pc = "recover"
    /\ \E d \in OutageTimes : Elapse(d)
    /\ UNCHANGED <<pc, m_killed, m_schedule, loopVars, netSchedule, hostRx>>

(* Mutant of RecoverSucceeds: the loop begins the read again. *)
RecoverSucceeds_ReadsAgain ==
    /\ pc = "recover"
    /\ pc' = "dapnet"
    /\ UNCHANGED <<m_killed, m_queue, m_schedule, loopVars, networkVars,
                   clockVars, hostVars>>

RecoverSucceeds ==
    /\ pc = "recover"
    /\ pc' = "message"
    /\ UNCHANGED <<m_killed, m_queue, m_schedule, loopVars, networkVars,
                   clockVars, hostVars>>

-----------------------------------------------------------------------------
(* CDAPNETNetwork::readMessage, the filter and m_queue.push_front. *)

(* Mutant of QueueMessage: pushed at the end it is taken from. *)
QueueMessage_PushBack ==
    /\ pc = "message"
    /\ pc' = "slot"
    /\ netMessage' = None
    /\ m_queue' = IF netMessage # None /\ Accepted(Conf, netMessage.page)
                  THEN <<netMessage>> \o m_queue ELSE m_queue
    /\ UNCHANGED <<m_killed, m_schedule, loopVars, netSchedule, clockVars, hostVars>>

QueueMessage ==
    /\ pc = "message"
    /\ pc' = "slot"
    /\ netMessage' = None
    /\ m_queue' = IF netMessage # None /\ Accepted(Conf, netMessage.page)
                  THEN Append(m_queue, netMessage) ELSE m_queue
    /\ UNCHANGED <<m_killed, m_schedule, loopVars, netSchedule, clockVars, hostVars>>

-----------------------------------------------------------------------------
(* The slot check. *)

(* readSchedule and loadSchedule *)
loadSchedule ==
    IF netSchedule = None
    THEN UNCHANGED <<m_schedule, m_allSlots, netSchedule>>
    ELSE /\ m_schedule' = netSchedule
         /\ m_allSlots' = (netSchedule = Slots)
         /\ netSchedule' = None

(* Mutant of MayLoad: only the first schedule is ever taken over. *)
MayLoad_FirstOnly == m_schedule = None

(* A schedule is replaced at the start of a cycle only. *)
MayLoad == m_schedule = None \/ wallSlot = 0

(* Mutant of StartSlot: the slot timer is not started again. *)
StartSlot_KeepsTimer ==
    /\ pc = "slot"
    /\ wallSlot # m_currentSlot
    /\ pc' = "send"
    /\ m_currentSlot' = wallSlot
    /\ IF MayLoad THEN loadSchedule
                  ELSE UNCHANGED <<m_schedule, m_allSlots, netSchedule>>
    /\ m_sentCodewords' = 0
    /\ \E d \in StepTimes : ElapseFrom(d, m_slotTimer, 0)
    /\ stepped' = FALSE
    /\ UNCHANGED <<m_killed, m_mmdvmFree, hostRx>>

(* Mutant of StartSlot: the count of the slot before is kept. *)
StartSlot_KeepsCount ==
    /\ pc = "slot"
    /\ wallSlot # m_currentSlot
    /\ pc' = "send"
    /\ m_currentSlot' = wallSlot
    /\ IF MayLoad THEN loadSchedule
                  ELSE UNCHANGED <<m_schedule, m_allSlots, netSchedule>>
    /\ \E d \in StepTimes : ElapseFrom(d, 0, 0)
    /\ stepped' = FALSE
    /\ UNCHANGED <<m_killed, m_mmdvmFree, m_sentCodewords, hostRx>>

StartSlot ==
    /\ pc = "slot"
    /\ wallSlot # m_currentSlot
    /\ pc' = "send"
    /\ m_currentSlot' = wallSlot
    /\ IF MayLoad THEN loadSchedule
                  ELSE UNCHANGED <<m_schedule, m_allSlots, netSchedule>>
    /\ m_sentCodewords' = 0
    /\ \E d \in StepTimes : ElapseFrom(d, 0, 0)
    /\ stepped' = FALSE
    /\ UNCHANGED <<m_killed, m_mmdvmFree, hostRx>>

SameSlot ==
    /\ pc = "slot"
    /\ wallSlot = m_currentSlot
    /\ pc' = "send"
    /\ \E d \in StepTimes : ElapseFrom(d, m_slotTimer, 0)
    /\ UNCHANGED <<m_killed, m_schedule, loopVars, netSchedule, stepped, hostRx>>

-----------------------------------------------------------------------------
(* sendMessages: the oldest page, if host, schedule and slot allow it. *)

isTimeMessage(m) ==
    \/ m.type = 5 /\ m.functional = FUNCTIONAL_NUMERIC
    \/ m.type = 6 /\ m.functional = FUNCTIONAL_ALPHANUMERIC /\ m.body \in XTimeBodies

(* sendMessage drops a time message that has waited for too long. *)
Stale(entry) == isTimeMessage(entry.page) /\ entry.age >= MAX_TIME_TO_HOLD_TIME_MESSAGES

(* Mutant of totalCodewords: the pages before this one are forgotten. *)
totalCodewords_Alone(m) ==
    PREAMBLE_LENGTH_CODEWORDS + calculateCodewords(m.functional, m.length)

pageWords(m) == calculateCodewords(m.functional, m.length)
totalCodewords(m) == m_sentCodewords + PREAMBLE_LENGTH_CODEWORDS + pageWords(m)

(* Mutant of SlotOpen: the schedule is not looked up. *)
SlotOpen_AnySlot == m_mmdvmFree /\ m_schedule # None

SlotOpen == m_mmdvmFree /\ m_schedule # None /\ m_currentSlot \in m_schedule

(* Mutant of FitsInSlot: the codewords already sent are not looked at. *)
FitsInSlot_TimeOnly(m) == sendTime(pageWords(m)) < timeLeft(m_slotTimer)

(* Mutant of FitsInSlot: the time is not looked at. *)
FitsInSlot_BudgetOnly(m) == totalCodewords(m) < CODEWORDS_PER_SLOT

FitsInSlot(m) ==
    /\ totalCodewords(m) < CODEWORDS_PER_SLOT
    /\ sendTime(pageWords(m)) < timeLeft(m_slotTimer)

(* CPOCSAGNetwork::write: its result is ignored, the datagram may be lost. *)
Write(m) ==
    /\ hostRx' \in {m, hostRx}
    /\ airLeft' = AtMost(AIR_CAP, airLeft + sendTime(pageWords(m)))

Drop == UNCHANGED <<hostRx, airLeft>>

(* Every slot is ours: neither budget nor time is looked at. *)
SendAnySlot ==
    /\ pc = "send"
    /\ SlotOpen /\ m_queue # <<>>
    /\ m_allSlots
    /\ IF Stale(Head(m_queue)) THEN Drop ELSE Write(Head(m_queue).page)
    /\ m_queue' = Tail(m_queue)
    /\ pc' = "sleep"
    /\ UNCHANGED <<m_killed, m_schedule, loopVars, networkVars, clockVars,
                   slotWords, uncounted>>

SendInSlot ==
    /\ pc = "send"
    /\ SlotOpen /\ m_queue # <<>>
    /\ ~m_allSlots
    /\ LET entry == Head(m_queue)
       IN  /\ FitsInSlot(entry.page)
           /\ IF Stale(entry)
              THEN Drop /\ UNCHANGED <<m_sentCodewords, slotWords, uncounted>>
              ELSE /\ Write(entry.page)
                   /\ m_sentCodewords' = totalCodewords(entry.page)
                   /\ slotWords' = slotWords + PREAMBLE_LENGTH_CODEWORDS
                                             + pageWords(entry.page)
                   /\ uncounted' = (uncounted \/ missed > 0)
    /\ m_queue' = Tail(m_queue)
    /\ pc' = "sleep"
    /\ UNCHANGED <<m_killed, m_schedule, m_mmdvmFree, m_allSlots, m_currentSlot,
                   networkVars, clockVars>>

(* Mutant of SendNothing: a page that does not fit is waited for. *)
SendNothing_Waits ==
    /\ pc = "send"
    /\ ~SlotOpen \/ m_queue = <<>>
    /\ pc' = "sleep"
    /\ UNCHANGED <<m_killed, m_queue, m_schedule, loopVars, networkVars,
                   clockVars, hostVars>>

(* Mutant of SendNothing: the loop goes on without its sleep. *)
SendNothing_NoSleep ==
    /\ pc = "send"
    /\ \/ ~SlotOpen
       \/ m_queue = <<>>
       \/ m_queue # <<>> /\ ~m_allSlots /\ ~FitsInSlot(Head(m_queue).page)
    /\ pc' = "pocsag"
    /\ UNCHANGED <<m_killed, m_queue, m_schedule, loopVars, networkVars,
                   clockVars, hostVars>>

SendNothing ==
    /\ pc = "send"
    /\ \/ ~SlotOpen
       \/ m_queue = <<>>
       \/ m_queue # <<>> /\ ~m_allSlots /\ ~FitsInSlot(Head(m_queue).page)
    /\ pc' = "sleep"
    /\ UNCHANGED <<m_killed, m_queue, m_schedule, loopVars, networkVars,
                   clockVars, hostVars>>

-----------------------------------------------------------------------------
(* CThread::sleep(10U), the loop condition and the signal handler. *)

Sleep ==
    /\ pc = "sleep"
    /\ pc' = "pocsag"
    /\ \E d \in SleepTimes : Elapse(d)
    /\ UNCHANGED <<m_killed, m_schedule, loopVars, netSchedule, hostRx>>

Stop ==
    /\ pc = "pocsag"
    /\ m_killed
    /\ pc' = "stopped"
    /\ UNCHANGED <<m_killed, m_queue, m_schedule, loopVars, networkVars,
                   clockVars, hostVars>>

(* A signal may arrive anywhere in the loop. *)
sigHandler ==
    /\ pc # "stopped"
    /\ ~m_killed
    /\ m_killed' = TRUE
    /\ UNCHANGED <<pc, m_queue, m_schedule, loopVars, networkVars, clockVars, hostVars>>

(* run() has returned. *)
Terminated == pc = "stopped" /\ UNCHANGED vars

PollHost == HostIdle \/ HostBusy \/ HostSilent
ReadNetwork ==
    \/ ReadOther \/ ReadMessage \/ ReadSchedule \/ ReadFailedLogin
    \/ BackoffSleep \/ BackoffOver \/ RecoverFails \/ RecoverSucceeds
CheckSlot == StartSlot \/ SameSlot
sendMessages == SendAnySlot \/ SendInSlot \/ SendNothing

Next ==
    \/ PollHost \/ ReadNetwork \/ QueueMessage \/ CheckSlot \/ sendMessages
    \/ Sleep \/ Stop \/ sigHandler \/ ClockSet \/ Terminated

Spec == Init /\ [][Next]_vars

-----------------------------------------------------------------------------
(* Safety. *)

(* The sum sendMessages keeps in m_sentCodewords keeps the pages of a slot *)
(* below what the slot can carry, by the clock and not by the loop's own   *)
(* notion of a slot: late slot checks, outages, rejected pages and settings*)
(* of the clock do not matter.  uncounted names the two ways in which the  *)
(* count is lost.                                                          *)
SlotBudget == ~uncounted => slotWords < CODEWORDS_PER_SLOT

(* As long as no wait is as long as a cycle of slots, the slot timer that  *)
(* sendMessages reads never claims more than has gone of the current slot, *)
(* so SLOT_TIME_MS - elapsed() does not wrap; and if the clock is set, it  *)
(* is so again from the next slot that the loop notices.                   *)
SlotTimerHonest ==
    pc = "send" /\ m_schedule # None /\ missed = 0 /\ ~stepped => m_slotTimer <= offset

previousSlot == IF wallSlot = 0 THEN SLOTS - 1 ELSE wallSlot - 1

(* A page leaves the queue only while the host is free and the schedule    *)
(* gives us the slot that the clock shows.  If that slot began after the   *)
(* slot check, it may be somebody else's; but then the one before it was   *)
(* ours (unless the clock was set), and no page was handed over in it yet: *)
(* one page strays, and a second never follows before the loop has noticed *)
(* the slot.                                                               *)
OnlyInScheduledSlot ==
    [][ Len(m_queue') < Len(m_queue)
        => /\ m_mmdvmFree
           /\ m_schedule # None
           /\ missed = 0 => wallSlot \in m_schedule
           /\ missed > 0 => /\ slotWords = 0
                            /\ stepped \/ previousSlot \in m_schedule ]_vars

(* A host that, once it is free, is never busy with another mode again. *)
SteadyNext == Next /\ (m_mmdvmFree => m_mmdvmFree')
SteadySpec == Init /\ [][SteadyNext]_vars

(* With a steady host, no delay between slot check and sending, a clock    *)
(* that is not set and schedules that leave a slot to others, what is      *)
(* handed over in a slot may still be on the air in the next one (see      *)
(* EndsInSlot) but never in the one after that: what slots in a row        *)
(* overrun by does not add up.                                             *)
SpillsIntoOneSlot == airLeft + offset < 2 * SLOT_TIME_MS

(* What the time test does guarantee: a page that finds the host with      *)
(* nothing left to send overruns the slot by no more than the delay with   *)
(* which the loop noticed the slot.                                        *)
LonePageEndsInSlot ==
    [][ ~m_allSlots /\ airLeft = 0 /\ airLeft' > 0 /\ missed = 0 /\ ~stepped
        => LET late == offset - m_slotTimer
           IN  offset + airLeft' < SLOT_TIME_MS + late ]_vars

-----------------------------------------------------------------------------
(* What a comment of the code says, and the code does not do. *)

(* "Is there enough time to send it in this slot before it ends?" (line    *)
(* 494): a page that passes the test has left the host by the end of the   *)
(* slot.                                                                   *)
EndsInSlot ==
    [][ ~m_allSlots /\ airLeft' > airLeft /\ missed = 0
        => offset + airLeft' <= SLOT_TIME_MS ]_vars

-----------------------------------------------------------------------------
(* Liveness.  The loop never blocks: each of its steps is taken, the sleep *)
(* after a failed login ends, and recover() gets through in the end.       *)

Loop ==
    PollHost \/ ReadNetwork \/ QueueMessage \/ CheckSlot \/ sendMessages \/ Sleep \/ Stop

Fairness ==
    /\ WF_vars(Loop)
    /\ WF_vars(BackoffOver)
    /\ WF_vars(RecoverSucceeds)

FairSpec == Spec /\ Fairness

(* The fairness is not asked for in vain: wherever the loop stands there   *)
(* is a step for it, the backoff can end and recover() get through.  No    *)
(* state of the host, the queue, the schedule or the network leaves run()  *)
(* without a way on.                                                       *)
NeverStuck ==
    /\ pc # "stopped" => ENABLED <<Loop>>_vars
    /\ pc = "backoff" => ENABLED <<BackoffOver>>_vars
    /\ pc = "recover" => ENABLED <<RecoverSucceeds>>_vars

(* The host is free and some slot is ours. *)
Usable == m_mmdvmFree /\ m_schedule \notin {None, {}}

Popped == Len(m_queue') < Len(m_queue)

Notices(slot) == StartSlot /\ wallSlot = slot
NoticesOurs   == StartSlot /\ m_schedule' # None /\ wallSlot \in m_schedule'

(* As long as the loop runs it notices the start of the cycle and, once    *)
(* the schedule stays usable, slots of ours again and again, provided no   *)
(* wait skips a slot.                                                      *)
CycleGoesOn ==
    \/ <>(pc = "stopped")
    \/ /\ []<><<Notices(0)>>_vars
       /\ <>[]Usable => []<><<NoticesOurs>>_vars

(* No page is stuck: once the host stays free and the schedule usable, the *)
(* queue keeps moving for as long as there is something in it.             *)
Drains ==
    <>[]Usable => \/ []<><<Popped>>_vars
                  \/ []<>(m_queue = <<>>)
                  \/ <>(pc = "stopped")

(* A schedule that was received is in force at last, however often the     *)
(* connection is lost, provided no wait skips a slot.                      *)
ScheduleTakesEffect == netSchedule # None ~> netSchedule = None \/ pc = "stopped"

(* A signal ends the loop, even while the connection is being recovered.   *)
Stops == m_killed ~> pc = "stopped"
=============================================================================
