---------------------------- MODULE GatewayQueue ----------------------------
(***************************************************************************)
(* The gateway implements PagingQueue.  A page is pending from the moment  *)
(* parseMessage has stored it, which is when it is acknowledged, although  *)
(* it reaches m_queue only later in the loop and perhaps only after the    *)
(* connection has been recovered.                                          *)
(***************************************************************************)
EXTENDS DAPNETGateway

AdmittedMessages == {m \in Messages : Accepted(Conf, m)}

pendingBar ==
    IF netMessage # None /\ Accepted(Conf, netMessage.page)
    THEN Append(m_queue, netMessage) ELSE m_queue

Queue == INSTANCE PagingQueue WITH
    Pages     <- Messages,
    Admitted  <- AdmittedMessages,
    TimePages <- {m \in Messages : isTimeMessage(m)},
    HoldTime  <- MAX_TIME_TO_HOLD_TIME_MESSAGES,
    Nothing   <- None,
    pending   <- pendingBar,
    onAir     <- hostRx

(* "The messages are buffered by the gateway when the host is busy with    *)
(* other modes, and then sends them to the host in order once the host     *)
(* becomes idle" (README.md:3): no page that passes the lists is lost,     *)
(* doubled or overtaken between its acknowledgement and its hand-over, not *)
(* even across a reconnection, none that they hold back gets through, and  *)
(* no time message reaches the host late.                                  *)
InOrder == Queue!Spec

placeBar ==
    CASE pc \in {"backoff", "recover"} -> pc
      [] pc = "message" -> "take"
      [] OTHER -> "read"

Input == INSTANCE DAPNETInput WITH
    Pages    <- Messages,
    Nothing  <- None,
    place    <- placeBar,
    message  <- IF netMessage = None THEN None ELSE netMessage.page,
    schedule <- netSchedule # None

(* The loop takes its input in the order in which CDAPNETNetwork provides  *)
(* it (see DAPNETSession): nothing is read over a page that is not queued, *)
(* and no page is queued before its connection is recovered.               *)
TakesInput == Input!Spec
=============================================================================
