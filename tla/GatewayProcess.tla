--------------------------- MODULE GatewayProcess ---------------------------
(***************************************************************************)
(* main() and the two ends of CDAPNETGateway::run: start-up with its early *)
(* returns, shutdown, the signal handler, the restart on SIGHUP, and the   *)
(* life time of the MQTT client behind the global m_mqtt, whose library    *)
(* calls back on a thread of its own.  What happens between start-up and   *)
(* shutdown is the one place "running": see DAPNETGateway.                 *)
(*                                                                         *)
(* Every client connects to the broker under the same name, made from the  *)
(* process number, and a broker keeps one session for a name.              *)
(***************************************************************************)
EXTENDS Naturals

CONSTANT MAX_RUNS   \* bound on the calls of run(), hence on SIGHUP

ASSUME ProcessAssumption == MAX_RUNS \in Nat \ {0}

SIGHUP  == 1
SIGINT  == 2
SIGTERM == 15

(* A run has at most one MQTT client and one socket to either side; they   *)
(* go by its number.                                                       *)
Runs    == 1 .. MAX_RUNS
None    == 0            \* no signal, the null pointer, no session

VARIABLES
    pc,           \* where main() or run() is
    m_killed,
    m_signal,
    m_mqtt,       \* the client that m_mqtt points to, deleted or not
    client,       \* of each client: "unused", "failed", "live" or "deleted"
    threads,      \* the clients whose thread runs
    m_connected,  \* the clients whose m_connected is TRUE
    session,      \* the client to which the broker is connected
    hostSockets,  \* the runs whose UDP socket is open,
    dapnetSockets,\* and whose TCP socket
    badKey,       \* the runs that ended because AuthKey was not set
    runs,         \* calls of run()
    hangups       \* arrivals of SIGHUP

signalVars == <<m_killed, m_signal, hangups>>
mqttVars   == <<m_mqtt, client, threads, m_connected, session>>
socketVars == <<hostSockets, dapnetSockets, badKey>>
vars == <<pc, signalVars, mqttVars, socketVars, runs>>

Steps == {"main", "config", "mqtt", "host", "key", "dapnet", "login",
          "running", "report", "again", "finalise", "exited"}

TypeOK ==
    /\ pc \in Steps
    /\ m_killed \in BOOLEAN
    /\ m_signal \in {None, SIGHUP, SIGINT, SIGTERM}
    /\ m_mqtt \in Runs \cup {None}
    /\ client \in [Runs -> {"unused", "failed", "live", "deleted"}]
    /\ threads \in SUBSET Runs
    /\ m_connected \in SUBSET Runs
    /\ session \in Runs \cup {None}
    /\ hostSockets \in SUBSET Runs
    /\ dapnetSockets \in SUBSET Runs
    /\ badKey \in SUBSET Runs
    /\ runs \in 0 .. MAX_RUNS
    /\ hangups \in 0 .. MAX_RUNS - 1

Init ==
    /\ pc = "main"
    /\ m_killed = FALSE /\ m_signal = None /\ hangups = 0
    /\ m_mqtt = None
    /\ client = [c \in Runs |-> "unused"]
    /\ threads = {} /\ m_connected = {} /\ session = None
    /\ hostSockets = {} /\ dapnetSockets = {} /\ badKey = {}
    /\ runs = 0

Goto(here, there) == pc = here /\ pc' = there

-----------------------------------------------------------------------------
(* main(), and the start of run(). *)

(* Mutant of NewRun: the signal of the run before is kept. *)
NewRun_KeepsSignal ==
    /\ Goto("main", "config")
    /\ m_killed' = FALSE
    /\ runs' = runs + 1
    /\ UNCHANGED <<m_signal, hangups, mqttVars, socketVars>>

(* The top of main()'s loop.  A signal that came after the last look at    *)
(* m_signal is forgotten here.                                             *)
NewRun ==
    /\ Goto("main", "config")
    /\ m_signal' = None
    /\ m_killed' = FALSE
    /\ runs' = runs + 1
    /\ UNCHANGED <<hangups, mqttVars, socketVars>>

(* Mutant of ReadConfig: run() starts with a clean slate. *)
ReadConfig_Resets ==
    /\ Goto("config", "mqtt")
    /\ m_killed' = FALSE /\ m_signal' = None
    /\ UNCHANGED <<hangups, mqttVars, socketVars, runs>>

(* CConf::read, and if it says so the steps to a daemon: fork() leaves the *)
(* threads of an earlier run behind in the parent, which exits at once.    *)
ReadConfig ==
    /\ Goto("config", "mqtt")
    /\ threads' \in {threads, {}}
    /\ UNCHANGED <<signalVars, m_mqtt, client, m_connected, session, socketVars, runs>>

ReadConfigFails ==
    /\ Goto("config", "report")
    /\ UNCHANGED <<signalVars, mqttVars, socketVars, runs>>

(* A step to a daemon fails: fork() itself, or one that the child takes.   *)
DaemonFails ==
    /\ Goto("config", "report")
    /\ threads' \in {threads, {}}
    /\ UNCHANGED <<signalVars, m_mqtt, client, m_connected, session, socketVars, runs>>

(* new CMQTTConnection and open(): the client of the run before, if there  *)
(* was one, is neither closed nor deleted.                                 *)
OpenMQTT ==
    /\ Goto("mqtt", "host")
    /\ m_mqtt' = runs
    /\ client' = [client EXCEPT ![runs] = "live"]
    /\ threads' = threads \cup {runs}
    /\ UNCHANGED <<signalVars, m_connected, session, socketVars, runs>>

(* The client is deleted, and m_mqtt keeps its address. *)
OpenMQTTFails ==
    /\ Goto("mqtt", "report")
    /\ m_mqtt' = runs
    /\ client' = [client EXCEPT ![runs] = "failed"]
    /\ UNCHANGED <<signalVars, threads, m_connected, session, socketVars, runs>>

OpenHost ==
    /\ Goto("host", "key")
    /\ hostSockets' = hostSockets \cup {runs}
    /\ UNCHANGED <<signalVars, mqttVars, dapnetSockets, badKey, runs>>

(* No address, no socket, or bind() fails and the socket is closed again.  *)
OpenHostFails ==
    /\ Goto("host", "report")
    /\ UNCHANGED <<signalVars, mqttVars, socketVars, runs>>

CheckKey ==
    /\ Goto("key", "dapnet")
    /\ UNCHANGED <<signalVars, mqttVars, socketVars, runs>>

(* AuthKey is empty or the one in the example: nothing is closed.          *)
CheckKeyFails ==
    /\ Goto("key", "report")
    /\ badKey' = badKey \cup {runs}
    /\ UNCHANGED <<signalVars, mqttVars, hostSockets, dapnetSockets, runs>>

OpenDAPNET ==
    /\ Goto("dapnet", "login")
    /\ dapnetSockets' = dapnetSockets \cup {runs}
    /\ UNCHANGED <<signalVars, mqttVars, hostSockets, badKey, runs>>

OpenDAPNETFails ==
    /\ Goto("dapnet", "report")
    /\ hostSockets' = hostSockets \ {runs}
    /\ UNCHANGED <<signalVars, mqttVars, dapnetSockets, badKey, runs>>

Login ==
    /\ Goto("login", "running")
    /\ UNCHANGED <<signalVars, mqttVars, socketVars, runs>>

(* Mutant of LoginFails: only the DAPNET side is closed. *)
LoginFails_KeepsHost ==
    /\ Goto("login", "report")
    /\ dapnetSockets' = dapnetSockets \ {runs}
    /\ UNCHANGED <<signalVars, mqttVars, hostSockets, badKey, runs>>

LoginFails ==
    /\ Goto("login", "report")
    /\ hostSockets' = hostSockets \ {runs}
    /\ dapnetSockets' = dapnetSockets \ {runs}
    /\ UNCHANGED <<signalVars, mqttVars, badKey, runs>>

-----------------------------------------------------------------------------
(* The end of run(), and main() again. *)

(* while (!m_killed) ends, and both networks are closed. *)
Shutdown ==
    /\ Goto("running", "report")
    /\ m_killed
    /\ hostSockets' = hostSockets \ {runs}
    /\ dapnetSockets' = dapnetSockets \ {runs}
    /\ UNCHANGED <<signalVars, mqttVars, badKey, runs>>

(* delete gateway, and the log line about the signal. *)
Report ==
    /\ Goto("report", "again")
    /\ UNCHANGED <<signalVars, mqttVars, socketVars, runs>>

(* Mutant of Again: no restart once the loop has been told to end. *)
Again_NotKilled ==
    /\ pc = "again"
    /\ pc' = IF m_signal = SIGHUP /\ ~m_killed THEN "main" ELSE "finalise"
    /\ UNCHANGED <<signalVars, mqttVars, socketVars, runs>>

(* Mutant of Again: main() waits to be told whether to go on or to end.    *)
Again_Waits ==
    /\ pc = "again" /\ m_signal # None
    /\ pc' = IF m_signal = SIGHUP THEN "main" ELSE "finalise"
    /\ UNCHANGED <<signalVars, mqttVars, socketVars, runs>>

(* while (m_signal == 1).  The networks of a run that ended early are not  *)
(* deleted; their sockets stay open.                                       *)
Again ==
    /\ pc = "again"
    /\ pc' = IF m_signal = SIGHUP THEN "main" ELSE "finalise"
    /\ UNCHANGED <<signalVars, mqttVars, socketVars, runs>>

(* Mutant of LogFinalise: m_mqtt keeps its address. *)
LogFinalise_KeepsPointer ==
    /\ Goto("finalise", "exited")
    /\ client' = IF m_mqtt = None THEN client
                 ELSE [client EXCEPT ![m_mqtt] = "deleted"]
    /\ threads' = threads \ {m_mqtt}
    /\ m_connected' = m_connected \ {m_mqtt}
    /\ session' = IF session = m_mqtt THEN None ELSE session
    /\ UNCHANGED <<signalVars, m_mqtt, socketVars, runs>>

(* Mutant of LogFinalise: deleted while its thread runs. *)
LogFinalise_NoClose ==
    /\ Goto("finalise", "exited")
    /\ client' = IF m_mqtt = None THEN client
                 ELSE [client EXCEPT ![m_mqtt] = "deleted"]
    /\ m_mqtt' = None
    /\ UNCHANGED <<signalVars, threads, m_connected, session, socketVars, runs>>

(* CMQTTConnection::close stops the thread before the client is deleted.   *)
(* Of a client whose open() failed this is the second deletion, which is   *)
(* undefined; the process ends in any case.                                *)
LogFinalise ==
    /\ Goto("finalise", "exited")
    /\ client' = IF m_mqtt = None THEN client
                 ELSE [client EXCEPT ![m_mqtt] = "deleted"]
    /\ threads' = threads \ {m_mqtt}
    /\ m_connected' = m_connected \ {m_mqtt}
    /\ session' = IF session = m_mqtt THEN None ELSE session
    /\ m_mqtt' = None
    /\ UNCHANGED <<signalVars, socketVars, runs>>

sigHandler ==
    /\ pc \notin {"exited"}
    /\ \E signum \in {SIGHUP, SIGINT, SIGTERM} :
        /\ m_signal' = signum
        /\ signum = SIGHUP => hangups < MAX_RUNS - 1
        /\ hangups' = IF signum = SIGHUP THEN hangups + 1 ELSE hangups
    /\ m_killed' = TRUE
    /\ UNCHANGED <<pc, mqttVars, socketVars, runs>>

Terminated == pc = "exited" /\ UNCHANGED vars

-----------------------------------------------------------------------------
(* The thread of the MQTT library and the broker.  The library connects    *)
(* again whenever it has lost the broker.                                  *)

(* The broker lets go of the older session under the name. *)
onConnect(c) ==
    /\ pc # "exited"
    /\ c \in threads
    /\ session # c /\ c \notin m_connected
    /\ session' = c
    /\ m_connected' = m_connected \cup {c}
    /\ UNCHANGED <<pc, signalVars, m_mqtt, client, threads, socketVars, runs>>

onDisconnect(c) ==
    /\ pc # "exited"
    /\ c \in threads /\ c \in m_connected /\ session # c
    /\ m_connected' = m_connected \ {c}
    /\ UNCHANGED <<pc, signalVars, m_mqtt, client, threads, session, socketVars, runs>>

BrokerDrops ==
    /\ session # None
    /\ session' = None
    /\ UNCHANGED <<pc, signalVars, m_mqtt, client, threads, m_connected, socketVars, runs>>

-----------------------------------------------------------------------------
StartUp ==
    \/ ReadConfig \/ ReadConfigFails \/ DaemonFails \/ OpenMQTT \/ OpenMQTTFails
    \/ OpenHost \/ OpenHostFails \/ CheckKey \/ CheckKeyFails
    \/ OpenDAPNET \/ OpenDAPNETFails \/ Login \/ LoginFails

main == NewRun \/ Report \/ Again \/ LogFinalise

MQTT == (\E c \in Runs : onConnect(c) \/ onDisconnect(c)) \/ BrokerDrops

Process == main \/ StartUp \/ Shutdown

Next == Process \/ sigHandler \/ MQTT \/ Terminated

Spec == Init /\ [][Next]_vars

(* Nothing in main() or at either end of run() blocks for ever.  That the  *)
(* loop in between ends once m_killed is set is Stops of DAPNETGateway, on *)
(* the condition that recover() gets through: it ignores m_killed.         *)
FairSpec == Spec /\ WF_vars(Process)

(* The fairness is not asked for in vain: there is a next step for main()  *)
(* and run() wherever they stand, whatever failed before, except in a loop *)
(* that nobody has told to end.                                            *)
NeverStuck ==
    pc # "exited" /\ (pc = "running" => m_killed) => ENABLED <<Process>>_vars

-----------------------------------------------------------------------------
(* Safety. *)

(* Whichever way run() ends, the sockets of its networks are closed, so    *)
(* that a restart finds the port free and DAPNET sees one gateway.  The    *)
(* return for a key that is not set is the exception, and leaves the host's*)
(* socket open only.                                                       *)
SocketsReleased ==
    LET active == IF pc \in {"host", "key", "dapnet", "login", "running"}
                  THEN {runs} ELSE {}
    IN  hostSockets \subseteq active \cup badKey /\ dapnetSockets \subseteq active

(* While m_mqtt is not null the client behind it has not been deleted, for *)
(* Log and LogFinalise use it without asking more; unless open() failed.   *)
MQTTAlive ==
    m_mqtt # None /\ client[m_mqtt] # "failed" => client[m_mqtt] = "live"

(* The library's thread is stopped before a client is deleted: none of the *)
(* callbacks can meet a deleted client, and the broker has let go of it.   *)
NoCallbackAfterDelete ==
    \A c \in Runs : client[c] \in {"failed", "deleted"} =>
                          c \notin threads \cup m_connected /\ c # session

(* "if (m_mqtt != nullptr)" (Log.cpp:52, 85, 99): the test that guards      *)
(* every use of the client by the log and its deletion takes a client that *)
(* is not null for one that exists.                                        *)
GuardIsEnough == m_mqtt # None => client[m_mqtt] = "live"

(* Liveness: a signal is obeyed wherever in start-up, loop or shutdown it  *)
(* arrives, except after the look at m_signal that ends a turn of main()'s *)
(* loop: then it is forgotten, or comes too late to restart anything.      *)
Pending(signum) == m_signal = signum /\ pc \notin {"main", "finalise", "exited"}

TerminationObeyed ==
    Pending(SIGINT) \/ Pending(SIGTERM) ~> pc = "exited" \/ m_signal = SIGHUP

HangupObeyed ==
    \A n \in Runs :
        Pending(SIGHUP) /\ runs = n
            ~> runs = n + 1 \/ m_signal \in {SIGINT, SIGTERM}
=============================================================================
