------------------------ MODULE GatewayProcessProofs ------------------------
(***************************************************************************)
(* The safety properties of GatewayProcess, for any number of restarts.    *)
(***************************************************************************)
EXTENDS GatewayProcess, TLAPS

(* A run beyond the first needs a SIGHUP of its own, which is why the      *)
(* handler's bound on them bounds the runs.                                *)
RunsCounted ==
    /\ runs <= hangups + 1
    /\ pc = "main" \/ m_signal = SIGHUP => runs <= hangups
    /\ pc # "main" => runs # 0

(* The client of a run that has not come to open it is untouched. *)
ClientsFresh ==
    \A c \in Runs :
        c > runs \/ (c = runs /\ pc \in {"config", "mqtt"}) => client[c] = "unused"

ClientReachable == m_mqtt # None => client[m_mqtt] \in {"failed", "live"}

(* Only a live client has a thread, a flag that its thread has set, and a  *)
(* session at the broker.                                                  *)
ThreadsLive ==
    \A c \in Runs : client[c] # "live" =>
                          c \notin threads \cup m_connected /\ c # session

(* What is open at each place of run(), and not only between start-up and  *)
(* shutdown.                                                               *)
HostOpenAt   == {"key", "dapnet", "login", "running"}
DAPNETOpenAt == {"login", "running"}

SocketsAtPlace ==
    /\ hostSockets \subseteq (IF pc \in HostOpenAt THEN {runs} ELSE {}) \cup badKey
    /\ dapnetSockets \subseteq (IF pc \in DAPNETOpenAt THEN {runs} ELSE {})

ProcessInv ==
    /\ TypeOK /\ RunsCounted
    /\ ClientsFresh /\ ClientReachable /\ ThreadsLive
    /\ SocketsAtPlace

LEMMA ProcessInvInit == Init => ProcessInv
<1> SUFFICES ASSUME Init PROVE ProcessInv
    OBVIOUS
<1> USE ProcessAssumption DEF ProcessAssumption
<1>1. TypeOK
  <2>1. runs \in 0 .. MAX_RUNS /\ hangups \in 0 .. MAX_RUNS - 1
      BY DEF Init
  <2>2. client \in [Runs -> {"unused", "failed", "live", "deleted"}]
      BY DEF Init
  <2> QED
      BY <2>1, <2>2 DEF Init, TypeOK, Steps, None
<1>2. RunsCounted
    BY DEF Init, RunsCounted, SIGHUP, None
<1>3. ClientsFresh /\ ClientReachable /\ ThreadsLive
    BY DEF Init, ClientsFresh, ClientReachable, ThreadsLive, Runs, None
<1>4. SocketsAtPlace
    BY DEF Init, SocketsAtPlace, HostOpenAt, DAPNETOpenAt
<1> QED
    BY <1>1, <1>2, <1>3, <1>4 DEF ProcessInv

(* In every run there is a number for its client. *)
LEMMA RunNumber ==
    ASSUME ProcessInv, pc # "main"
    PROVE  runs \in Runs
BY ProcessAssumption DEF ProcessAssumption, ProcessInv, TypeOK, RunsCounted, Runs

LEMMA TypeStep ==
    ASSUME ProcessInv, [Next]_vars
    PROVE  TypeOK'
<1> USE ProcessAssumption DEF ProcessAssumption, ProcessInv
<1> TypeOK /\ RunsCounted
    OBVIOUS
<1>1. CASE NewRun
  <2>1. runs' \in 0 .. MAX_RUNS
      BY <1>1 DEF NewRun, Goto, TypeOK, RunsCounted
  <2> QED
      BY <1>1, <2>1 DEF NewRun, Goto, TypeOK, Steps, mqttVars, socketVars
<1>2. CASE StartUp
  <2>0. runs \in Runs
      BY <1>2, RunNumber
         DEF StartUp, ReadConfig, ReadConfigFails, DaemonFails, OpenMQTT, OpenMQTTFails,
             OpenHost,
             OpenHostFails, CheckKey, CheckKeyFails, OpenDAPNET, OpenDAPNETFails,
             Login, LoginFails, Goto
  <2> USE DEF Goto, TypeOK, Steps, signalVars, mqttVars, socketVars
  <2>1. CASE ReadConfig \/ ReadConfigFails \/ DaemonFails
      BY <2>1 DEF ReadConfig, ReadConfigFails, DaemonFails
  <2>2. CASE OpenMQTT \/ OpenMQTTFails
      BY <2>0, <2>2 DEF OpenMQTT, OpenMQTTFails
  <2>3. CASE OpenHost \/ OpenHostFails \/ CheckKey \/ CheckKeyFails
      BY <2>0, <2>3 DEF OpenHost, OpenHostFails, CheckKey, CheckKeyFails
  <2>4. CASE OpenDAPNET \/ OpenDAPNETFails \/ Login \/ LoginFails
      BY <2>0, <2>4 DEF OpenDAPNET, OpenDAPNETFails, Login, LoginFails
  <2> QED
      BY <1>2, <2>1, <2>2, <2>3, <2>4 DEF StartUp
<1>3. CASE Shutdown \/ Report \/ Again
    BY <1>3 DEF Shutdown, Report, Again, Goto, TypeOK, Steps,
                signalVars, mqttVars, socketVars
<1>4. CASE LogFinalise
    BY <1>4 DEF LogFinalise, Goto, TypeOK, Steps, signalVars, socketVars, Runs, None
<1>5. CASE sigHandler
    BY <1>5 DEF sigHandler, TypeOK, mqttVars, socketVars
<1>6. CASE MQTT
    BY <1>6 DEF MQTT, onConnect, onDisconnect, BrokerDrops, TypeOK, signalVars, socketVars
<1>7. CASE Terminated \/ UNCHANGED vars
    BY <1>7 DEF Terminated, vars, TypeOK, signalVars, mqttVars, socketVars
<1> QED
    BY <1>1, <1>2, <1>3, <1>4, <1>5, <1>6, <1>7 DEF Next, Process, main

LEMMA RunsCountedStep ==
    ASSUME ProcessInv, [Next]_vars
    PROVE  RunsCounted'
<1> USE ProcessAssumption DEF ProcessAssumption, ProcessInv, TypeOK, RunsCounted, SIGHUP
<1>1. CASE NewRun
    BY <1>1 DEF NewRun, Goto, None
<1>2. CASE StartUp
    BY <1>2 DEF StartUp, ReadConfig, ReadConfigFails, DaemonFails, OpenMQTT,
        OpenMQTTFails, OpenHost,
                OpenHostFails, CheckKey, CheckKeyFails, OpenDAPNET, OpenDAPNETFails,
                Login, LoginFails, Goto, signalVars
<1>3. CASE Shutdown \/ Report \/ Again \/ LogFinalise
    BY <1>3 DEF Shutdown, Report, Again, LogFinalise, Goto, signalVars
<1>4. CASE sigHandler
    BY <1>4 DEF sigHandler
<1>5. CASE MQTT
    BY <1>5 DEF MQTT, onConnect, onDisconnect, BrokerDrops, signalVars
<1>6. CASE Terminated \/ UNCHANGED vars
    BY <1>6 DEF Terminated, vars, signalVars
<1> QED
    BY <1>1, <1>2, <1>3, <1>4, <1>5, <1>6 DEF Next, Process, main

LEMMA ClientStep ==
    ASSUME ProcessInv, [Next]_vars
    PROVE  (ClientsFresh /\ ClientReachable /\ ThreadsLive)'
<1> USE ProcessAssumption DEF ProcessAssumption, ClientsFresh, ClientReachable, ThreadsLive
<1> TypeOK /\ RunsCounted /\ ClientsFresh /\ ClientReachable /\ ThreadsLive
    BY DEF ProcessInv
<1>1. CASE NewRun
    BY <1>1 DEF NewRun, Goto, mqttVars, TypeOK, Runs
<1>2. CASE ReadConfig \/ DaemonFails
    BY <1>2 DEF ReadConfig, DaemonFails, Goto, TypeOK
<1>3. CASE OpenMQTT \/ OpenMQTTFails
  <2>1. runs \in Runs
      BY <1>3, RunNumber DEF OpenMQTT, OpenMQTTFails, Goto
  <2>2. m_mqtt' = runs /\ runs' = runs /\ pc = "mqtt" /\ pc' \notin {"config", "mqtt"}
      BY <1>3 DEF OpenMQTT, OpenMQTTFails, Goto
  <2>3. /\ client'[runs] \in {"failed", "live"}
        /\ \A c \in Runs : c # runs => client'[c] = client[c]
      BY <1>3, <2>1 DEF OpenMQTT, OpenMQTTFails, TypeOK
  <2>4. ClientsFresh'
      BY <2>1, <2>2, <2>3 DEF Runs
  <2>5. ClientReachable'
      BY <2>1, <2>2, <2>3
  <2>6. ThreadsLive'
    <3>1. client[runs] = "unused"
        BY <2>1, <2>2
    <3>2. CASE OpenMQTT
        BY <2>1, <2>3, <3>2 DEF OpenMQTT, TypeOK
    <3>3. CASE OpenMQTTFails
        BY <2>1, <2>3, <3>1, <3>3 DEF OpenMQTTFails, TypeOK
    <3> QED
        BY <1>3, <3>2, <3>3
  <2> QED
      BY <2>4, <2>5, <2>6
<1>4. CASE ReadConfigFails \/ OpenHost \/ OpenHostFails \/ CheckKey \/ CheckKeyFails
             \/ OpenDAPNET \/ OpenDAPNETFails \/ Login \/ LoginFails
    BY <1>4 DEF ReadConfigFails, OpenHost, OpenHostFails, CheckKey, CheckKeyFails,
                OpenDAPNET, OpenDAPNETFails, Login, LoginFails, Goto, mqttVars
<1>5. CASE Shutdown \/ Report \/ Again
    BY <1>5 DEF Shutdown, Report, Again, Goto, mqttVars
<1>6. CASE LogFinalise
  <2>1. /\ pc = "finalise" /\ pc' = "exited" /\ runs' = runs
        /\ m_mqtt' = None
        /\ threads' = threads \ {m_mqtt}
        /\ m_connected' = m_connected \ {m_mqtt}
        /\ session' = IF session = m_mqtt THEN None ELSE session
      BY <1>6 DEF LogFinalise, Goto
  <2>2. \A c \in Runs : c # m_mqtt => client'[c] = client[c]
      BY <1>6 DEF LogFinalise, TypeOK
  <2>3. m_mqtt # None => ~(m_mqtt > runs)
      BY DEF TypeOK
  <2>4. ClientsFresh'
      BY <2>1, <2>2, <2>3 DEF Runs, None
  <2>5. ClientReachable'
      BY <2>1
  <2>6. ThreadsLive'
      BY <2>1, <2>2 DEF Runs, None
  <2> QED
      BY <2>4, <2>5, <2>6
<1>7. CASE sigHandler
    BY <1>7 DEF sigHandler, mqttVars
<1>8. CASE MQTT
    BY <1>8 DEF MQTT, onConnect, onDisconnect, BrokerDrops, None, Runs
<1>9. CASE Terminated \/ UNCHANGED vars
    BY <1>9 DEF Terminated, vars, mqttVars
<1> QED
    BY <1>1, <1>2, <1>3, <1>4, <1>5, <1>6, <1>7, <1>8, <1>9
       DEF Next, Process, main, StartUp

LEMMA SocketsStep ==
    ASSUME ProcessInv, [Next]_vars
    PROVE  SocketsAtPlace'
<1> USE DEF SocketsAtPlace, HostOpenAt, DAPNETOpenAt
<1> SocketsAtPlace
    BY DEF ProcessInv
<1>1. CASE NewRun
    BY <1>1 DEF NewRun, Goto, socketVars
<1>2. CASE ReadConfig \/ ReadConfigFails \/ DaemonFails \/ OpenMQTT \/ OpenMQTTFails
    BY <1>2 DEF ReadConfig, ReadConfigFails, DaemonFails, OpenMQTT, OpenMQTTFails, Goto,
        socketVars
<1>3. CASE OpenHost \/ OpenHostFails \/ CheckKey \/ CheckKeyFails
    BY <1>3 DEF OpenHost, OpenHostFails, CheckKey, CheckKeyFails, Goto, socketVars
<1>4. CASE OpenDAPNET \/ OpenDAPNETFails \/ Login \/ LoginFails
    BY <1>4 DEF OpenDAPNET, OpenDAPNETFails, Login, LoginFails, Goto, socketVars
<1>5. CASE Shutdown \/ Report \/ Again \/ LogFinalise
    BY <1>5 DEF Shutdown, Report, Again, LogFinalise, Goto, socketVars
<1>6. CASE sigHandler \/ MQTT
    BY <1>6 DEF sigHandler, MQTT, onConnect, onDisconnect, BrokerDrops, socketVars
<1>7. CASE Terminated \/ UNCHANGED vars
    BY <1>7 DEF Terminated, vars, socketVars
<1> QED
    BY <1>1, <1>2, <1>3, <1>4, <1>5, <1>6, <1>7 DEF Next, Process, main, StartUp

LEMMA ProcessInvStep == ProcessInv /\ [Next]_vars => ProcessInv'
BY TypeStep, RunsCountedStep, ClientStep, SocketsStep DEF ProcessInv

LEMMA ProcessInvHolds == Spec => []ProcessInv
BY ProcessInvInit, ProcessInvStep, PTL DEF Spec

(* The state of the process keeps its types; in particular there are never *)
(* more calls of run() than signals SIGHUP that ask for them, plus one.    *)
THEOREM ProcessTypeCorrect == Spec => []TypeOK
<1>1. ProcessInv => TypeOK
    BY DEF ProcessInv
<1> QED
    BY <1>1, ProcessInvHolds, PTL

(* Whichever way run() ends, it leaves no socket open but the host's after *)
(* a key that is not set.                                                  *)
THEOREM SocketsAlwaysReleased == Spec => []SocketsReleased
<1>1. ProcessInv => SocketsReleased
    BY DEF ProcessInv, SocketsAtPlace, SocketsReleased, HostOpenAt, DAPNETOpenAt
<1> QED
    BY <1>1, ProcessInvHolds, PTL

(* The client that the log would use exists, unless its open() failed.     *)
THEOREM LogClientExists == Spec => []MQTTAlive
<1>1. ProcessInv => MQTTAlive
    BY DEF ProcessInv, ClientReachable, MQTTAlive
<1> QED
    BY <1>1, ProcessInvHolds, PTL

(* No callback of the library's thread meets a deleted client.             *)
THEOREM CallbacksSafe == Spec => []NoCallbackAfterDelete
<1>1. ProcessInv => NoCallbackAfterDelete
    BY DEF ProcessInv, ThreadsLive, NoCallbackAfterDelete
<1> QED
    BY <1>1, ProcessInvHolds, PTL

-----------------------------------------------------------------------------
(* Signals.  Each step of the process leads from its place to one of a few *)
(* others, so that a signal which nothing follows is carried to the end of *)
(* main()'s loop.  WF_vars(Process) makes the steps happen; that they can  *)
(* is NeverStuck, which TLC checks.                                        *)

Signals == {SIGHUP, SIGINT, SIGTERM}

(* The signals that ask for the same thing. *)
Orders == {{SIGHUP}, {SIGINT, SIGTERM}}

(* Where the end of main()'s loop leads after an order. *)
Turn(order) == IF order = {SIGHUP} THEN "main" ELSE "finalise"

(* Where a run goes from each place under an order. *)
Onward(order, place) ==
    CASE place = "config"   -> {"mqtt", "report"}
      [] place = "mqtt"     -> {"host", "report"}
      [] place = "host"     -> {"key", "report"}
      [] place = "key"      -> {"dapnet", "report"}
      [] place = "dapnet"   -> {"login", "report"}
      [] place = "login"    -> {"running", "report"}
      [] place = "running"  -> {"report"}
      [] place = "report"   -> {"again"}
      [] place = "again"    -> {Turn(order)}
      [] place = "finalise" -> {"exited"}

Places == {"config", "mqtt", "host", "key", "dapnet", "login", "running",
           "report", "again", "finalise"}

(* The last signal was that order, and this is one of those runs. *)
Told(order, numbers) == m_signal \in order /\ m_killed /\ runs \in numbers

SignalKills == m_signal # None => m_killed

LEMMA SignalKillsHolds == Spec => []SignalKills
<1>1. Init => SignalKills
    BY DEF Init, SignalKills
<1>2. SignalKills /\ [Next]_vars => SignalKills'
  <2> SUFFICES ASSUME SignalKills, [Next]_vars PROVE SignalKills'
      OBVIOUS
  <2> USE DEF SignalKills
  <2>1. CASE NewRun \/ sigHandler
      BY <2>1 DEF NewRun, sigHandler
  <2>2. CASE UNCHANGED signalVars
      BY <2>2 DEF signalVars
  <2>3. NewRun \/ sigHandler \/ UNCHANGED signalVars
      BY DEF Next, Process, main, StartUp, ReadConfig, ReadConfigFails, DaemonFails,
          OpenMQTT,
             OpenMQTTFails, OpenHost, OpenHostFails, CheckKey, CheckKeyFails, OpenDAPNET,
             OpenDAPNETFails, Login, LoginFails, Shutdown, Report, Again, LogFinalise,
             MQTT, onConnect, onDisconnect, BrokerDrops, Terminated, vars, signalVars
  <2> QED
      BY <2>1, <2>2, <2>3
<1> QED
    BY <1>1, <1>2, PTL DEF Spec

(* A step of the process goes on from its place; any other leaves it where *)
(* it is, and brings a new signal or none.                                 *)
LEMMA ProcessStep ==
    ASSUME NEW order \in Orders, m_signal \in order,
           NEW place \in Places, pc = place, Process
    PROVE  pc' \in Onward(order, place) /\ UNCHANGED <<m_signal, m_killed, runs>>
<1>1. CASE place \in {"config", "mqtt", "host", "key", "dapnet", "login"}
    BY <1>1 DEF Process, main, NewRun, StartUp, ReadConfig, ReadConfigFails, DaemonFails,
        OpenMQTT,
                OpenMQTTFails, OpenHost, OpenHostFails, CheckKey, CheckKeyFails, OpenDAPNET,
                OpenDAPNETFails, Login, LoginFails, Shutdown, Report, Again, LogFinalise,
                Goto, Onward, signalVars
<1>2. CASE place \in {"running", "report", "finalise"}
    BY <1>2 DEF Process, main, NewRun, StartUp, ReadConfig, ReadConfigFails, DaemonFails,
        OpenMQTT,
                OpenMQTTFails, OpenHost, OpenHostFails, CheckKey, CheckKeyFails, OpenDAPNET,
                OpenDAPNETFails, Login, LoginFails, Shutdown, Report, Again, LogFinalise,
                Goto, Onward, signalVars
<1>3. CASE place = "again"
  <2>1. Again
      BY <1>3 DEF Process, main, NewRun, StartUp, ReadConfig, ReadConfigFails,
          DaemonFails, OpenMQTT,
                  OpenMQTTFails, OpenHost, OpenHostFails, CheckKey, CheckKeyFails,
                  OpenDAPNET, OpenDAPNETFails, Login, LoginFails, Shutdown, Report,
                  LogFinalise, Goto
  <2> QED
      BY <1>3, <2>1 DEF Again, Onward, Turn, Orders, SIGHUP, SIGINT, SIGTERM, signalVars
<1> QED
    BY <1>1, <1>2, <1>3 DEF Places

LEMMA OtherStep ==
    ASSUME [Next]_vars, ~Process
    PROVE  /\ UNCHANGED <<pc, runs>>
           /\ UNCHANGED <<m_signal, m_killed>> \/ (m_signal' \in Signals /\ m_killed')
BY DEF Next, sigHandler, MQTT, onConnect, onDisconnect, BrokerDrops, Terminated, vars,
       signalVars, Signals

Standing(order, numbers, place) == Told(order, numbers) /\ pc = place

Onwards(order, numbers, place) ==
    \/ m_signal \in Signals \ order
    \/ Told(order, numbers) /\ pc \in Onward(order, place)

GoesOn(order, numbers, place) ==
    Standing(order, numbers, place) ~> Onwards(order, numbers, place)

(* From each place the process goes on, unless it is told something else.  *)
LEMMA CarriedOn ==
    ASSUME NEW order \in Orders, NEW numbers, NEW place \in Places
    PROVE  FairSpec /\ []NeverStuck => GoesOn(order, numbers, place)
<1>1. Standing(order, numbers, place) /\ [Next]_vars
          => Standing(order, numbers, place)' \/ Onwards(order, numbers, place)'
    BY ProcessStep, OtherStep DEF Told, Standing, Onwards
<1>2. Standing(order, numbers, place) /\ <<Process>>_vars
          => Onwards(order, numbers, place)'
    BY ProcessStep DEF Told, Standing, Onwards
<1>3. Standing(order, numbers, place) /\ NeverStuck => ENABLED <<Process>>_vars
    BY DEF Told, NeverStuck, Places, Standing
<1> QED
    BY <1>1, <1>2, <1>3, PTL DEF FairSpec, Spec, GoesOn

Underway == {"config", "mqtt", "host", "key", "dapnet", "login", "running",
             "report", "again"}

Carried(order, numbers) ==
    Told(order, numbers) /\ pc \in Underway
        ~> m_signal \in Signals \ order \/ Standing(order, numbers, Turn(order))

(* Wherever the order finds it, the process comes to the end of main()'s   *)
(* loop and leaves it as it was told.                                      *)
LEMMA OrderCarried ==
    ASSUME NEW order \in Orders, NEW numbers
    PROVE  FairSpec /\ []NeverStuck => Carried(order, numbers)
<1> DEFINE At(place) == Standing(order, numbers, place)
           Else == m_signal \in Signals \ order
<1>1. FairSpec /\ []NeverStuck =>
          /\ GoesOn(order, numbers, "config")
          /\ GoesOn(order, numbers, "mqtt")
          /\ GoesOn(order, numbers, "host")
          /\ GoesOn(order, numbers, "key")
          /\ GoesOn(order, numbers, "dapnet")
          /\ GoesOn(order, numbers, "login")
          /\ GoesOn(order, numbers, "running")
          /\ GoesOn(order, numbers, "report")
          /\ GoesOn(order, numbers, "again")
    BY CarriedOn, SMT DEF Places
<1>2. /\ Onwards(order, numbers, "config") => Else \/ At("mqtt") \/ At("report")
      /\ Onwards(order, numbers, "mqtt") => Else \/ At("host") \/ At("report")
      /\ Onwards(order, numbers, "host") => Else \/ At("key") \/ At("report")
      /\ Onwards(order, numbers, "key") => Else \/ At("dapnet") \/ At("report")
      /\ Onwards(order, numbers, "dapnet") => Else \/ At("login") \/ At("report")
      /\ Onwards(order, numbers, "login") => Else \/ At("running") \/ At("report")
      /\ Onwards(order, numbers, "running") => Else \/ At("report")
      /\ Onwards(order, numbers, "report") => Else \/ At("again")
      /\ Onwards(order, numbers, "again") => Else \/ At(Turn(order))
    BY DEF Onwards, Onward, Standing
<1>3. Told(order, numbers) /\ pc \in Underway =>
          \/ At("config")
          \/ At("mqtt")
          \/ At("host")
          \/ At("key")
          \/ At("dapnet")
          \/ At("login")
          \/ At("running")
          \/ At("report")
          \/ At("again")
    BY DEF Underway, Standing
<1> QED
    BY <1>1, <1>2, <1>3, PTL DEF GoesOn, Carried

(* SIGINT and SIGTERM end the process wherever they arrive, unless a SIGHUP *)
(* takes their place before the last look at m_signal.                     *)
THEOREM SignalsEndProcess == FairSpec /\ []NeverStuck => TerminationObeyed
<1>1. FairSpec /\ []NeverStuck
          => Carried({SIGINT, SIGTERM}, Nat) /\ GoesOn({SIGINT, SIGTERM}, Nat, "finalise")
    BY OrderCarried, CarriedOn, SMT DEF Orders, Places
<1>2. TypeOK /\ SignalKills /\ (Pending(SIGINT) \/ Pending(SIGTERM))
          => Told({SIGINT, SIGTERM}, Nat) /\ pc \in Underway
    BY DEF TypeOK, SignalKills, Pending, Told, Underway, Steps, None, SIGINT, SIGTERM
<1>3. /\ m_signal \in Signals \ {SIGINT, SIGTERM} => m_signal = SIGHUP
      /\ Standing({SIGINT, SIGTERM}, Nat, Turn({SIGINT, SIGTERM}))
             => Standing({SIGINT, SIGTERM}, Nat, "finalise")
      /\ Onwards({SIGINT, SIGTERM}, Nat, "finalise")
             => pc = "exited" \/ m_signal = SIGHUP
    BY DEF Signals, Standing, Turn, Onwards, Onward, SIGHUP, SIGINT, SIGTERM
<1> QED
    BY <1>1, <1>2, <1>3, ProcessTypeCorrect, SignalKillsHolds, PTL
       DEF TerminationObeyed, Carried, GoesOn, FairSpec

Restarted(n) ==
    Pending(SIGHUP) /\ runs = n ~> runs = n + 1 \/ m_signal \in {SIGINT, SIGTERM}

LEMMA FromMain ==
    ASSUME pc = "main", Process
    PROVE  NewRun
BY DEF Process, main, StartUp, ReadConfig, ReadConfigFails, DaemonFails, OpenMQTT,
    OpenMQTTFails,
       OpenHost, OpenHostFails, CheckKey, CheckKeyFails, OpenDAPNET, OpenDAPNETFails,
       Login, LoginFails, Shutdown, Report, Again, LogFinalise, Goto

LEMMA RunStartsOver ==
    ASSUME NEW n \in Runs
    PROVE  FairSpec /\ []NeverStuck => Restarted(n)
<1> DEFINE Back == Standing({SIGHUP}, {n}, "main")
           Begun == runs = n + 1 \/ m_signal \in {SIGINT, SIGTERM}
<1>1. FairSpec /\ []NeverStuck => Carried({SIGHUP}, {n})
    BY OrderCarried, SMT DEF Orders
<1>2. TypeOK /\ SignalKills /\ Pending(SIGHUP) /\ runs = n
          => Told({SIGHUP}, {n}) /\ pc \in Underway
    BY DEF TypeOK, SignalKills, Pending, Told, Underway, Steps, None, SIGHUP
<1>3. /\ m_signal \in Signals \ {SIGHUP} => m_signal \in {SIGINT, SIGTERM}
      /\ Turn({SIGHUP}) = "main"
      /\ Standing({SIGHUP}, {n}, Turn({SIGHUP})) => Back
    BY DEF Signals, Turn
<1>4. Back /\ [Next]_vars => Back' \/ Begun'
  <2> SUFFICES ASSUME Back, [Next]_vars PROVE Back' \/ Begun'
      OBVIOUS
  <2>1. CASE Process
      BY <2>1, FromMain DEF NewRun, Standing, Told
  <2>2. CASE ~Process
      BY <2>2, OtherStep DEF Standing, Told, Signals
  <2> QED
      BY <2>1, <2>2
<1>5. Back /\ <<Process>>_vars => Begun'
    BY FromMain DEF NewRun, Standing, Told
<1>6. Back /\ NeverStuck => ENABLED <<Process>>_vars
    BY DEF Standing, NeverStuck
<1> QED
    BY <1>1, <1>2, <1>3, <1>4, <1>5, <1>6, ProcessTypeCorrect, SignalKillsHolds, PTL
       DEF Restarted, Carried, FairSpec, Spec

(* SIGHUP starts the next run wherever in a run it arrives, unless another *)
(* signal takes its place.                                                 *)
THEOREM HangupRestarts == FairSpec /\ []NeverStuck => HangupObeyed
<1>1. ASSUME NEW n \in Runs
      PROVE  FairSpec /\ []NeverStuck => Restarted(n)
    BY <1>1, RunStartsOver
<1> QED
    BY <1>1 DEF HangupObeyed, Restarted
=============================================================================
