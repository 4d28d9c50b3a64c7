-------------------------- MODULE TuyaDaemon_proofs --------------------------
(***************************************************************************)
(* Proofs that the daemon keeps its types, that what it believes of its    *)
(* connection is true, and that it implements LinkContract, for every      *)
(* identifier width, window and number of faults.                          *)
(***************************************************************************)
EXTENDS TuyaDaemon, TLAPS

Linked == {"SUBSCRIBING", "SUBSCRIBE_COMPLETE", "YIELD"}

(***************************************************************************)
(* The inductive invariant: what the call in progress, the state machine   *)
(* and main() imply of the socket and of each other.                       *)
(***************************************************************************)

\* The step in progress belongs to a call that has such a step, and the socket
\* is as that step needs it.
CallInv ==
  /\ pc = "app" => op = "none"
  /\ pc = "dial" => tcp = "closed"
  /\ pc \in {"dial", "login", "connack", "autosub"} => op \in {"connect", "reconnect"}
  /\ pc \in {"yield", "yielded"} => op = "yield"
  /\ pc = "hangup" => op # "none"
  /\ pc \in {"login", "connack", "autosub", "yield", "yielded"} => tcp # "closed"

\* The flags hold only on a connection whose auto-subscribe was answered.
FlagInv ==
  /\ isConnected => autoSubEnabled
  /\ state = "SUBSCRIBE_COMPLETE" => autoSubEnabled
  /\ op \in {"connect", "reconnect"} => ~autoSubEnabled
  /\ autoSubEnabled /\ client = "live" => tcp # "closed" /\ subscription # "none"
  /\ subscription = "none" => \A i \in DOMAIN inbox : inbox[i].type # "SUBACK"

\* The state machine's state and the socket.
StateInv ==
  /\ op = "reconnect" => state = "CONNECTING"
  /\ op = "yield" => state \in Linked
  /\ state \in Linked /\ client = "live" /\ op # "yield" => tcp # "closed" \/ op \in {"connect", "deinit"}
  /\ pc = "app" /\ main \in {"while", "report", "pause", "deinit"} =>
       state \in Linked \cup {"CONNECTING"} /\ (tcp # "closed" <=> state \in Linked)

\* main() and the call it has entered.
MainInv ==
  /\ main \in {"init", "connect", "while", "pause", "deinit", "bail", "stopped", "failed"} =>
       pc \in {"app", "killed"}
  /\ main \in {"init", "connect", "bail", "stopped", "failed"} => tcp = "closed"
  /\ main = "init" => client = "none"
  /\ main \in {"connect", "connecting", "while", "report", "pause", "deinit", "bail"} => client = "live"
  /\ main \in {"stopped", "failed"} => client # "live"
  /\ main = "connect" => state = "IDLE" /\ ~autoSubEnabled
  /\ main = "connecting" =>
       /\ op \in {"none", "connect"}
       /\ state \in {"IDLE", "SUBSCRIBING"}
       /\ op = "connect" => state = "IDLE"
       /\ pc = "app" => IF rc = "ok" THEN tcp # "closed" /\ state = "SUBSCRIBING"
                                     ELSE tcp = "closed"
  /\ main = "report" => op \in {"none", "reconnect", "yield"}
  /\ main \in {"connecting", "while", "report", "pause", "deinit"} => ~manualDisconnect
  /\ main \in {"stopping", "bailing"} =>
       /\ op \in {"deinit", "none"}
       /\ pc \in {"hangup", "app", "killed"}
       /\ pc = "app" => tcp = "closed" /\ client = "freed"
       /\ op = "deinit" => client = "live"

IInv == TypeOK /\ CallInv /\ FlagInv /\ StateInv /\ MainInv

-----------------------------------------------------------------------------
(* Types.  A packet put on the wire has a packet's type, and identifiers    *)
(* stay within UINT16_MAX.                                                 *)

\* MQTT_GetPacketId never leaves the range of an MQTT packet identifier.
LEMMA NextPacketIdInRange ==
  ASSUME NEW id \in PacketIds
  PROVE  NextPacketId(id) \in PacketIds
  BY LinkAssumption DEF PacketIds, NextPacketId

\* The packets the code builds are packets.
LEMMA PacketType ==
  ASSUME NEW id \in PacketIds
  PROVE  /\ Up("CONNECT", 0) \in UpPackets
         /\ Up("SUBSCRIBE", id) \in UpPackets
         /\ Up("PUBLISH", id) \in UpPackets
         /\ Up("PUBACK", id) \in UpPackets
         /\ Up("PINGREQ", 0) \in UpPackets
         /\ Down("CONNACK", 0, "granted") \in DownPackets
         /\ Down("CONNACK", 0, "refused") \in DownPackets
         /\ Down("PINGRESP", 0, "none") \in DownPackets
         /\ Down("PUBLISH", 0, "none") \in DownPackets
         /\ Down("PUBLISH", 1, "none") \in DownPackets
         /\ \A code \in SubackCodes : Down("SUBACK", id, code) \in DownPackets
  BY LinkAssumption DEF PacketIds, Up, Down, UpPackets, DownPackets

\* A write keeps the socket and the packets in flight well typed.
LEMMA SendType ==
  ASSUME TypeOK, NEW p \in UpPackets, SendOk(p) \/ SendError
  PROVE  tcp' \in TcpStates /\ outbox' \in Seq(UpPackets)
  BY DEF TypeOK, LinkTypeOK, SendOk, SendError, TcpStates

\* So does a read.
LEMMA ReadType ==
  ASSUME TypeOK, inbox # <<>>
  PROVE  Head(inbox) \in DownPackets /\ Tail(inbox) \in Seq(DownPackets)
  BY DEF TypeOK, LinkTypeOK

\* Every step of a call keeps the types.
LEMMA LinkStepType ==
  ASSUME TypeOK, SdkStep
  PROVE  TypeOK'
<1> USE DEF linkVars, ctxVars, mqttVars, callVars, wireVars, brokerVars,
            Goto, Return, Steps, Calls, States
<1> USE DEF TypeOK, LinkTypeOK
<1>a. 0 \in PacketIds /\ NextPacketId(nextPacketId) \in PacketIds /\ nextPacketId \in PacketIds
  BY NextPacketIdInRange, LinkAssumption DEF PacketIds
<1>b. /\ Up("CONNECT", 0) \in UpPackets
      /\ Up("SUBSCRIBE", nextPacketId) \in UpPackets
      /\ Up("PINGREQ", 0) \in UpPackets
  BY <1>a, PacketType
<1>c. UNCHANGED <<main, running>> /\ LinkStep
  BY DEF SdkStep
<1>1. CASE DialOk
  <2>1. session' \in BOOLEAN
    BY <1>1, Zenon DEF DialOk
  <2>2. outbox' \in Seq(UpPackets) /\ inbox' \in Seq(DownPackets)
    BY <1>1 DEF DialOk
  <2> QED
    BY <1>1, <1>c, <2>1, <2>2 DEF DialOk, TcpStates
<1>2. CASE DialFail
  BY <1>2, <1>c DEF DialFail
<1>3. CASE Login
  BY <1>3, <1>c, <1>b, SendType DEF Login, Die
<1>4. CASE ReceiveConnack
  <2>1. waitingForPingResp' \in BOOLEAN
    BY <1>4, Zenon DEF ReceiveConnack
  <2> QED
    BY <1>4, <1>c, <2>1, ReadType DEF ReceiveConnack
<1>5. CASE ConnackMissing
  BY <1>5, <1>c DEF ConnackMissing, ReadError, TcpStates
<1>6. CASE AutoSubscribe
  BY <1>6, <1>c, <1>a, <1>b, SendType DEF AutoSubscribe, Die, KeepSubscribeId
<1>7. CASE ReceiveSuback
  <2>1. autoSubEnabled' \in BOOLEAN
    BY <1>7, Zenon DEF ReceiveSuback
  <2> QED
    BY <1>7, <1>c, <1>a, <2>1, ReadType DEF ReceiveSuback
<1>8. CASE ReceivePingresp
  <2>1. waitingForPingResp' \in BOOLEAN
    BY <1>8, Zenon DEF ReceivePingresp
  <2> QED
    BY <1>8, <1>c, <2>1, ReadType DEF ReceivePingresp
<1>9. CASE ReceivePublish
  <2>1. inbox # <<>> /\ Head(inbox) \in DownPackets /\ Tail(inbox) \in Seq(DownPackets)
    BY <1>9, ReadType DEF ReceivePublish
  <2>2. Up("PUBACK", Head(inbox).id) \in UpPackets
    BY <2>1, PacketType DEF DownPackets
  <2> QED
    BY <1>9, <1>c, <2>1, <2>2, SendType DEF ReceivePublish, Die
<1>10. CASE Idle
  BY <1>10, <1>c DEF Idle
<1>11. CASE Ping
  BY <1>11, <1>c, <1>b, SendType DEF Ping, Die
<1>12. CASE PingTimeout
  BY <1>12, <1>c DEF PingTimeout
<1>13. CASE ReceiveError
  BY <1>13, <1>c DEF ReceiveError, ReadError, TcpStates
<1>14. CASE TimeLeft
  BY <1>14, <1>c DEF TimeLeft
<1>15. CASE TimeUp
  BY <1>15, <1>c DEF TimeUp
<1>16. CASE Hangup
  BY <1>16, <1>c, <<>> \in Seq(UpPackets), <<>> \in Seq(DownPackets) DEF Hangup, Die, CloseSocket, DisconnectedCb, TcpStates
<1> QED
  BY <1>c, <1>1, <1>2, <1>3, <1>4, <1>5, <1>6, <1>7, <1>8, <1>9, <1>10, <1>11, <1>12, <1>13, <1>14, <1>15, <1>16 DEF LinkStep

\* Every call of main() keeps the types.
LEMMA MainType ==
  ASSUME TypeOK, Main
  PROVE  TypeOK'
<1> USE DEF linkVars, ctxVars, mqttVars, callVars, wireVars, brokerVars,
            Steps, Calls, States, MainSteps
<1> USE DEF TypeOK, LinkTypeOK
<1>a. /\ 0 \in PacketIds /\ 1 \in PacketIds
      /\ nextPacketId \in PacketIds
      /\ NextPacketId(nextPacketId) \in PacketIds
      /\ Up("PUBLISH", nextPacketId) \in UpPackets
  BY NextPacketIdInRange, PacketType, LinkAssumption DEF PacketIds
<1>1. CASE MainInit
  <2>1. CASE ApiInit
    <3>1. /\ isConnected' \in BOOLEAN /\ autoSubEnabled' \in BOOLEAN
          /\ manualDisconnect' \in BOOLEAN /\ waitingForPingResp' \in BOOLEAN
      BY <2>1, Zenon DEF ApiInit, CtxCleared
    <3> QED
      BY <1>1, <1>a, <2>1, <3>1 DEF MainInit, ApiInit, CtxCleared
  <2>2. CASE ApiInitFails
    <3>1. /\ isConnected' \in BOOLEAN /\ autoSubEnabled' \in BOOLEAN
          /\ manualDisconnect' \in BOOLEAN
      BY <2>2, Zenon DEF ApiInitFails, CtxCleared
    <3> QED
      BY <1>1, <1>a, <2>2, <3>1 DEF MainInit, ApiInitFails, CtxCleared
  <2> QED
    BY <1>1, <2>1, <2>2 DEF MainInit
<1>2. CASE MainConnect
  BY <1>2 DEF MainConnect, ApiConnect
<1>3. CASE MainConnected
  BY <1>3 DEF MainConnected
<1>4. CASE MainLoop
  BY <1>4 DEF MainLoop, ApiLoop
<1>5. CASE MainLoopEnds
  BY <1>5 DEF MainLoopEnds
<1>6. CASE MainReport
  BY <1>6, <1>a, SendType DEF MainReport, ApiReport, Die
<1>7. CASE MainSkipReport
  BY <1>7 DEF MainSkipReport
<1>8. CASE MainPause
  BY <1>8 DEF MainPause
<1>9. CASE MainDeinit
  BY <1>9 DEF MainDeinit, ApiDeinit
<1>10. CASE MainExit
  BY <1>10 DEF MainExit
<1> QED
  BY <1>1, <1>2, <1>3, <1>4, <1>5, <1>6, <1>7, <1>8, <1>9, <1>10 DEF Main

\* So do the broker, the network and the signals.
LEMMA EnvironmentType ==
  ASSUME TypeOK, EnvStep \/ Signal \/ SignalInterruptsDial
  PROVE  TypeOK'
<1> USE DEF linkVars, ctxVars, mqttVars, callVars, wireVars, brokerVars,
            Steps, Calls, States, MainSteps
<1> USE DEF TypeOK, LinkTypeOK
<1>1. CASE EnvStep /\ BrokerRead
  <2>1. outbox # <<>> /\ Tail(outbox) \in Seq(UpPackets) /\ Head(outbox) \in UpPackets
    BY <1>1 DEF BrokerRead
  <2>2. Head(outbox).id \in PacketIds
    BY <2>1 DEF UpPackets
  <2>3. outbox' \in Seq(UpPackets)
    BY <1>1, <2>1 DEF BrokerRead
  <2>4. inbox' \in Seq(DownPackets)
    <3>1. \A d \in DownPackets : Append(inbox, d) \in Seq(DownPackets)
      OBVIOUS
    <3>2. inbox' = inbox \/ \E d \in DownPackets : inbox' = Append(inbox, d)
      BY <1>1, <2>2, PacketType, Zenon DEF BrokerRead
    <3> QED
      BY <3>1, <3>2
  <2>5. session' \in BOOLEAN
    BY <1>1, Zenon DEF BrokerRead
  <2>6. subscription' \in {"none", "granted", "refused"} /\ faults' \in Nat
    BY <1>1, LinkAssumption DEF BrokerRead
  <2> QED
    BY <1>1, <2>3, <2>4, <2>5, <2>6 DEF EnvStep, BrokerRead
<1>2. CASE EnvStep /\ BrokerPublish
  BY <1>2, PacketType DEF EnvStep, BrokerPublish, PacketIds
<1>3. CASE EnvStep /\ Break
  BY <1>3, LinkAssumption, <<>> \in Seq(UpPackets) DEF EnvStep, Break, TcpStates
<1>4. CASE EnvStep /\ ResetAfterFin
  BY <1>4 DEF EnvStep, ResetAfterFin, TcpStates
<1>5. CASE Signal
  <2>1. running' \in BOOLEAN
    BY <1>5, Zenon DEF Signal
  <2> QED
    BY <1>5, <2>1 DEF Signal
<1>6. CASE SignalInterruptsDial
  <2>1. running' \in BOOLEAN
    BY <1>6, Zenon DEF SignalInterruptsDial
  <2> QED
    BY <1>6, <2>1 DEF SignalInterruptsDial, Goto
<1> QED
  BY <1>1, <1>2, <1>3, <1>4, <1>5, <1>6 DEF EnvStep, Environment

\* TypeOK is an invariant: no sequence of calls, answers, faults and signals
\* leaves the types.
THEOREM TypeCorrect == Spec => []TypeOK
<1>1. Init => TypeOK
  <2> SUFFICES ASSUME Init PROVE TypeOK
    OBVIOUS
  <2>1. /\ isConnected \in BOOLEAN /\ autoSubEnabled \in BOOLEAN
        /\ manualDisconnect \in BOOLEAN /\ waitingForPingResp \in BOOLEAN
        /\ session \in BOOLEAN /\ running \in BOOLEAN
    BY Zenon DEF Init, LinkInit
  <2>2. outbox \in Seq(UpPackets) /\ inbox \in Seq(DownPackets)
    BY DEF Init, LinkInit
  <2> QED
    BY <2>1, <2>2, LinkAssumption
    DEF Init, LinkInit, TypeOK, LinkTypeOK, States, Steps, Calls, TcpStates, MainSteps, PacketIds
<1>2. TypeOK /\ [Next]_vars => TypeOK'
  <2> SUFFICES ASSUME TypeOK, [Next]_vars PROVE TypeOK'
    OBVIOUS
  <2>1. CASE UNCHANGED vars
    BY <2>1 DEF vars, linkVars, ctxVars, mqttVars, callVars, wireVars, brokerVars, TypeOK, LinkTypeOK
  <2> QED
    BY <2>1, LinkStepType, MainType, EnvironmentType DEF Next, Ended
<1> QED
  BY <1>1, <1>2, PTL DEF Spec

-----------------------------------------------------------------------------
(* The inductive invariant.                                                *)

\* A step of a call keeps the invariant.
LEMMA LinkStepInv ==
  ASSUME IInv, SdkStep
  PROVE  (CallInv /\ FlagInv /\ StateInv /\ MainInv)'
<1> USE DEF linkVars, ctxVars, mqttVars, callVars, wireVars, brokerVars, vars,
            Goto, Return, Linked
<1> USE DEF IInv, CallInv, FlagInv, StateInv, MainInv
<1>c. UNCHANGED <<main, running>> /\ LinkStep
  BY DEF SdkStep
<1>1. CASE DialOk
  BY <1>1, <1>c DEF DialOk
<1>2. CASE DialFail
  BY <1>2, <1>c DEF DialFail
<1>3. CASE Login
  BY <1>3, <1>c DEF Login, SendOk, SendError, SendKills, Die
<1>4. CASE ReceiveConnack
  BY <1>4, <1>c DEF ReceiveConnack
<1>5. CASE ConnackMissing
  BY <1>5, <1>c DEF ConnackMissing, ReadNothing, ReadError
<1>6. CASE AutoSubscribe
  BY <1>6, <1>c DEF AutoSubscribe, SendOk, SendError, SendKills, Die, KeepSubscribeId
<1>7. CASE ReceiveSuback
  BY <1>7, <1>c DEF ReceiveSuback
<1>8. CASE ReceivePingresp
  BY <1>8, <1>c DEF ReceivePingresp
<1>9. CASE ReceivePublish
  <2>1. CASE SendKills /\ Die
    BY <1>c, <2>1 DEF SendKills, Die
  <2>2. CASE ~(SendKills /\ Die)
    <3>1. /\ pc = "yield" /\ inbox # <<>> /\ inbox' = Tail(inbox)
          /\ pc' \in {"yielded", "hangup"} /\ UNCHANGED <<op, rc>>
          /\ tcp # "closed" => tcp' # "closed"
          /\ UNCHANGED <<ctxVars, mqttVars, client, brokerVars>>
      BY <1>9, <2>2 DEF ReceivePublish, SendOk, SendError
    <3>2. inbox \in Seq(DownPackets)
      BY DEF TypeOK, LinkTypeOK
    <3>3. (\A i \in DOMAIN inbox : inbox[i].type # "SUBACK")
             => \A i \in DOMAIN inbox' : inbox'[i].type # "SUBACK"
      BY <3>1, <3>2
    <3>4. UNCHANGED <<state, isConnected, autoSubEnabled, manualDisconnect, client,
                      subscription, op, rc, main>>
      BY <1>c, <3>1
    <3>5. CallInv'
      BY <3>1, <3>4
    <3>6. FlagInv'
      BY <3>1, <3>3, <3>4
    <3>7. StateInv' /\ MainInv'
      BY <3>1, <3>4
    <3> QED
      BY <3>5, <3>6, <3>7
  <2> QED
    BY <2>1, <2>2
<1>10. CASE Idle
  BY <1>10, <1>c DEF Idle, ReadNothing
<1>11. CASE Ping
  BY <1>11, <1>c DEF Ping, SendOk, SendKills, Die
<1>12. CASE PingTimeout
  BY <1>12, <1>c DEF PingTimeout
<1>13. CASE ReceiveError
  BY <1>13, <1>c DEF ReceiveError, ReadError
<1>14. CASE TimeLeft
  BY <1>14, <1>c DEF TimeLeft
<1>15. CASE TimeUp
  BY <1>15, <1>c DEF TimeUp
<1>16. CASE Hangup
  <2>1. CASE SendKills /\ Die
    BY <1>c, <2>1 DEF SendKills, Die
  <2>2. CASE ~(SendKills /\ Die)
    <3>1. main \in MainSteps /\ op \in Calls
      BY DEF TypeOK, LinkTypeOK
    <3>2. /\ main \in {"connecting", "report", "stopping", "bailing"}
          /\ op # "disconnect"
          /\ op = "yield" => main = "report" /\ ~manualDisconnect
      BY <1>16, <3>1 DEF Hangup, MainSteps, Calls
    <3>3. pc' = "app" /\ op' = "none" /\ tcp' = "closed" /\ inbox' = <<>>
      BY <1>16, <2>2 DEF Hangup, CloseSocket
    <3>4. CASE op = "yield"
      <4>1. ~autoSubEnabled' /\ ~isConnected'
        BY <1>16, <2>2, <3>4, Zenon DEF Hangup, DisconnectedCb
      <4>2. state' = "CONNECTING" /\ client' = client /\ main' = "report" /\ main = "report"
        BY <1>16, <1>c, <2>2, <3>2, <3>4 DEF Hangup, DisconnectedCb
      <4>3. ~manualDisconnect'
        BY <1>16, <2>2, <3>2, <3>4, Zenon DEF Hangup
      <4> QED
        BY <3>2, <3>3, <4>1, <4>2, <4>3
    <3>5. CASE op # "yield"
      <4>1. /\ UNCHANGED <<autoSubEnabled, isConnected, state, main>>
            /\ client' = IF op = "deinit" THEN "freed" ELSE client
            /\ rc' = IF op = "connect" THEN "error" ELSE "ok"
            /\ op \in {"connect", "reconnect", "deinit"}
        BY <1>16, <1>c, <2>2, <3>1, <3>2, <3>5 DEF Hangup, Calls
      <4>2. manualDisconnect' = (manualDisconnect \/ FALSE)
        BY <1>16, <2>2, <3>2, Zenon DEF Hangup
      <4>3. CallInv' /\ FlagInv'
        BY <3>3, <4>1, <1>16 DEF Hangup
      <4>4. StateInv'
        BY <3>2, <3>3, <4>1
      <4>5. MainInv'
        BY <3>2, <3>3, <4>1, <4>2
      <4> QED
        BY <4>3, <4>4, <4>5
    <3> QED
      BY <3>4, <3>5
  <2> QED
    BY <2>1, <2>2
<1> QED
  BY <1>c, <1>1, <1>2, <1>3, <1>4, <1>5, <1>6, <1>7, <1>8, <1>9, <1>10, <1>11, <1>12, <1>13, <1>14, <1>15, <1>16 DEF LinkStep

\* So does a step of main() with the call it makes.
LEMMA MainInvStep ==
  ASSUME IInv, Main
  PROVE  (CallInv /\ FlagInv /\ StateInv /\ MainInv)'
<1> USE DEF linkVars, ctxVars, mqttVars, callVars, wireVars, brokerVars, vars,
            Goto, Return, Linked
<1> USE DEF IInv, CallInv, FlagInv, StateInv, MainInv
<1>c. \/ MainInit \/ MainConnect \/ MainConnected \/ MainLoop \/ MainLoopEnds
      \/ MainReport \/ MainSkipReport \/ MainPause \/ MainDeinit \/ MainExit
  BY DEF Main
<1>1. CASE MainInit
  BY <1>1, <1>c DEF MainInit, ApiInit, ApiInitFails, CtxCleared
<1>2. CASE MainConnect
  BY <1>2, <1>c DEF MainConnect, ApiConnect
<1>3. CASE MainConnected
  BY <1>3, <1>c DEF MainConnected, TypeOK, LinkTypeOK
<1>4. CASE MainLoop
  BY <1>4, <1>c DEF MainLoop, ApiLoop
<1>5. CASE MainLoopEnds
  BY <1>5, <1>c DEF MainLoopEnds
<1>6. CASE MainReport
  <2>1. CASE SendKills /\ Die
    BY <1>6, <2>1 DEF MainReport, ApiReport, SendKills, Die
  <2>2. CASE ~(SendKills /\ Die)
    <3>1. /\ pc = "app"
          /\ tcp' = "closed" <=> tcp = "closed"
          /\ UNCHANGED <<ctxVars, client, callVars, inbox, brokerVars>>
      BY <1>6, <2>2 DEF MainReport, ApiReport, SendOk, SendError
    <3>2. main = "report" /\ main' = "pause" /\ op = "none"
      BY <1>6, <3>1 DEF MainReport
    <3>3. CallInv' /\ FlagInv'
      BY <3>1, <3>2
    <3>4. StateInv' /\ MainInv'
      BY <3>1, <3>2
    <3> QED
      BY <3>3, <3>4
  <2> QED
    BY <2>1, <2>2
<1>7. CASE MainSkipReport
  BY <1>7, <1>c DEF MainSkipReport
<1>8. CASE MainPause
  BY <1>8, <1>c DEF MainPause
<1>9. CASE MainDeinit
  BY <1>9, <1>c DEF MainDeinit, ApiDeinit
<1>10. CASE MainExit
  BY <1>10, <1>c DEF MainExit
<1> QED
  BY <1>c, <1>1, <1>2, <1>3, <1>4, <1>5, <1>6, <1>7, <1>8, <1>9, <1>10

\* And so do the broker, the network and the signals.
LEMMA EnvironmentInv ==
  ASSUME IInv, EnvStep \/ Signal \/ SignalInterruptsDial
  PROVE  (CallInv /\ FlagInv /\ StateInv /\ MainInv)'
<1> USE DEF linkVars, ctxVars, mqttVars, callVars, wireVars, brokerVars, vars,
            Goto, Return, Linked
<1> USE DEF IInv, CallInv, FlagInv, StateInv, MainInv
<1>c. EnvStep => BrokerRead \/ BrokerPublish \/ Break \/ ResetAfterFin
  BY DEF EnvStep, Environment
<1>1. CASE EnvStep /\ BrokerRead
  <2>1. /\ UNCHANGED <<ctxVars, mqttVars, client, callVars, tcp, main>>
        /\ tcp = "up"
    BY <1>1 DEF EnvStep, BrokerRead
  <2>2. subscription' = "none" => subscription = "none"
    BY <1>1, LinkAssumption DEF BrokerRead
  <2>3. subscription' = "none" => \A i \in DOMAIN inbox' : inbox'[i].type # "SUBACK"
    <3> SUFFICES ASSUME subscription' = "none" PROVE \A i \in DOMAIN inbox' : inbox'[i].type # "SUBACK"
      OBVIOUS
    <3>1. Head(outbox).type # "SUBSCRIBE"
      BY <1>1, LinkAssumption DEF BrokerRead
    <3>2. \/ inbox' = inbox
          \/ \E d \in {Down("CONNACK", 0, "granted"), Down("CONNACK", 0, "refused"),
                       Down("PINGRESP", 0, "none")} : inbox' = Append(inbox, d)
      BY <1>1, <3>1, Zenon DEF BrokerRead
    <3>3. inbox \in Seq(DownPackets)
      BY DEF TypeOK, LinkTypeOK
    <3>4. \A i \in DOMAIN inbox : inbox[i].type # "SUBACK"
      BY <2>2
    <3>5. ASSUME NEW d, d.type # "SUBACK", inbox' = Append(inbox, d)
          PROVE  \A i \in DOMAIN inbox' : inbox'[i].type # "SUBACK"
      BY <3>3, <3>4, <3>5
    <3> QED
      BY <3>2, <3>4, <3>5 DEF Down
  <2> QED
    BY <2>1, <2>2, <2>3
<1>2. CASE EnvStep /\ BrokerPublish
  BY <1>2, <1>c DEF EnvStep, BrokerPublish, Down
<1>3. CASE EnvStep /\ Break
  BY <1>3, <1>c, LinkAssumption DEF EnvStep, Break
<1>4. CASE EnvStep /\ ResetAfterFin
  BY <1>4, <1>c DEF EnvStep, ResetAfterFin
<1>5. CASE Signal
  BY <1>5, <1>c DEF Signal
<1>6. CASE SignalInterruptsDial
  BY <1>6, <1>c DEF SignalInterruptsDial
<1> QED
  BY <1>c, <1>1, <1>2, <1>3, <1>4, <1>5, <1>6

\* The invariant holds in every reachable state.
THEOREM Invariance == Spec => []IInv
<1>1. Init => CallInv /\ FlagInv /\ StateInv /\ MainInv
  BY DEF Init, LinkInit, CallInv, FlagInv, StateInv, MainInv, Linked
<1>2. IInv /\ [Next]_vars => (CallInv /\ FlagInv /\ StateInv /\ MainInv)'
  <2> SUFFICES ASSUME IInv, [Next]_vars PROVE (CallInv /\ FlagInv /\ StateInv /\ MainInv)'
    OBVIOUS
  <2>1. CASE UNCHANGED vars
    BY <2>1 DEF vars, linkVars, ctxVars, mqttVars, callVars, wireVars, brokerVars,
                IInv, CallInv, FlagInv, StateInv, MainInv
  <2> QED
    BY <2>1, LinkStepInv, MainInvStep, EnvironmentInv DEF Next, Ended
<1> QED
  BY TypeCorrect, <1>1, <1>2, PTL DEF Spec, IInv

-----------------------------------------------------------------------------
(* The safety properties follow from the invariant.                        *)

\* tuya_mqtt_connected is true only on an open connection whose auto-subscribe
\* the broker has answered, across reconnects, faults and identifier wraps.
THEOREM ConnectedIsAnswered == Spec => []ConnectedMeansAnswered
<1>1. IInv => ConnectedMeansAnswered
  BY DEF IInv, FlagInv, ConnectedMeansAnswered
<1> QED
  BY <1>1, Invariance, PTL

\* Between two SDK calls of the main loop the state machine's state tells
\* whether a socket is open.
THEOREM StateIsSocket == Spec => []StateMatchesSocket
<1>1. IInv => StateMatchesSocket
  BY DEF IInv, StateInv, StateMatchesSocket, Linked
<1> QED
  BY <1>1, Invariance, PTL

\* A socket is opened only when none is open, and none is left at exit.
THEOREM SocketNotLeaked == Spec => []NoSocketLeak
<1>1. IInv => NoSocketLeak
  BY DEF IInv, CallInv, MainInv, NoSocketLeak, Exited
<1> QED
  BY <1>1, Invariance, PTL

-----------------------------------------------------------------------------
(* The packets in flight.  What is queued on a connection depends on how    *)
(* far its login has come, and the wait in SUBSCRIBING on what is queued.   *)

\* A step of a call that needs the broker's consent to the CONNECT comes after
\* it, and no step starts a login while the auto-subscribe is awaited.
SessionInv ==
  /\ pc = "login" => outbox = <<>> /\ ~session
  /\ tcp # "closed" /\ pc \in {"app", "autosub", "yield", "yielded"} => session
  /\ \A i \in DOMAIN inbox : inbox[i] = Down("CONNACK", 0, "granted") => session
  /\ subscription # "none" => session
  /\ op \in {"connect", "reconnect"} => state # "SUBSCRIBING"

QueueInv == SessionInv /\ ProtocolOrder /\ SubackIsComing

\* A packet added to a queue stands last in it.
LEMMA QueueAppend ==
  ASSUME NEW S, NEW q \in Seq(S), NEW p \in S
  PROVE  /\ \A i \in DOMAIN q : i \in DOMAIN Append(q, p) /\ Append(q, p)[i] = q[i]
         /\ \A i \in DOMAIN Append(q, p) : i \in DOMAIN q \/ i = Len(q) + 1
         /\ Len(q) + 1 \in DOMAIN Append(q, p) /\ Append(q, p)[Len(q) + 1] = p
         /\ q = <<>> => Len(q) = 0
  OBVIOUS

\* The packets behind the first one move up by one.
LEMMA QueueTail ==
  ASSUME NEW S, NEW q \in Seq(S), q # <<>>
  PROVE  /\ 1 \in DOMAIN q /\ Head(q) = q[1]
         /\ \A i \in DOMAIN Tail(q) : i + 1 \in DOMAIN q /\ Tail(q)[i] = q[i + 1] /\ i + 1 # 1
         /\ \A i \in DOMAIN q : i # 1 => i - 1 \in DOMAIN Tail(q) /\ Tail(q)[i - 1] = q[i]
  OBVIOUS

\* A step that queues nothing out of order keeps the order.
LEMMA OrderStep ==
  ASSUME TypeOK, ProtocolOrder,
         \/ outbox' = <<>>
         \/ outbox' = outbox /\ session' = session /\ subscription' = subscription
         \/ \E p \in UpPackets :
              /\ outbox' = Append(outbox, p)
              /\ session' = session /\ subscription' = subscription
              /\ IF p.type = "CONNECT" THEN outbox = <<>> /\ ~session ELSE session
              /\ p.type = "PUBLISH" => subscription # "none"
  PROVE  ProtocolOrder'
<1>0. outbox \in Seq(UpPackets)
  BY DEF TypeOK, LinkTypeOK
<1>1. CASE outbox' = <<>>
  BY <1>1 DEF ProtocolOrder
<1>2. CASE outbox' = outbox /\ session' = session /\ subscription' = subscription
  BY <1>2 DEF ProtocolOrder
<1>3. CASE \E p \in UpPackets :
             /\ outbox' = Append(outbox, p)
             /\ session' = session /\ subscription' = subscription
             /\ IF p.type = "CONNECT" THEN outbox = <<>> /\ ~session ELSE session
             /\ p.type = "PUBLISH" => subscription # "none"
  <2>1. PICK p \in UpPackets :
             /\ outbox' = Append(outbox, p)
             /\ session' = session /\ subscription' = subscription
             /\ IF p.type = "CONNECT" THEN outbox = <<>> /\ ~session ELSE session
             /\ p.type = "PUBLISH" => subscription # "none"
    BY <1>3
  <2>2. SUFFICES ASSUME NEW i \in DOMAIN outbox'
                 PROVE  /\ outbox'[i].type = "CONNECT" => i = 1 /\ ~session
                        /\ outbox'[i].type # "CONNECT" => session
                        /\ outbox'[i].type = "PUBLISH" => subscription # "none"
    BY <2>1 DEF ProtocolOrder
  <2>3. CASE i \in DOMAIN outbox
    BY <1>0, <2>1, <2>3, QueueAppend DEF ProtocolOrder
  <2>4. CASE i = Len(outbox) + 1
    BY <1>0, <2>1, <2>4, QueueAppend
  <2> QED
    BY <1>0, <2>1, <2>2, <2>3, <2>4, QueueAppend
<1> QED
  BY <1>1, <1>2, <1>3

\* A step that takes neither the SUBSCRIBE nor its answer off the wire, and
\* leaves the identifier it waits for, keeps the answer coming.
LEMMA ComingStep ==
  ASSUME TypeOK, SubackIsComing,
         state' = "SUBSCRIBING" => state = "SUBSCRIBING" /\ autoSubId' = autoSubId,
         tcp' = "up" =>
           /\ tcp = "up"
           /\ \/ outbox' = outbox
              \/ \E p \in UpPackets : outbox' = Append(outbox, p)
           /\ \/ inbox' = inbox
              \/ \E d \in DownPackets : inbox' = Append(inbox, d)
              \/ /\ inbox # <<>> /\ inbox' = Tail(inbox)
                 /\ Head(inbox).type = "SUBACK" => Head(inbox).id # autoSubId
  PROVE  SubackIsComing'
<1>0. outbox \in Seq(UpPackets) /\ inbox \in Seq(DownPackets)
  BY DEF TypeOK, LinkTypeOK
<1>1. SUFFICES ASSUME state' = "SUBSCRIBING", tcp' = "up"
      PROVE  \/ Up("SUBSCRIBE", autoSubId) \in {outbox'[i] : i \in DOMAIN outbox'}
             \/ \E i \in DOMAIN inbox' : inbox'[i].type = "SUBACK" /\ inbox'[i].id = autoSubId
  BY DEF SubackIsComing
<1>2. CASE Up("SUBSCRIBE", autoSubId) \in {outbox[i] : i \in DOMAIN outbox}
  <2>1. PICK i \in DOMAIN outbox : outbox[i] = Up("SUBSCRIBE", autoSubId)
    BY <1>2
  <2>2. i \in DOMAIN outbox' /\ outbox'[i] = outbox[i]
    BY <1>0, <1>1, <2>1, QueueAppend
  <2> QED
    BY <2>1, <2>2
<1>3. CASE \E i \in DOMAIN inbox : inbox[i].type = "SUBACK" /\ inbox[i].id = autoSubId
  <2>1. PICK i \in DOMAIN inbox : inbox[i].type = "SUBACK" /\ inbox[i].id = autoSubId
    BY <1>3
  <2>2. CASE inbox' = inbox \/ \E d \in DownPackets : inbox' = Append(inbox, d)
    <3>1. i \in DOMAIN inbox' /\ inbox'[i] = inbox[i]
      BY <1>0, <2>2, QueueAppend
    <3> QED
      BY <2>1, <3>1
  <2>3. CASE /\ inbox # <<>> /\ inbox' = Tail(inbox)
             /\ Head(inbox).type = "SUBACK" => Head(inbox).id # autoSubId
    <3>1. i # 1
      BY <1>0, <2>1, <2>3, QueueTail
    <3>2. i - 1 \in DOMAIN inbox' /\ inbox'[i - 1] = inbox[i]
      BY <1>0, <2>3, <3>1, QueueTail
    <3> QED
      BY <2>1, <3>2
  <2> QED
    BY <1>1, <2>2, <2>3
<1> QED
  BY <1>1, <1>2, <1>3 DEF SubackIsComing

\* Every step of a call keeps the packets in flight in order.
LEMMA LinkStepQueue ==
  ASSUME IInv, QueueInv, SdkStep
  PROVE  QueueInv'
<1> USE DEF linkVars, ctxVars, mqttVars, callVars, wireVars, brokerVars, Goto, Return, QueueInv
<1>c. UNCHANGED <<main, running>> /\ LinkStep
  BY DEF SdkStep
<1>t. /\ TypeOK /\ CallInv /\ nextPacketId \in PacketIds
      /\ inbox \in Seq(DownPackets) /\ outbox \in Seq(UpPackets)
  BY DEF IInv, TypeOK, LinkTypeOK
<1>p. /\ Up("CONNECT", 0) \in UpPackets
      /\ Up("SUBSCRIBE", nextPacketId) \in UpPackets
      /\ Up("PINGREQ", 0) \in UpPackets
  BY <1>t, LinkAssumption, PacketType DEF PacketIds
<1>d. Die => QueueInv'
  BY <1>t DEF Die, SessionInv, ProtocolOrder, SubackIsComing
<1>1. CASE DialOk
  BY <1>1, <1>t DEF DialOk, CallInv, SessionInv, ProtocolOrder, SubackIsComing
<1>2. CASE DialFail
  BY <1>2 DEF DialFail, SessionInv, ProtocolOrder, SubackIsComing
<1>3. CASE Login
  <2>1. CASE SendKills /\ Die
    BY <1>d, <2>1
  <2>2. CASE ~(SendKills /\ Die)
    <3>1. SessionInv'
      BY <1>3, <2>2 DEF Login, SendOk, SendError, SessionInv
    <3>2. ProtocolOrder'
      BY <1>3, <1>t, <1>p, <2>2, OrderStep DEF Login, SendOk, SendError, SessionInv, Up
    <3>3. SubackIsComing'
      BY <1>3, <1>t, <1>p, <2>2, ComingStep DEF Login, SendOk, SendError
    <3> QED
      BY <3>1, <3>2, <3>3
  <2> QED
    BY <2>1, <2>2
<1>4. CASE ReceiveConnack
  <2>1. SessionInv'
    BY <1>4, <1>t, QueueTail DEF ReceiveConnack, SessionInv
  <2>2. ProtocolOrder'
    BY <1>4 DEF ReceiveConnack, ProtocolOrder
  <2>3. SubackIsComing'
    BY <1>4, <1>t DEF ReceiveConnack, CallInv, SessionInv, SubackIsComing
  <2> QED
    BY <2>1, <2>2, <2>3
<1>5. CASE ConnackMissing
  BY <1>5 DEF ConnackMissing, ReadError, SessionInv, ProtocolOrder, SubackIsComing
<1>6. CASE AutoSubscribe
  <2>1. CASE SendKills /\ Die
    BY <1>d, <2>1
  <2>2. CASE ~(SendKills /\ Die)
    <3>0. /\ pc = "autosub" /\ tcp # "closed"
          /\ state' = "SUBSCRIBING" /\ op' = "none" /\ pc' = "app"
          /\ UNCHANGED <<inbox, session, subscription>>
      BY <1>6, <1>t, <2>2 DEF AutoSubscribe, CallInv
    <3>1. SessionInv'
      BY <3>0 DEF SessionInv
    <3>2. ProtocolOrder'
      BY <1>6, <1>t, <1>p, <2>2, <3>0, OrderStep DEF AutoSubscribe, SendOk, SendError, SessionInv, Up
    <3>3. SubackIsComing'
      <4> SUFFICES ASSUME tcp' = "up"
                   PROVE  Up("SUBSCRIBE", autoSubId') \in {outbox'[i] : i \in DOMAIN outbox'}
        BY DEF SubackIsComing
      <4>1. outbox' = Append(outbox, Up("SUBSCRIBE", nextPacketId)) /\ autoSubId' = nextPacketId
        BY <1>6, <2>2 DEF AutoSubscribe, SendOk, SendError, KeepSubscribeId
      <4> QED
        BY <1>t, <1>p, <4>1, QueueAppend
    <3> QED
      BY <3>1, <3>2, <3>3
  <2> QED
    BY <2>1, <2>2
<1>7. CASE ReceiveSuback
  <2>1. SessionInv'
    BY <1>7, <1>t, QueueTail DEF ReceiveSuback, SessionInv
  <2>2. ProtocolOrder'
    BY <1>7 DEF ReceiveSuback, ProtocolOrder
  <2>3. CASE Head(inbox).id = autoSubId
    <3>1. state' = "SUBSCRIBE_COMPLETE"
      BY <1>7, <2>3 DEF ReceiveSuback
    <3> QED
      BY <2>1, <2>2, <3>1 DEF SubackIsComing
  <2>4. CASE Head(inbox).id # autoSubId
    <3>1. /\ inbox # <<>> /\ inbox' = Tail(inbox)
          /\ UNCHANGED <<state, autoSubId, tcp, outbox>>
      BY <1>7, <2>4 DEF ReceiveSuback
    <3>2. SubackIsComing'
      BY <1>t, <2>4, <3>1, ComingStep
    <3> QED
      BY <2>1, <2>2, <3>2
  <2> QED
    BY <2>3, <2>4
<1>8. CASE ReceivePingresp
  <2>1. SessionInv'
    BY <1>8, <1>t, QueueTail DEF ReceivePingresp, SessionInv
  <2>2. ProtocolOrder'
    BY <1>8 DEF ReceivePingresp, ProtocolOrder
  <2>3. SubackIsComing'
    BY <1>8, <1>t, ComingStep DEF ReceivePingresp
  <2> QED
    BY <2>1, <2>2, <2>3
<1>9. CASE ReceivePublish
  <2>1. CASE SendKills /\ Die
    BY <1>d, <2>1
  <2>2. CASE ~(SendKills /\ Die)
    <3>0. /\ pc = "yield" /\ inbox # <<>> /\ inbox' = Tail(inbox)
          /\ Head(inbox).type = "PUBLISH" /\ pc' \in {"yielded", "hangup"}
          /\ UNCHANGED <<ctxVars, op, session, subscription>>
          /\ \/ UNCHANGED <<tcp, outbox>>
             \/ SendOk(Up("PUBACK", Head(inbox).id))
             \/ SendError
      BY <1>9, <2>2 DEF ReceivePublish
    <3>1. SessionInv'
      BY <1>t, <3>0, QueueTail DEF SendOk, SendError, SessionInv, CallInv
    <3>2. Up("PUBACK", Head(inbox).id) \in UpPackets
      <4>1. Head(inbox) \in DownPackets
        BY <1>t, <3>0, ReadType
      <4> QED
        BY <4>1, PacketType DEF DownPackets
    <3>3. tcp # "closed" /\ session
      BY <1>t, <3>0 DEF CallInv, SessionInv
    <3>4. ProtocolOrder'
      BY <1>t, <3>0, <3>2, <3>3, OrderStep DEF SendOk, SendError, Up
    <3>5. SubackIsComing'
      BY <1>t, <3>0, <3>2, ComingStep DEF SendOk, SendError
    <3> QED
      BY <3>1, <3>4, <3>5
  <2> QED
    BY <2>1, <2>2
<1>10. CASE Idle
  BY <1>10 DEF Idle, SessionInv, ProtocolOrder, SubackIsComing
<1>11. CASE Ping
  <2>1. CASE SendKills /\ Die
    BY <1>d, <2>1
  <2>2. CASE ~(SendKills /\ Die)
    <3>0. /\ pc = "yield" /\ tcp # "closed"
          /\ pc' = "yielded" /\ UNCHANGED <<state, op, inbox, session, subscription>>
      BY <1>11, <1>t, <2>2 DEF Ping, CallInv
    <3>1. SessionInv'
      BY <3>0 DEF SessionInv
    <3>2. ProtocolOrder'
      BY <1>11, <1>t, <1>p, <2>2, OrderStep DEF Ping, SendOk, SessionInv, CallInv, Up
    <3>3. SubackIsComing'
      BY <1>11, <1>t, <1>p, <2>2, ComingStep DEF Ping, SendOk
    <3> QED
      BY <3>1, <3>2, <3>3
  <2> QED
    BY <2>1, <2>2
<1>12. CASE PingTimeout
  BY <1>12 DEF PingTimeout, SessionInv, ProtocolOrder, SubackIsComing
<1>13. CASE ReceiveError
  BY <1>13 DEF ReceiveError, ReadError, SessionInv, ProtocolOrder, SubackIsComing
<1>14. CASE TimeLeft
  BY <1>14 DEF TimeLeft, SessionInv, ProtocolOrder, SubackIsComing
<1>15. CASE TimeUp
  BY <1>15 DEF TimeUp, SessionInv, ProtocolOrder, SubackIsComing
<1>16. CASE Hangup
  <2>1. CASE SendKills /\ Die
    BY <1>d, <2>1
  <2>2. CASE ~(SendKills /\ Die)
    <3>1. /\ tcp' = "closed" /\ outbox' = <<>> /\ inbox' = <<>>
          /\ pc' = "app" /\ op' = "none" /\ subscription' = "none"
      BY <1>16, <2>2 DEF Hangup, CloseSocket
    <3> QED
      BY <3>1 DEF SessionInv, ProtocolOrder, SubackIsComing
  <2> QED
    BY <2>1, <2>2
<1> QED
  BY <1>c, <1>1, <1>2, <1>3, <1>4, <1>5, <1>6, <1>7, <1>8, <1>9, <1>10, <1>11, <1>12, <1>13, <1>14, <1>15, <1>16 DEF LinkStep

\* So does every call of main(): only the report queues a packet, and it is
\* made only while isConnected.
LEMMA MainQueue ==
  ASSUME IInv, QueueInv, Main
  PROVE  QueueInv'
<1> USE DEF linkVars, ctxVars, mqttVars, callVars, wireVars, brokerVars, QueueInv
<1>t. /\ TypeOK /\ MainInv /\ FlagInv /\ StateInv /\ CallInv /\ nextPacketId \in PacketIds
      /\ inbox \in Seq(DownPackets) /\ outbox \in Seq(UpPackets)
  BY DEF IInv, TypeOK, LinkTypeOK
<1>1. CASE MainInit
  BY <1>1, <1>t DEF MainInit, ApiInit, ApiInitFails, CtxCleared, MainInv,
                    SessionInv, ProtocolOrder, SubackIsComing
<1>2. CASE MainConnect
  BY <1>2, <1>t DEF MainConnect, ApiConnect, MainInv, SessionInv, ProtocolOrder, SubackIsComing
<1>3. CASE MainConnected
  BY <1>3 DEF MainConnected, SessionInv, ProtocolOrder, SubackIsComing
<1>4. CASE MainLoop
  <2>1. SessionInv'
    BY <1>4, <1>t DEF MainLoop, ApiLoop, SessionInv, CallInv
  <2>2. ProtocolOrder'
    BY <1>4 DEF MainLoop, ApiLoop, ProtocolOrder
  <2>3. SubackIsComing'
    BY <1>4 DEF MainLoop, ApiLoop, SubackIsComing
  <2> QED
    BY <2>1, <2>2, <2>3
<1>5. CASE MainLoopEnds
  BY <1>5 DEF MainLoopEnds, SessionInv, ProtocolOrder, SubackIsComing
<1>6. CASE MainReport
  <2>1. CASE SendKills /\ Die
    BY <2>1 DEF Die, SessionInv, ProtocolOrder, SubackIsComing
  <2>2. CASE ~(SendKills /\ Die)
    <3>0. /\ client = "live" /\ isConnected /\ pc = "app"
          /\ SendOk(Up("PUBLISH", nextPacketId)) \/ SendError
          /\ UNCHANGED <<state, autoSubId, pc, op, inbox, session, subscription>>
      BY <1>6, <2>2, Zenon DEF MainReport, ApiReport
    <3>1. Up("PUBLISH", nextPacketId) \in UpPackets
      BY <1>t, PacketType
    <3>2. tcp # "closed" /\ subscription # "none" /\ session
      BY <1>t, <3>0 DEF FlagInv, SessionInv
    <3>3. SessionInv'
      BY <3>0, <3>2 DEF SendOk, SendError, SessionInv
    <3>4. ProtocolOrder'
      BY <1>t, <3>0, <3>1, <3>2, OrderStep DEF SendOk, SendError, Up
    <3>5. SubackIsComing'
      BY <1>t, <3>0, <3>1, ComingStep DEF SendOk, SendError
    <3> QED
      BY <3>3, <3>4, <3>5
  <2> QED
    BY <2>1, <2>2
<1>7. CASE MainSkipReport
  BY <1>7 DEF MainSkipReport, SessionInv, ProtocolOrder, SubackIsComing
<1>8. CASE MainPause
  BY <1>8 DEF MainPause, SessionInv, ProtocolOrder, SubackIsComing
<1>9. CASE MainDeinit
  BY <1>9 DEF MainDeinit, ApiDeinit, SessionInv, ProtocolOrder, SubackIsComing
<1>10. CASE MainExit
  BY <1>10 DEF MainExit, SessionInv, ProtocolOrder, SubackIsComing
<1> QED
  BY <1>1, <1>2, <1>3, <1>4, <1>5, <1>6, <1>7, <1>8, <1>9, <1>10 DEF Main

\* The broker takes packets in the order they were sent, and answers each.
LEMMA BrokerReadQueue ==
  ASSUME IInv, QueueInv, BrokerRead
  PROVE  QueueInv'
<1> USE DEF linkVars, ctxVars, mqttVars, callVars, wireVars, brokerVars, QueueInv
<1>t. inbox \in Seq(DownPackets) /\ outbox \in Seq(UpPackets) /\ outbox # <<>>
  BY DEF IInv, TypeOK, LinkTypeOK, BrokerRead
<1>1. /\ tcp = "up" /\ outbox' = Tail(outbox)
      /\ UNCHANGED <<ctxVars, callVars, tcp>>
  BY DEF BrokerRead
<1>2. session \/ session' => session'
  BY DEF BrokerRead
<1>3. subscription # "none" => subscription' # "none"
  BY LinkAssumption DEF BrokerRead
<1>4. Head(outbox).type # "CONNECT" => session
  BY <1>t, QueueTail DEF ProtocolOrder
<1>5. Head(outbox).type = "CONNECT" => Tail(outbox) = <<>>
  <2> SUFFICES ASSUME Head(outbox).type = "CONNECT", Tail(outbox) # <<>> PROVE FALSE
    OBVIOUS
  <2>1. 1 \in DOMAIN Tail(outbox)
    BY <1>t
  <2>2. 2 \in DOMAIN outbox /\ outbox[1].type = "CONNECT" /\ 1 \in DOMAIN outbox
    BY <1>t, <2>1, QueueTail
  <2>3. ~session
    BY <2>2 DEF ProtocolOrder
  <2>4. outbox[2].type # "CONNECT" => session
    BY <2>2 DEF ProtocolOrder
  <2>5. outbox[2].type = "CONNECT" => 2 = 1
    BY <2>2 DEF ProtocolOrder
  <2> QED
    BY <2>3, <2>4, <2>5
<1>6. \/ inbox' = inbox
      \/ inbox' = Append(inbox, Down("CONNACK", 0, "granted")) /\ session'
      \/ inbox' = Append(inbox, Down("CONNACK", 0, "refused"))
      \/ inbox' = Append(inbox, Down("PINGRESP", 0, "none"))
      \/ \E code \in SubackCodes : inbox' = Append(inbox, Down("SUBACK", Head(outbox).id, code))
  BY Zenon DEF BrokerRead
<1>7. \E d \in DownPackets :
        /\ inbox' = inbox \/ inbox' = Append(inbox, d)
        /\ d = Down("CONNACK", 0, "granted") => session'
  <2>1. Head(outbox).id \in PacketIds
    <3>1. Head(outbox) \in UpPackets
      BY <1>t
    <3> QED
      BY <3>1 DEF UpPackets
  <2>2. PICK p \in DownPackets : p = Down("PINGRESP", 0, "none")
    BY <2>1, PacketType
  <2> QED
    BY <1>6, <2>1, <2>2, PacketType DEF Down
<1>8. SessionInv'
  <2>1. pc = "login" => outbox' = <<>> /\ ~session'
    BY <1>t DEF SessionInv
  <2>2. \A i \in DOMAIN inbox' : inbox'[i] = Down("CONNACK", 0, "granted") => session'
    BY <1>t, <1>2, <1>7, QueueAppend DEF SessionInv
  <2>3. subscription' # "none" => session'
    BY <1>2, <1>4 DEF SessionInv, BrokerRead
  <2> QED
    BY <1>1, <1>2, <2>1, <2>2, <2>3 DEF SessionInv
<1>9. ProtocolOrder'
  <2>1. CASE Head(outbox).type = "CONNECT"
    BY <1>1, <1>5, <2>1 DEF ProtocolOrder
  <2>2. CASE Head(outbox).type # "CONNECT"
    <3>1. session' = session
      BY <2>2 DEF BrokerRead
    <3> QED
      BY <1>t, <1>1, <1>3, <3>1, QueueTail DEF ProtocolOrder
  <2> QED
    BY <2>1, <2>2
<1>10. SubackIsComing'
  <2> SUFFICES ASSUME state = "SUBSCRIBING"
               PROVE  \/ Up("SUBSCRIBE", autoSubId) \in {outbox'[i] : i \in DOMAIN outbox'}
                      \/ \E i \in DOMAIN inbox' : inbox'[i].type = "SUBACK" /\ inbox'[i].id = autoSubId
    BY <1>1 DEF SubackIsComing
  <2>1. CASE \E i \in DOMAIN inbox : inbox[i].type = "SUBACK" /\ inbox[i].id = autoSubId
    BY <1>t, <1>7, <2>1, QueueAppend
  <2>2. CASE Up("SUBSCRIBE", autoSubId) \in {outbox[i] : i \in DOMAIN outbox}
    <3>1. PICK i \in DOMAIN outbox : outbox[i] = Up("SUBSCRIBE", autoSubId)
      BY <2>2
    <3>2. CASE i # 1
      <4>1. i - 1 \in DOMAIN outbox' /\ outbox'[i - 1] = Up("SUBSCRIBE", autoSubId)
        BY <1>t, <1>1, <3>1, <3>2, QueueTail
      <4> QED
        BY <4>1
    <3>3. CASE i = 1
      <4>1. Head(outbox) = Up("SUBSCRIBE", autoSubId)
        BY <1>t, <3>1, <3>3, QueueTail
      <4>2. PICK code \in SubackCodes : inbox' = Append(inbox, Down("SUBACK", autoSubId, code))
        BY <4>1 DEF BrokerRead, Up
      <4>3. Down("SUBACK", autoSubId, code) \in DownPackets
        BY PacketType DEF IInv, TypeOK, LinkTypeOK
      <4>4. Len(inbox) + 1 \in DOMAIN inbox' /\ inbox'[Len(inbox) + 1] = Down("SUBACK", autoSubId, code)
        BY <1>t, <4>2, <4>3, QueueAppend
      <4> QED
        BY <4>4 DEF Down
    <3> QED
      BY <3>2, <3>3
  <2> QED
    BY <1>1, <2>1, <2>2 DEF SubackIsComing
<1> QED
  BY <1>8, <1>9, <1>10

\* A fault, a push and a signal keep the order too.
LEMMA EnvironmentQueue ==
  ASSUME IInv, QueueInv, EnvStep \/ Signal \/ SignalInterruptsDial
  PROVE  QueueInv'
<1> USE DEF linkVars, ctxVars, mqttVars, callVars, wireVars, brokerVars, QueueInv
<1>t. TypeOK /\ inbox \in Seq(DownPackets) /\ outbox \in Seq(UpPackets)
  BY DEF IInv, TypeOK, LinkTypeOK
<1>1. CASE BrokerRead
  BY <1>1, BrokerReadQueue
<1>2. CASE BrokerPublish
  <2>1. PICK id \in {0, 1} : inbox' = Append(inbox, Down("PUBLISH", id, "none"))
    BY <1>2 DEF BrokerPublish
  <2>2. /\ Down("PUBLISH", id, "none") \in DownPackets
        /\ Down("PUBLISH", id, "none") # Down("CONNACK", 0, "granted")
    BY LinkAssumption, PacketType DEF PacketIds, Down
  <2>3. SessionInv'
    BY <1>2, <1>t, <2>1, <2>2, QueueAppend DEF BrokerPublish, SessionInv
  <2>4. ProtocolOrder'
    BY <1>2 DEF BrokerPublish, ProtocolOrder
  <2>5. SubackIsComing'
    BY <1>2, <1>t, <2>1, <2>2, ComingStep DEF BrokerPublish
  <2> QED
    BY <2>3, <2>4, <2>5
<1>3. CASE Break
  BY <1>3, LinkAssumption DEF Break, SessionInv, ProtocolOrder, SubackIsComing
<1>4. CASE ResetAfterFin
  BY <1>4 DEF ResetAfterFin, SessionInv, ProtocolOrder, SubackIsComing
<1>5. CASE Signal
  BY <1>5 DEF Signal, SessionInv, ProtocolOrder, SubackIsComing
<1>6. CASE SignalInterruptsDial
  BY <1>6 DEF SignalInterruptsDial, Goto, SessionInv, ProtocolOrder, SubackIsComing
<1> QED
  BY <1>1, <1>2, <1>3, <1>4, <1>5, <1>6 DEF EnvStep, Environment

\* The packets in flight are always as the calls and the flags require.
THEOREM QueuesInvariant == Spec => []QueueInv
<1>1. Init => QueueInv
  BY DEF Init, LinkInit, QueueInv, SessionInv, ProtocolOrder, SubackIsComing
<1>2. IInv /\ QueueInv /\ [Next]_vars => QueueInv'
  <2> SUFFICES ASSUME IInv, QueueInv, [Next]_vars PROVE QueueInv'
    OBVIOUS
  <2>1. CASE UNCHANGED vars
    BY <2>1 DEF vars, linkVars, ctxVars, mqttVars, callVars, wireVars, brokerVars,
                QueueInv, SessionInv, ProtocolOrder, SubackIsComing
  <2> QED
    BY <2>1, LinkStepQueue, MainQueue, EnvironmentQueue DEF Next, Ended
<1> QED
  BY <1>1, <1>2, Invariance, PTL DEF Spec

\* The broker sees CONNECT first and once on a connection, nothing before it
\* accepts, and no report before it answers the auto-subscribe: across
\* reconnects, faults, full windows and lost packets.
THEOREM OrderKept == Spec => []ProtocolOrder
  BY QueuesInvariant, PTL DEF QueueInv

\* While the state machine waits in SUBSCRIBING on a connection that is up, the
\* SUBSCRIBE whose identifier it kept, or its SUBACK, is still on its way: no
\* read in the wrong state and no wrap of the identifiers loses it.
THEOREM SubackComes == Spec => []SubackIsComing
  BY QueuesInvariant, PTL DEF QueueInv

-----------------------------------------------------------------------------
(* Refinement: what LinkContract sees of a step.                           *)

\* The contract's variables, as the Contract instance computes them.
Conn == IF tcp = "closed" THEN "none"
        ELSE IF subscription = "none" THEN "open" ELSE "acked"
Told == isConnected /\ client = "live"
Over == Exited \/ Killed

\* A step the contract does not see.
Unseen == Conn' = Conn /\ Told' = Told /\ Over' = Over

\* The six ways a step may look to the contract are the contract's own.
LEMMA ContractStep ==
  \/ Unseen
  \/ ~Over /\ Conn = "none" /\ Conn' = "open" /\ Told' = Told /\ Over' = Over
  \/ ~Over /\ Conn = "open" /\ ~Told /\ Conn' = "acked" /\ Told' = Told /\ Over' = Over
  \/ ~Over /\ Conn = "acked" /\ ~Told /\ Told' = TRUE /\ Conn' = Conn /\ Over' = Over
  \/ ~Over /\ Conn # "none" /\ Conn' = "none" /\ Told' = FALSE /\ Over' = Over
  \/ ~Over /\ Over' = TRUE /\ Conn' = Conn /\ Told' = Told
  => [Contract!CNext]_(Contract!cvars)
  BY DEF Unseen, Conn, Told, Over, Contract!CNext, Contract!cvars, Contract!Open,
         Contract!Ack, Contract!Announce, Contract!GiveUp, Contract!End

\* The process ends, killed or returning from main: End.
LEMMA EndStep ==
  ASSUME ~Over, Over', Conn' = Conn, Told' = Told
  PROVE  [Contract!CNext]_(Contract!cvars)
<1>1. ~Over /\ Over' = TRUE /\ Conn' = Conn /\ Told' = Told
  BY Zenon DEF Over
<1> QED
  BY <1>1, ContractStep, Zenon

\* A step of a call: the connection is opened, given up, or nothing is seen.
LEMMA LinkStepRefines ==
  ASSUME IInv, SdkStep
  PROVE  [Contract!CNext]_(Contract!cvars)
<1> USE DEF linkVars, ctxVars, mqttVars, callVars, wireVars, brokerVars,
            Goto, Return
<1>c. UNCHANGED <<main, running>> /\ LinkStep
  BY DEF SdkStep
<1>o. pc \notin {"app", "killed"} => ~Over
  BY DEF IInv, MainInv, Over, Exited, Killed
<1>k. Die /\ pc \notin {"app", "killed"} => [Contract!CNext]_(Contract!cvars)
  <2> SUFFICES ASSUME Die, pc \notin {"app", "killed"}
               PROVE  [Contract!CNext]_(Contract!cvars)
    OBVIOUS
  <2>1. Over' /\ Conn' = Conn /\ Told' = Told
    BY <1>c DEF Die, Over, Killed, Conn, Told
  <2> QED
    BY <1>o, <2>1, EndStep
<1>t. pc \in {"connack", "yield"} => tcp # "closed"
  BY DEF IInv, CallInv
<1>1. CASE DialOk
  <2>1. ~Over /\ Conn = "none" /\ Conn' = "open"
    BY <1>1, <1>o DEF DialOk, Conn, IInv, CallInv
  <2>2. Told' = Told /\ Over' = Over
    BY <1>1, <1>c DEF DialOk, Told, Over, Exited, Killed
  <2> QED
    BY <2>1, <2>2, ContractStep
<1>2. CASE DialFail
  <2>1. Unseen
    BY <1>2, <1>c DEF DialFail, Unseen, Conn, Told, Over, Exited, Killed
  <2> QED
    BY <2>1, ContractStep
<1>3. CASE Login
  <2>1. CASE SendKills /\ Die
    BY <1>3, <1>k, <2>1 DEF Login
  <2>2. CASE ~(SendKills /\ Die)
    <3>1. Unseen
      BY <1>3, <1>c, <2>2 DEF Login, SendOk, SendError, Unseen, Conn, Told, Over, Exited, Killed
    <3> QED
      BY <3>1, ContractStep
  <2> QED
    BY <2>1, <2>2
<1>4. CASE ReceiveConnack
  <2>1. Unseen
    BY <1>4, <1>c DEF ReceiveConnack, Unseen, Conn, Told, Over, Exited, Killed
  <2> QED
    BY <2>1, ContractStep
<1>5. CASE ConnackMissing
  <2>1. Unseen
    BY <1>5, <1>c, <1>t DEF ConnackMissing, ReadNothing, ReadError, Unseen, Conn, Told, Over, Exited, Killed
  <2> QED
    BY <2>1, ContractStep
<1>6. CASE AutoSubscribe
  <2>1. CASE SendKills /\ Die
    BY <1>6, <1>k, <2>1 DEF AutoSubscribe
  <2>2. CASE ~(SendKills /\ Die)
    <3>1. /\ tcp' = "closed" <=> tcp = "closed"
          /\ pc = "autosub" /\ pc' = "app"
      BY <1>6, <2>2 DEF AutoSubscribe, SendOk, SendError
    <3>2. UNCHANGED <<isConnected, client, subscription, main>>
      BY <1>6, <1>c, <2>2 DEF AutoSubscribe
    <3>3. Unseen
      BY <3>1, <3>2 DEF Unseen, Conn, Told, Over, Exited, Killed
    <3> QED
      BY <3>3, ContractStep
  <2> QED
    BY <2>1, <2>2
<1>7. CASE ReceiveSuback
  <2>1. Unseen
    BY <1>7, <1>c DEF ReceiveSuback, Unseen, Conn, Told, Over, Exited, Killed
  <2> QED
    BY <2>1, ContractStep
<1>8. CASE ReceivePingresp
  <2>1. Unseen
    BY <1>8, <1>c DEF ReceivePingresp, Unseen, Conn, Told, Over, Exited, Killed
  <2> QED
    BY <2>1, ContractStep
<1>9. CASE ReceivePublish
  <2>1. CASE SendKills /\ Die
    BY <1>9, <1>k, <2>1 DEF ReceivePublish
  <2>2. CASE ~(SendKills /\ Die)
    <3>1. Unseen
      BY <1>9, <1>c, <2>2 DEF ReceivePublish, SendOk, SendError, Unseen, Conn, Told, Over, Exited, Killed
    <3> QED
      BY <3>1, ContractStep
  <2> QED
    BY <2>1, <2>2
<1>10. CASE Idle
  <2>1. Unseen
    BY <1>10, <1>c DEF Idle, Unseen, Conn, Told, Over, Exited, Killed
  <2> QED
    BY <2>1, ContractStep
<1>11. CASE Ping
  <2>1. CASE SendKills /\ Die
    BY <1>11, <1>k, <2>1 DEF Ping
  <2>2. CASE ~(SendKills /\ Die)
    <3>1. Unseen
      BY <1>11, <1>c, <2>2 DEF Ping, SendOk, Unseen, Conn, Told, Over, Exited, Killed
    <3> QED
      BY <3>1, ContractStep
  <2> QED
    BY <2>1, <2>2
<1>12. CASE PingTimeout
  <2>1. Unseen
    BY <1>12, <1>c DEF PingTimeout, Unseen, Conn, Told, Over, Exited, Killed
  <2> QED
    BY <2>1, ContractStep
<1>13. CASE ReceiveError
  <2>1. Unseen
    BY <1>13, <1>c, <1>t DEF ReceiveError, ReadError, Unseen, Conn, Told, Over, Exited, Killed
  <2> QED
    BY <2>1, ContractStep
<1>14. CASE TimeLeft
  <2>1. Unseen
    BY <1>14, <1>c DEF TimeLeft, Unseen, Conn, Told, Over, Exited, Killed
  <2> QED
    BY <2>1, ContractStep
<1>15. CASE TimeUp
  <2>1. Unseen
    BY <1>15, <1>c DEF TimeUp, Unseen, Conn, Told, Over, Exited, Killed
  <2> QED
    BY <2>1, ContractStep
<1>16. CASE Hangup
  <2>1. CASE SendKills /\ Die
    BY <1>16, <1>k, <2>1 DEF Hangup
  <2>2. CASE ~(SendKills /\ Die)
    <3>1. Conn' = "none" /\ ~Over /\ Over' = Over
      BY <1>16, <1>c, <1>o, <2>2 DEF Hangup, CloseSocket, Conn, Over, Exited, Killed
    <3>2. op \in {"connect", "reconnect"} => ~isConnected
      BY DEF IInv, FlagInv
    <3>3. op \in Calls /\ op # "none"
      BY <1>16 DEF IInv, TypeOK, LinkTypeOK, CallInv, Hangup
    <3>4. ASSUME op \in {"yield", "disconnect"} PROVE ~Told'
      <4>1. ~isConnected'
        BY <1>16, <2>2, <3>4, Zenon DEF Hangup, DisconnectedCb
      <4> QED
        BY <4>1 DEF Told
    <3>5. ASSUME op = "deinit" PROVE ~Told'
      BY <1>16, <2>2, <3>5 DEF Hangup, Told
    <3>6. ASSUME op \in {"connect", "reconnect"} PROVE ~Told'
      BY <1>16, <2>2, <3>2, <3>6 DEF Hangup, Told
    <3>7. ~Told'
      BY <3>3, <3>4, <3>5, <3>6 DEF Calls
    <3>8. Told => Conn # "none"
      BY DEF IInv, FlagInv, Told, Conn
    <3>9. CASE Conn = "none"
      BY <3>1, <3>7, <3>8, <3>9, ContractStep DEF Unseen, Told
    <3>10. CASE Conn # "none"
      BY <3>1, <3>7, <3>10, ContractStep DEF Told
    <3> QED
      BY <3>9, <3>10
  <2> QED
    BY <2>1, <2>2
<1> QED
  BY <1>c, <1>1, <1>2, <1>3, <1>4, <1>5, <1>6, <1>7, <1>8, <1>9, <1>10, <1>11, <1>12, <1>13, <1>14, <1>15, <1>16 DEF LinkStep

\* A step of main(): the program is told, it ends, or nothing is seen.
LEMMA MainRefines ==
  ASSUME IInv, Main
  PROVE  [Contract!CNext]_(Contract!cvars)
<1> USE DEF linkVars, ctxVars, mqttVars, callVars, wireVars, brokerVars
<1>1. CASE MainInit
  <2>1. ~Over /\ Conn = "none" /\ ~Told
    BY <1>1 DEF MainInit, ApiInit, ApiInitFails, IInv, MainInv, Conn, Told, Over, Exited, Killed
  <2>2. CASE ApiInit
    <3>1. ~isConnected'
      BY <2>2, Zenon DEF ApiInit, CtxCleared
    <3>2. CASE main' = "connect"
      <4>1. Told' = Told
        BY <2>1, <3>1 DEF Told
      <4>2. Conn' = Conn /\ Over' = Over
        BY <2>1, <2>2, <3>2 DEF ApiInit, Conn, Over, Exited, Killed
      <4> QED
        BY <4>1, <4>2, ContractStep DEF Unseen
    <3>3. CASE main' = "failed"
      BY <1>1, <2>2, <3>3 DEF MainInit, ApiInit, ApiInitFails
    <3> QED
      BY <1>1, <3>2, <3>3 DEF MainInit
  <2>3. CASE ApiInitFails
    <3>1. CASE main' = "connect"
      BY <1>1, <2>1, <2>3, <3>1, ContractStep
      DEF MainInit, ApiInit, ApiInitFails, Unseen, Conn, Told, Over, Exited, Killed
    <3>2. CASE main' = "failed"
      <4>1. Over' /\ Conn' = Conn /\ Told' = Told
        <5>1. ~isConnected'
          BY <2>3, Zenon DEF ApiInitFails, CtxCleared
        <5>2. Over' /\ Conn' = Conn
          BY <2>3, <3>2 DEF ApiInitFails, Conn, Over, Exited
        <5> QED
          BY <2>1, <5>1, <5>2 DEF Told
      <4> QED
        BY <2>1, <4>1, EndStep
    <3> QED
      BY <1>1, <3>1, <3>2 DEF MainInit
  <2> QED
    BY <1>1, <2>2, <2>3 DEF MainInit
<1>2. CASE MainConnect
  <2>1. Unseen
    BY <1>2 DEF MainConnect, ApiConnect, Unseen, Conn, Told, Over, Exited, Killed
  <2> QED
    BY <2>1, ContractStep
<1>3. CASE MainConnected
  <2>1. Unseen
    BY <1>3 DEF MainConnected, Unseen, Conn, Told, Over, Exited, Killed
  <2> QED
    BY <2>1, ContractStep
<1>4. CASE MainLoop
  <2>1. ~Over /\ ~Over' /\ Conn' = Conn
    BY <1>4 DEF MainLoop, ApiLoop, Conn, Over, Exited, Killed
  <2>2. CASE state = "SUBSCRIBE_COMPLETE"
    <3>1. client = "live" /\ client' = "live" /\ Conn = "acked"
      BY <1>4, <2>2 DEF MainLoop, ApiLoop, IInv, FlagInv, Conn
    <3>2. isConnected'
      BY <1>4, <2>2, Zenon DEF MainLoop, ApiLoop
    <3>3. Told' = TRUE
      BY <3>1, <3>2, Zenon DEF Told
    <3>4. CASE Told
      <4>1. Told' = Told
        BY <3>3, <3>4, Zenon DEF Told
      <4>2. Over' = Over
        BY <2>1 DEF Over
      <4> QED
        BY <2>1, <4>1, <4>2, ContractStep DEF Unseen
    <3>5. CASE ~Told
      <4>1. Over' = Over
        BY <2>1 DEF Over
      <4> QED
        BY <2>1, <3>1, <3>3, <3>5, <4>1, ContractStep
    <3> QED
      BY <3>4, <3>5
  <2>3. CASE state # "SUBSCRIBE_COMPLETE"
    <3>1. Told' = Told
      BY <1>4, <2>3 DEF MainLoop, ApiLoop, Told
    <3> QED
      BY <2>1, <3>1, ContractStep DEF Unseen, Over
  <2> QED
    BY <2>2, <2>3
<1>5. CASE MainLoopEnds
  <2>1. Unseen
    BY <1>5 DEF MainLoopEnds, Unseen, Conn, Told, Over, Exited, Killed
  <2> QED
    BY <2>1, ContractStep
<1>6. CASE MainReport
  <2>1. ~Over /\ Conn' = Conn /\ Told' = Told
    BY <1>6 DEF MainReport, ApiReport, SendOk, SendError, SendKills, Die, Conn, Told, Over, Exited, Killed
  <2>2. CASE pc' = "killed"
    BY <2>1, <2>2, EndStep DEF Over, Killed
  <2>3. CASE pc' # "killed"
    BY <1>6, <2>1, <2>3, ContractStep DEF MainReport, Unseen, Over, Exited, Killed
  <2> QED
    BY <2>2, <2>3
<1>7. CASE MainSkipReport
  <2>1. Unseen
    BY <1>7 DEF MainSkipReport, Unseen, Conn, Told, Over, Exited, Killed
  <2> QED
    BY <2>1, ContractStep
<1>8. CASE MainPause
  <2>1. Unseen
    BY <1>8 DEF MainPause, Unseen, Conn, Told, Over, Exited, Killed
  <2> QED
    BY <2>1, ContractStep
<1>9. CASE MainDeinit
  <2>1. Unseen
    BY <1>9 DEF MainDeinit, ApiDeinit, Unseen, Conn, Told, Over, Exited, Killed
  <2> QED
    BY <2>1, ContractStep
<1>10. CASE MainExit
  <2>1. ~Over /\ Over' /\ Conn' = Conn /\ Told' = Told
    BY <1>10 DEF MainExit, Conn, Told, Over, Exited, Killed
  <2> QED
    BY <2>1, EndStep
<1> QED
  BY <1>1, <1>2, <1>3, <1>4, <1>5, <1>6, <1>7, <1>8, <1>9, <1>10 DEF Main

\* The broker's answer to the subscribe is the contract's Ack; nothing else
\* that happens around the program is seen.
LEMMA EnvironmentRefines ==
  ASSUME IInv, EnvStep \/ Signal \/ SignalInterruptsDial
  PROVE  [Contract!CNext]_(Contract!cvars)
<1> USE DEF linkVars, ctxVars, mqttVars, callVars, wireVars, brokerVars
<1>1. CASE EnvStep /\ BrokerRead
  <2>1. /\ ~Over /\ Over' = Over /\ tcp = "up" /\ tcp' = "up"
        /\ Told' = Told
    BY <1>1 DEF EnvStep, BrokerRead, Told, Over, Exited, Killed
  <2>2. CASE subscription = "none"
    <3>1. ~Told /\ Conn = "open"
      BY <2>1, <2>2 DEF IInv, FlagInv, Told, Conn
    <3>2. Conn' \in {"open", "acked"}
      BY <2>1 DEF Conn
    <3> QED
      BY <2>1, <3>1, <3>2, ContractStep DEF Unseen
  <2>3. CASE subscription # "none"
    <3>1. subscription' # "none"
      BY <1>1, <2>3, LinkAssumption DEF BrokerRead
    <3> QED
      BY <2>1, <2>3, <3>1, ContractStep DEF Unseen, Conn
  <2> QED
    BY <2>2, <2>3
<1>2. CASE EnvStep /\ BrokerPublish
  <2>1. Unseen
    BY <1>2 DEF EnvStep, BrokerPublish, Unseen, Conn, Told, Over, Exited, Killed
  <2> QED
    BY <2>1, ContractStep
<1>3. CASE EnvStep /\ Break
  <2>1. Unseen
    BY <1>3, LinkAssumption DEF EnvStep, Break, Unseen, Conn, Told, Over, Exited, Killed
  <2> QED
    BY <2>1, ContractStep
<1>4. CASE EnvStep /\ ResetAfterFin
  <2>1. Unseen
    BY <1>4 DEF EnvStep, ResetAfterFin, Unseen, Conn, Told, Over, Exited, Killed
  <2> QED
    BY <2>1, ContractStep
<1>5. CASE Signal
  <2>1. Unseen
    BY <1>5 DEF Signal, Unseen, Conn, Told, Over, Exited, Killed
  <2> QED
    BY <2>1, ContractStep
<1>6. CASE SignalInterruptsDial
  <2>1. Unseen
    BY <1>6 DEF SignalInterruptsDial, Goto, Unseen, Conn, Told, Over, Exited, Killed
  <2> QED
    BY <2>1, ContractStep
<1> QED
  BY <1>1, <1>2, <1>3, <1>4, <1>5, <1>6 DEF EnvStep, Environment

\* The daemon implements LinkContract: the program is told of a connection only
\* when the broker has answered, told of its loss in the step that gives it
\* up, and no connection is opened over another.
THEOREM Refinement == Spec => ImplementsContract
<1>1. Init => Contract!CInit
  BY DEF Init, LinkInit, Contract!CInit, Exited, Killed
<1>2. IInv /\ [Next]_vars => [Contract!CNext]_(Contract!cvars)
  <2> SUFFICES ASSUME IInv, [Next]_vars PROVE [Contract!CNext]_(Contract!cvars)
    OBVIOUS
  <2>1. CASE UNCHANGED vars
    BY <2>1 DEF vars, linkVars, ctxVars, mqttVars, callVars, wireVars, brokerVars,
                Contract!cvars, Exited, Killed
  <2> QED
    BY <2>1, LinkStepRefines, MainRefines, EnvironmentRefines DEF Next, Ended
<1> QED
  BY <1>1, <1>2, Invariance, PTL DEF Spec, ImplementsContract, Contract!CSpec
=============================================================================
