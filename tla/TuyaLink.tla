------------------------------ MODULE TuyaLink ------------------------------
(***************************************************************************)
(* The connection of a device to the Tuya cloud, from the SDK's public API *)
(* (tuyalink_core.c) through the MQTT wrapper (mqtt_client_wrapper.c) and  *)
(* coreMQTT down to the TLS socket and the broker at its other end.        *)
(*                                                                         *)
(* The SDK has no thread: it runs inside the calls its user makes.  pc     *)
(* says which blocking step of such a call comes next ("app" when control  *)
(* is with the user), op which call it is.  Between two steps the peer,    *)
(* the network and the kernel act.  A module that EXTENDS this one adds    *)
(* the user: when it calls, and what it does with the result.              *)
(***************************************************************************)
EXTENDS Naturals, Sequences

CONSTANTS
  MaxPacketId,   \* UINT16_MAX: the last MQTT packet identifier
  Window,        \* packets in flight to the broker before a write blocks
  MaxFaults,     \* bound: faults of network and broker in a behaviour
  MaxPublish,    \* bound: messages the broker pushes in a behaviour
  LinkFaults,    \* the ways an open connection may break
  SubackCodes    \* the answers the broker gives to a SUBSCRIBE

ASSUME LinkAssumption ==
  /\ MaxPacketId \in Nat \ {0}
  /\ Window \in Nat \ {0}
  /\ MaxFaults \in Nat
  /\ MaxPublish \in Nat
  /\ LinkFaults \subseteq {"lost", "fin", "notify", "rst"}
  /\ SubackCodes \subseteq {"granted", "refused"}
  /\ SubackCodes # {}

VARIABLES
  \* tuya_mqtt_context_t
  state, isConnected, autoSubEnabled, autoSubId, manualDisconnect,
  \* MQTTContext_t
  nextPacketId, waitingForPingResp,
  \* the client object: "none" before tuya_mqtt_init, "freed" after deinit
  client,
  \* control: the next step, the API call it belongs to, the last result
  pc, op, rc,
  \* the socket as the kernel sees it, and the packets in flight
  tcp, outbox, inbox,
  \* the broker's session on this connection, and the bounds' counters
  session, subscription, faults, published

ctxVars    == <<state, isConnected, autoSubEnabled, autoSubId, manualDisconnect>>
mqttVars   == <<nextPacketId, waitingForPingResp>>
callVars   == <<pc, op, rc>>
wireVars   == <<tcp, outbox, inbox>>
brokerVars == <<session, subscription, faults, published>>
linkVars   == <<ctxVars, mqttVars, client, callVars, wireVars, brokerVars>>

States == {"UNINIT", "IDLE", "CONNECTING", "SUBSCRIBING",
           "SUBSCRIBE_COMPLETE", "YIELD"}
Steps  == {"app", "dial", "login", "connack", "autosub", "yield", "yielded",
           "hangup", "killed"}
Calls  == {"none", "connect", "reconnect", "yield", "disconnect", "deinit"}

(***************************************************************************)
(* States of the socket.  "lost": the peer is unreachable and silent;      *)
(* "fin" / "notify": the peer closed, without / with a TLS close_notify;   *)
(* "rst": a reset arrived and its error is pending; "epipe": a reset       *)
(* arrived after the peer's FIN; "dead": the pending error was consumed.   *)
(***************************************************************************)
TcpStates == {"closed", "up", "lost", "fin", "notify", "rst", "epipe", "dead"}

PacketIds == 0 .. MaxPacketId
UpPackets   == [type : {"CONNECT", "SUBSCRIBE", "PUBLISH", "PUBACK", "PINGREQ"},
                id : PacketIds]
DownPackets == [type : {"CONNACK", "SUBACK", "PUBLISH", "PINGRESP"},
                id : PacketIds, code : {"granted", "refused", "none"}]

Up(type, id) == [type |-> type, id |-> id]
Down(type, id, code) == [type |-> type, id |-> id, code |-> code]

LinkInit ==
  /\ state = "UNINIT" /\ isConnected = FALSE /\ autoSubEnabled = FALSE
  /\ autoSubId = 0 /\ manualDisconnect = FALSE
  /\ nextPacketId = 0 /\ waitingForPingResp = FALSE
  /\ client = "none"
  /\ pc = "app" /\ op = "none" /\ rc = "ok"
  /\ tcp = "closed" /\ outbox = <<>> /\ inbox = <<>>
  /\ session = FALSE /\ subscription = "none"
  /\ faults = MaxFaults /\ published = 0

LinkTypeOK ==
  /\ state \in States
  /\ isConnected \in BOOLEAN /\ autoSubEnabled \in BOOLEAN
  /\ autoSubId \in PacketIds /\ manualDisconnect \in BOOLEAN
  /\ nextPacketId \in PacketIds /\ waitingForPingResp \in BOOLEAN
  /\ client \in {"none", "live", "freed"}
  /\ pc \in Steps /\ op \in Calls /\ rc \in {"ok", "error"}
  /\ tcp \in TcpStates
  /\ outbox \in Seq(UpPackets) /\ inbox \in Seq(DownPackets)
  /\ session \in BOOLEAN /\ subscription \in {"none", "granted", "refused"}
  /\ faults \in Nat /\ published \in Nat

-----------------------------------------------------------------------------
(* Reading and writing the socket.                                         *)

\* A write the kernel accepts: it reaches the peer only while the link is up,
\* and blocks while the peer's window is full.
SendOk(p) ==
  /\ tcp \in {"up", "lost", "fin", "notify"}
  /\ tcp = "up" => Len(outbox) < Window
  /\ outbox' = IF tcp = "up" THEN Append(outbox, p) ELSE outbox
  /\ UNCHANGED tcp

\* A write that returns an error: the pending reset is consumed; a TLS
\* context that was freed refuses the call.
SendError ==
  /\ tcp \in {"rst", "closed"}
  /\ tcp' = IF tcp = "rst" THEN "dead" ELSE tcp
  /\ UNCHANGED outbox

\* A write on a connection known to be reset raises SIGPIPE, whose default
\* action nothing in the program changes.
SendKills == tcp \in {"epipe", "dead"}

Die ==
  /\ pc' = "killed"
  /\ UNCHANGED <<ctxVars, mqttVars, client, op, rc, wireVars, brokerVars>>

\* Nothing to read before the read timeout.  An end of file is reported the
\* same way, and so is every read after the error of a reset was consumed.
ReadNothing ==
  /\ inbox = <<>>
  /\ tcp \in {"up", "lost", "fin", "dead"}

\* The read fails: the peer's close_notify, a pending reset, a freed context.
ReadError ==
  /\ inbox = <<>>
  /\ tcp \in {"notify", "rst", "epipe", "closed"}
  /\ tcp' = IF tcp \in {"rst", "epipe"} THEN "dead" ELSE tcp

\* MQTT_GetPacketId: identifiers run from 1 to UINT16_MAX and around.
NextPacketId(id) == IF id = MaxPacketId THEN 1 ELSE id + 1

Goto(step) == pc' = step /\ UNCHANGED <<op, rc>>
Return(result) == pc' = "app" /\ op' = "none" /\ rc' = result

-----------------------------------------------------------------------------
(* mqtt_client_connect, step by step.                                      *)

\* network.connect succeeds: a new socket, a new connection at the broker.
DialOk ==
  /\ pc = "dial"
  /\ tcp' = "up" /\ outbox' = <<>> /\ inbox' = <<>>
  /\ session' = FALSE /\ subscription' = "none"
  /\ Goto("login")
  /\ UNCHANGED <<ctxVars, mqttVars, client, faults, published>>

\* Name resolution, TCP connect or TLS handshake fails.
DialFail ==
  /\ pc = "dial"
  /\ faults > 0 /\ faults' = faults - 1
  /\ Goto("hangup")
  /\ UNCHANGED <<ctxVars, mqttVars, client, wireVars, session, subscription,
                 published>>

\* MQTT_Connect sends CONNECT ...
Login ==
  /\ pc = "login"
  /\ \/ /\ SendOk(Up("CONNECT", 0))
        /\ Goto("connack")
        /\ UNCHANGED <<ctxVars, mqttVars, client, inbox, brokerVars>>
     \/ /\ SendError
        /\ Goto("hangup")
        /\ UNCHANGED <<ctxVars, mqttVars, client, inbox, brokerVars>>
     \/ SendKills /\ Die

\* ... and reads the CONNACK: acceptance arms the keep-alive afresh, anything
\* else fails the call.
ReceiveConnack ==
  /\ pc = "connack"
  /\ inbox # <<>>
  /\ inbox' = Tail(inbox)
  /\ IF Head(inbox) = Down("CONNACK", 0, "granted")
       THEN waitingForPingResp' = FALSE /\ Goto("autosub")
       ELSE UNCHANGED waitingForPingResp /\ Goto("hangup")
  /\ UNCHANGED <<ctxVars, nextPacketId, client, tcp, outbox, brokerVars>>

\* Variant: a CONNACK that is late is not an error.
ConnackNotAwaited ==
  /\ pc = "connack" /\ ReadNothing
  /\ Goto("autosub")
  /\ UNCHANGED <<ctxVars, mqttVars, client, wireVars, brokerVars>>

\* No CONNACK within timeout_ms, or the read fails.  A broker that is up
\* answers late only as a fault.
ConnackMissing ==
  /\ pc = "connack"
  /\ \/ /\ ReadNothing
        /\ \/ tcp # "up" /\ UNCHANGED faults
           \/ tcp = "up" /\ faults > 0 /\ faults' = faults - 1
        /\ UNCHANGED tcp
     \/ ReadError /\ UNCHANGED faults
  /\ Goto("hangup")
  /\ UNCHANGED <<ctxVars, mqttVars, client, outbox, inbox, session,
                 subscription, published>>

\* mqtt_client_subscribe returns the identifier it sent, 0 when the send
\* failed.
KeepIdAfterUse(sent) ==    \* variant: reads the counter after taking the id
  autoSubId' = IF sent THEN NextPacketId(nextPacketId) ELSE 0
KeepSubscribeId(sent) == autoSubId' = IF sent THEN nextPacketId ELSE 0

\* mqtt_client_connected_cb subscribes to the auto_subscribe topic; then the
\* caller of mqtt_client_connect moves on to SUBSCRIBING.
AutoSubscribe ==
  /\ pc = "autosub"
  /\ \/ /\ \/ SendOk(Up("SUBSCRIBE", nextPacketId)) /\ KeepSubscribeId(TRUE)
           \/ SendError /\ KeepSubscribeId(FALSE)
        /\ nextPacketId' = NextPacketId(nextPacketId)
        /\ state' = "SUBSCRIBING"
        /\ Return("ok")
        /\ UNCHANGED <<isConnected, autoSubEnabled, manualDisconnect,
                       waitingForPingResp, client, inbox, brokerVars>>
     \/ SendKills /\ Die

-----------------------------------------------------------------------------
(* mqtt_client_yield: MQTT_ProcessLoop, one receiveSingleIteration a step. *)

\* The SUBACK of the pending auto-subscribe completes the subscription,
\* whatever return code it carries; any other SUBACK is ignored.
ReceiveSuback ==
  /\ pc = "yield"
  /\ inbox # <<>> /\ Head(inbox).type = "SUBACK"
  /\ inbox' = Tail(inbox)
  /\ IF Head(inbox).id = autoSubId
       THEN autoSubId' = 0 /\ autoSubEnabled' = TRUE /\ state' = "SUBSCRIBE_COMPLETE"
       ELSE UNCHANGED <<autoSubId, autoSubEnabled, state>>
  /\ Goto("yielded")
  /\ UNCHANGED <<isConnected, manualDisconnect, mqttVars, client, tcp, outbox,
                 brokerVars>>

ReceivePingresp ==
  /\ pc = "yield"
  /\ inbox # <<>> /\ Head(inbox).type = "PINGRESP"
  /\ inbox' = Tail(inbox)
  /\ waitingForPingResp' = FALSE
  /\ Goto("yielded")
  /\ UNCHANGED <<ctxVars, nextPacketId, client, tcp, outbox, brokerVars>>

\* A message goes to the user's callback; one of QoS 1 (id # 0) is then
\* acknowledged, and a failing PUBACK fails the loop.
ReceivePublish ==
  /\ pc = "yield"
  /\ inbox # <<>> /\ Head(inbox).type = "PUBLISH"
  /\ \/ /\ inbox' = Tail(inbox)
        /\ \/ Head(inbox).id = 0 /\ UNCHANGED <<tcp, outbox>> /\ Goto("yielded")
           \/ /\ Head(inbox).id # 0
              /\ \/ SendOk(Up("PUBACK", Head(inbox).id)) /\ Goto("yielded")
                 \/ SendError /\ Goto("hangup")
        /\ UNCHANGED <<ctxVars, mqttVars, client, brokerVars>>
     \/ Head(inbox).id # 0 /\ SendKills /\ Die

\* Nothing arrived and no keep-alive is due.
Idle ==
  /\ pc = "yield"
  /\ ReadNothing
  /\ Goto("yielded")
  /\ UNCHANGED <<ctxVars, mqttVars, client, wireVars, brokerVars>>

\* Nothing arrived and the keep-alive interval has passed: handleKeepAlive
\* pings.  (The clock is abstracted here; KeepAlive.tla has it.)
Ping ==
  /\ pc = "yield"
  /\ ReadNothing
  /\ \/ /\ SendOk(Up("PINGREQ", 0))
        /\ waitingForPingResp' = TRUE
        /\ Goto("yielded")
        /\ UNCHANGED <<ctxVars, nextPacketId, client, inbox, brokerVars>>
     \/ /\ SendKills /\ Die

\* Variant: the keep-alive timeout does not fail the loop.
PingTimeoutIgnored ==
  /\ pc = "yield" /\ ReadNothing /\ waitingForPingResp
  /\ Goto("yielded")
  /\ UNCHANGED <<ctxVars, mqttVars, client, wireVars, brokerVars>>

\* A ping has been unanswered for MQTT_PINGRESP_TIMEOUT_MS: the loop fails
\* with MQTTKeepAliveTimeout.  A broker that is up is that late only as a
\* fault.
PingTimeout ==
  /\ pc = "yield"
  /\ ReadNothing
  /\ waitingForPingResp
  /\ \/ tcp # "up" /\ UNCHANGED faults
     \/ tcp = "up" /\ faults > 0 /\ faults' = faults - 1
  /\ Goto("hangup")
  /\ UNCHANGED <<ctxVars, mqttVars, client, wireVars, session, subscription,
                 published>>

ReceiveError ==
  /\ pc = "yield"
  /\ ReadError
  /\ Goto("hangup")
  /\ UNCHANGED <<ctxVars, mqttVars, client, outbox, inbox, brokerVars>>

\* The loop runs for timeout_ms: another iteration, or back to the caller.
TimeLeft ==
  /\ pc = "yielded"
  /\ Goto("yield")
  /\ UNCHANGED <<ctxVars, mqttVars, client, wireVars, brokerVars>>

TimeUp ==
  /\ pc = "yielded"
  /\ Return("ok")
  /\ UNCHANGED <<ctxVars, mqttVars, client, wireVars, brokerVars>>

-----------------------------------------------------------------------------
(* network.disconnect, at the end of every call that gives the connection  *)
(* up, and what that call does after it.                                   *)

KeepSocket == UNCHANGED <<wireVars, brokerVars>>   \* variant: closes nothing
CloseSocket ==
  /\ tcp' = "closed" /\ outbox' = <<>> /\ inbox' = <<>>
  /\ session' = FALSE /\ subscription' = "none"
  /\ UNCHANGED <<faults, published>>

\* Variants: the flag, or the state, survives the connection.
DisconnectedCbKeepsFlag ==
  /\ autoSubEnabled' = FALSE /\ state' = "CONNECTING" /\ UNCHANGED isConnected
DisconnectedCbKeepsState ==
  /\ autoSubEnabled' = FALSE /\ isConnected' = FALSE /\ UNCHANGED state

\* mqtt_client_disconnected_cb
DisconnectedCb ==
  /\ autoSubEnabled' = FALSE
  /\ isConnected' = FALSE
  /\ state' = IF manualDisconnect THEN state ELSE "CONNECTING"

\* close_notify is one more write: on a reset connection it is fatal.
Hangup ==
  /\ pc = "hangup"
  /\ \/ /\ ~SendKills
        /\ CloseSocket
        /\ IF op \in {"yield", "disconnect"}
             THEN DisconnectedCb
             ELSE UNCHANGED <<autoSubEnabled, isConnected, state>>
        /\ manualDisconnect' = (manualDisconnect \/ op = "disconnect")
        /\ client' = IF op = "deinit" THEN "freed" ELSE client
        /\ Return(IF op = "connect" THEN "error" ELSE "ok")
        /\ UNCHANGED <<autoSubId, mqttVars>>
     \/ SendKills /\ Die

-----------------------------------------------------------------------------
(* The API: what a call does before its first blocking step.               *)

\* tuya_mqtt_init clears the context first; failing (signature, allocation,
\* TLS or MQTT initialisation) it leaves it so, UNINIT.
CtxCleared ==
  /\ isConnected' = FALSE /\ autoSubEnabled' = FALSE /\ autoSubId' = 0

ApiInit ==
  /\ pc = "app"
  /\ client' = "live"
  /\ CtxCleared
  /\ state' = "IDLE" /\ manualDisconnect' = TRUE
  /\ nextPacketId' = 1 /\ waitingForPingResp' = FALSE
  /\ rc' = "ok"
  /\ UNCHANGED <<pc, op, wireVars, brokerVars>>

ApiInitFails ==
  /\ pc = "app"
  /\ faults > 0 /\ faults' = faults - 1
  /\ CtxCleared
  /\ state' = "UNINIT" /\ manualDisconnect' = FALSE
  /\ rc' = "error"
  /\ UNCHANGED <<mqttVars, client, pc, op, wireVars, session, subscription,
                 published>>

\* Variant: a manual disconnect is remembered over the next connect.
ApiConnectKeepsManual ==
  /\ pc = "app" /\ client = "live"
  /\ pc' = "dial" /\ op' = "connect" /\ UNCHANGED rc
  /\ UNCHANGED <<ctxVars, mqttVars, client, wireVars, brokerVars>>

\* tuya_mqtt_connect
ApiConnect ==
  /\ pc = "app" /\ client = "live"
  /\ manualDisconnect' = FALSE
  /\ pc' = "dial" /\ op' = "connect" /\ UNCHANGED rc
  /\ UNCHANGED <<state, isConnected, autoSubEnabled, autoSubId, mqttVars, client,
                 wireVars, brokerVars>>

\* tuya_mqtt_loop: one case per state.
ApiLoop ==
  /\ pc = "app" /\ client = "live"
  /\ \/ /\ state = "IDLE"
        /\ UNCHANGED <<state, isConnected, callVars>>
     \/ /\ state = "CONNECTING"
        /\ pc' = "dial" /\ op' = "reconnect"
        /\ UNCHANGED <<state, isConnected, rc>>
     \/ /\ state \in {"SUBSCRIBING", "YIELD"}
        /\ pc' = "yield" /\ op' = "yield"
        /\ UNCHANGED <<state, isConnected, rc>>
     \/ /\ state = "SUBSCRIBE_COMPLETE"
        /\ isConnected' = TRUE /\ state' = "YIELD"
        /\ UNCHANGED callVars
  /\ UNCHANGED <<autoSubEnabled, autoSubId, manualDisconnect, mqttVars, client,
                 wireVars, brokerVars>>

\* tuya_mqtt_disconnect
ApiDisconnect ==
  /\ pc = "app" /\ client = "live"
  /\ pc' = "hangup" /\ op' = "disconnect" /\ UNCHANGED rc
  /\ UNCHANGED <<ctxVars, mqttVars, client, wireVars, brokerVars>>

\* tuya_mqtt_deinit
ApiDeinit ==
  /\ pc = "app" /\ client = "live"
  /\ pc' = "hangup" /\ op' = "deinit" /\ UNCHANGED rc
  /\ UNCHANGED <<ctxVars, mqttVars, client, wireVars, brokerVars>>

\* tuyalink_thing_property_report: a QoS 0 PUBLISH, which still takes a
\* packet identifier.  A failing send is logged and changes nothing else.
ApiReport ==
  /\ pc = "app" /\ client = "live"
  /\ \/ /\ SendOk(Up("PUBLISH", nextPacketId)) \/ SendError
        /\ nextPacketId' = NextPacketId(nextPacketId)
        /\ UNCHANGED <<ctxVars, waitingForPingResp, client, callVars, inbox,
                       brokerVars>>
     \/ SendKills /\ Die

-----------------------------------------------------------------------------
(* The broker and the network.                                             *)

\* The broker reads the next packet and answers it, and never stops reading
\* because its own answers wait.  It accepts a CONNECT unless it has a fault,
\* and grants or refuses a SUBSCRIBE.
BrokerRead ==
  /\ tcp = "up" /\ outbox # <<>>
  /\ outbox' = Tail(outbox)
  /\ LET p == Head(outbox) IN
     \/ /\ p.type = "CONNECT"
        /\ \/ /\ session' = TRUE
              /\ inbox' = Append(inbox, Down("CONNACK", 0, "granted"))
              /\ UNCHANGED faults
           \/ /\ faults > 0 /\ faults' = faults - 1
              /\ inbox' = Append(inbox, Down("CONNACK", 0, "refused"))
              /\ UNCHANGED session
        /\ UNCHANGED subscription
     \/ /\ p.type = "SUBSCRIBE"
        /\ \E code \in SubackCodes :
             /\ subscription' = code
             /\ inbox' = Append(inbox, Down("SUBACK", p.id, code))
        /\ UNCHANGED <<session, faults>>
     \/ /\ p.type = "PINGREQ"
        /\ inbox' = Append(inbox, Down("PINGRESP", 0, "none"))
        /\ UNCHANGED <<session, subscription, faults>>
     \/ /\ p.type \in {"PUBLISH", "PUBACK"}
        /\ UNCHANGED <<inbox, session, subscription, faults>>
  /\ UNCHANGED <<ctxVars, mqttVars, client, callVars, tcp, published>>

\* The broker pushes a message of QoS 0 (id 0) or 1 to its subscriber.
BrokerPublish ==
  /\ tcp = "up" /\ subscription = "granted"
  /\ published < MaxPublish /\ published' = published + 1
  /\ \E id \in {0, 1} : inbox' = Append(inbox, Down("PUBLISH", id, "none"))
  /\ UNCHANGED <<ctxVars, mqttVars, client, callVars, tcp, outbox, session,
                 subscription, faults>>

\* The connection breaks.  What has arrived can still be read; what is on its
\* way to the broker is lost.
Break ==
  /\ tcp = "up" /\ faults > 0 /\ faults' = faults - 1
  /\ tcp' \in LinkFaults /\ outbox' = <<>>
  /\ UNCHANGED <<ctxVars, mqttVars, client, callVars, inbox, session,
                 subscription, published>>

\* A peer that closed answers what still arrives with a reset.
ResetAfterFin ==
  /\ tcp \in {"fin", "notify"}
  /\ tcp' = "epipe"
  /\ UNCHANGED <<ctxVars, mqttVars, client, callVars, outbox, inbox, brokerVars>>

LinkStep ==
  \/ DialOk \/ DialFail \/ Login \/ ReceiveConnack \/ ConnackMissing
  \/ AutoSubscribe
  \/ ReceiveSuback \/ ReceivePingresp \/ ReceivePublish
  \/ Idle \/ Ping \/ PingTimeout \/ ReceiveError
  \/ TimeLeft \/ TimeUp
  \/ Hangup

Environment == BrokerRead \/ BrokerPublish \/ Break \/ ResetAfterFin
=============================================================================
