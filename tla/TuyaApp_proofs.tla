---------------------------- MODULE TuyaApp_proofs ----------------------------
(***************************************************************************)
(* That the link follows a program that connects, disconnects and starts   *)
(* over as it likes, and keeps LinkContract for it, for every identifier   *)
(* width, window and number of faults and messages.                        *)
(***************************************************************************)
EXTENDS TuyaApp, TLAPS

Linked == {"SUBSCRIBING", "SUBSCRIBE_COMPLETE", "YIELD"}

\* What the argument needs of the types.
Shape ==
  /\ op \in Calls /\ rc \in {"ok", "error"} /\ client \in {"none", "live", "freed"}
  /\ user \in {"down", "connecting", "up"}
  /\ \E S : inbox \in Seq(S)

\* The step in progress belongs to a call that has such a step, and the socket
\* is as that step needs it.
CallInv ==
  /\ pc = "app" => op = "none"
  /\ pc = "dial" => tcp = "closed"
  /\ pc \in {"dial", "login", "connack", "autosub"} => op \in {"connect", "reconnect"}
  /\ pc \in {"yield", "yielded"} => op = "yield"
  /\ pc = "hangup" => op # "none"
  /\ pc \in {"login", "connack", "autosub", "yield", "yielded"} => tcp # "closed"

\* The flags hold only on a connection whose auto-subscribe was answered.
FlagInv ==
  /\ isConnected => autoSubEnabled
  /\ state = "SUBSCRIBE_COMPLETE" => autoSubEnabled \/ client # "live"
  /\ op \in {"connect", "reconnect"} => ~autoSubEnabled
  /\ autoSubEnabled /\ client = "live" => tcp # "closed" /\ subscription # "none"
  /\ subscription = "none" => \A i \in DOMAIN inbox : inbox[i].type # "SUBACK"

\* What the user asked for, the call it is in, and what has become of it.
UserInv ==
  /\ op = "connect" => user = "connecting"
  /\ op \in {"reconnect", "yield"} => user = "up"
  /\ op \in {"disconnect", "deinit"} => user = "down" /\ pc \in {"hangup", "killed"}
  /\ op # "none" \/ user # "down" => client = "live"
  /\ user # "down" \/ op = "disconnect" => ~manualDisconnect
  /\ user = "down" /\ op = "none" => tcp = "closed"
  /\ user = "connecting" /\ op = "none" =>
       IF rc = "ok" THEN tcp # "closed" /\ state = "SUBSCRIBING" ELSE tcp = "closed"
  /\ user = "up" /\ op = "none" =>
       IF tcp = "closed" THEN state = "CONNECTING" ELSE state \in Linked
  /\ user = "connecting" => op \in {"none", "connect"}
  /\ op = "reconnect" => state = "CONNECTING"
  /\ op = "yield" => state \in Linked

IInv == Shape /\ CallInv /\ FlagInv /\ UserInv

-----------------------------------------------------------------------------
(* The inductive invariant.                                                *)

\* A program that has not called the SDK satisfies the invariant.
LEMMA InvInit == Init => IInv
<1> SUFFICES ASSUME Init PROVE IInv
  OBVIOUS
<1>1. inbox \in Seq({})
  BY DEF Init, LinkInit
<1> QED BY <1>1 DEF Init, LinkInit, IInv, Shape, CallInv, FlagInv, UserInv, Calls

\* Reading a packet leaves a sequence, and no SUBACK that was not there.
LEMMA TailKeeps ==
  ASSUME NEW S, inbox \in Seq(S), inbox # <<>>, inbox' = Tail(inbox)
  PROVE  /\ inbox' \in Seq(S)
         /\ (\A i \in DOMAIN inbox : inbox[i].type # "SUBACK")
              => \A i \in DOMAIN inbox' : inbox'[i].type # "SUBACK"
OBVIOUS

\* A packet from the broker is added to the sequence.
LEMMA AppendKeeps ==
  ASSUME NEW S, inbox \in Seq(S), NEW d, inbox' = Append(inbox, d)
  PROVE  /\ inbox' \in Seq(S \cup {d})
         /\ (\A i \in DOMAIN inbox : inbox[i].type # "SUBACK") /\ d.type # "SUBACK"
              => \A i \in DOMAIN inbox' : inbox'[i].type # "SUBACK"
<1>1. inbox \in Seq(S \cup {d}) /\ d \in S \cup {d}
  OBVIOUS
<1> QED BY <1>1

\* Every step of a call keeps the invariant.
LEMMA LinkStepInv ==
  ASSUME IInv, SdkStep
  PROVE  IInv'
<1> USE DEF linkVars, ctxVars, mqttVars, callVars, wireVars, brokerVars, avars,
            Goto, Return, Linked, Calls
<1> USE DEF IInv, Shape, CallInv, FlagInv, UserInv
<1>c. user' = user /\ LinkStep
  BY DEF SdkStep
<1>e. <<>> \in Seq({})
  OBVIOUS
<1>1. CASE DialOk
  BY <1>1, <1>c, <1>e DEF DialOk
<1>2. CASE DialFail
  BY <1>2, <1>c DEF DialFail
<1>3. CASE Login
  BY <1>3, <1>c DEF Login, SendOk, SendError, SendKills, Die
<1>4. CASE ReceiveConnack
  BY <1>4, <1>c, TailKeeps DEF ReceiveConnack
<1>5. CASE ConnackMissing
  BY <1>5, <1>c DEF ConnackMissing, ReadNothing, ReadError
<1>6. CASE AutoSubscribe
  BY <1>6, <1>c DEF AutoSubscribe, SendOk, SendError, SendKills, Die, KeepSubscribeId
<1>7. CASE ReceiveSuback
  BY <1>7, <1>c, TailKeeps DEF ReceiveSuback
<1>8. CASE ReceivePingresp
  BY <1>8, <1>c, TailKeeps DEF ReceivePingresp
<1>9. CASE ReceivePublish
  BY <1>9, <1>c, TailKeeps DEF ReceivePublish, SendOk, SendError, SendKills, Die
<1>10. CASE Idle
  BY <1>10, <1>c DEF Idle, ReadNothing
<1>11. CASE Ping
  BY <1>11, <1>c DEF Ping, SendOk, SendKills, Die
<1>12. CASE PingTimeout
  BY <1>12, <1>c DEF PingTimeout
<1>13. CASE ReceiveError
  BY <1>13, <1>c DEF ReceiveError, ReadError
<1>14. CASE TimeLeft
  BY <1>14, <1>c DEF TimeLeft
<1>15. CASE TimeUp
  BY <1>15, <1>c DEF TimeUp
<1>16. CASE Hangup
  <2>1. CASE SendKills /\ Die
    BY <1>c, <2>1 DEF Die
  <2>2. CASE ~(SendKills /\ Die)
    <3>1. /\ tcp' = "closed" /\ inbox' = <<>> /\ subscription' = "none"
          /\ pc' = "app" /\ op' = "none" /\ op # "none"
          /\ rc' = IF op = "connect" THEN "error" ELSE "ok"
          /\ client' = IF op = "deinit" THEN "freed" ELSE client
          /\ user' = user
      BY <1>16, <1>c, <2>2 DEF Hangup, CloseSocket
    <3>2. Shape' /\ CallInv'
      BY <3>1, <1>e
    <3>3. CASE op \in {"yield", "disconnect"}
      <4>1. ~autoSubEnabled' /\ ~isConnected'
        BY <1>16, <2>2, <3>3, Zenon DEF Hangup, DisconnectedCb
      <4>2. state' = IF manualDisconnect THEN state ELSE "CONNECTING"
        BY <1>16, <2>2, <3>3 DEF Hangup, DisconnectedCb
      <4>3. op = "yield" => ~manualDisconnect'
        BY <1>16, <2>2, Zenon DEF Hangup
      <4>4. FlagInv'
        BY <3>1, <3>3, <4>1, <4>2
      <4>5. UserInv'
        BY <3>1, <3>3, <4>2, <4>3
      <4> QED BY <3>2, <4>4, <4>5
    <3>4. CASE op \in {"connect", "reconnect", "deinit"}
      <4>1. UNCHANGED <<autoSubEnabled, isConnected, state>>
        BY <1>16, <2>2, <3>4 DEF Hangup
      <4>2. ~manualDisconnect => ~manualDisconnect'
        BY <1>16, <2>2, <3>4, Zenon DEF Hangup
      <4>3. FlagInv'
        BY <3>1, <3>4, <4>1
      <4>4. UserInv'
        BY <3>1, <3>4, <4>1, <4>2
      <4> QED BY <3>2, <4>3, <4>4
    <3> QED BY <3>1, <3>3, <3>4
  <2> QED BY <2>1, <2>2
<1> QED
  BY <1>c, <1>1, <1>2, <1>3, <1>4, <1>5, <1>6, <1>7, <1>8, <1>9, <1>10, <1>11, <1>12,
     <1>13, <1>14, <1>15, <1>16 DEF LinkStep

\* So does every call of the user.
LEMMA UserStepInv ==
  ASSUME IInv, User
  PROVE  IInv'
<1> USE DEF linkVars, ctxVars, mqttVars, callVars, wireVars, brokerVars, avars,
            Linked, Calls
<1> USE DEF IInv, Shape, CallInv, FlagInv, UserInv
<1>1. CASE UserInit
  BY <1>1 DEF UserInit, ApiInit, ApiInitFails, CtxCleared
<1>2. CASE UserConnect
  BY <1>2 DEF UserConnect, ApiConnect
<1>3. CASE UserConnected
  BY <1>3 DEF UserConnected
<1>4. CASE UserLoop
  BY <1>4 DEF UserLoop, ApiLoop
<1>5. CASE UserReport
  <2>1. CASE SendKills /\ Die
    BY <1>5, <2>1 DEF UserReport, Die
  <2>2. CASE ~(SendKills /\ Die)
    <3>1. /\ tcp' = "closed" <=> tcp = "closed"
          /\ UNCHANGED <<ctxVars, client, callVars, inbox, brokerVars, user>>
      BY <1>5, <2>2 DEF UserReport, ApiReport, SendOk, SendError
    <3>2. Shape' /\ CallInv' /\ FlagInv'
      BY <3>1
    <3>3. UserInv'
      BY <3>1
    <3> QED BY <3>2, <3>3
  <2> QED BY <2>1, <2>2
<1>6. CASE UserDisconnect
  BY <1>6 DEF UserDisconnect, ApiDisconnect
<1>7. CASE UserDeinit
  BY <1>7 DEF UserDeinit, ApiDeinit
<1> QED
  BY <1>1, <1>2, <1>3, <1>4, <1>5, <1>6, <1>7 DEF User

\* And so do the broker and the network.
LEMMA EnvironmentInv ==
  ASSUME IInv, EnvStep
  PROVE  IInv'
<1> USE DEF linkVars, ctxVars, mqttVars, callVars, wireVars, brokerVars, avars,
            Linked, Calls
<1> USE DEF IInv, Shape, CallInv, FlagInv, UserInv
<1>c. user' = user /\ (BrokerRead \/ BrokerPublish \/ Break \/ ResetAfterFin)
  BY DEF EnvStep, Environment
<1>1. CASE BrokerRead
  <2>1. UNCHANGED <<ctxVars, mqttVars, client, callVars, tcp, user>> /\ tcp = "up"
    BY <1>1, <1>c DEF BrokerRead
  <2>2. subscription' = "none" => subscription = "none" /\ Head(outbox).type # "SUBSCRIBE"
    BY <1>1, LinkAssumption DEF BrokerRead
  <2>3. inbox' = inbox \/ \E d : inbox' = Append(inbox, d)
    BY <1>1, Zenon DEF BrokerRead
  <2>4. Head(outbox).type # "SUBSCRIBE" =>
          \/ inbox' = inbox
          \/ \E d \in {Down("CONNACK", 0, "granted"), Down("CONNACK", 0, "refused"),
                       Down("PINGRESP", 0, "none")} : inbox' = Append(inbox, d)
    BY <1>1, Zenon DEF BrokerRead
  <2>5. \A d \in {Down("CONNACK", 0, "granted"), Down("CONNACK", 0, "refused"),
                  Down("PINGRESP", 0, "none")} : d.type # "SUBACK"
    BY DEF Down
  <2>6. \E S : inbox' \in Seq(S)
    BY <2>3, AppendKeeps
  <2>7. subscription' = "none" => \A i \in DOMAIN inbox' : inbox'[i].type # "SUBACK"
    BY <2>2, <2>4, <2>5, AppendKeeps
  <2> QED
    BY <2>1, <2>2, <2>6, <2>7
<1>2. CASE BrokerPublish
  BY <1>2, <1>c, AppendKeeps DEF BrokerPublish
<1>3. CASE Break
  BY <1>3, <1>c, LinkAssumption DEF Break
<1>4. CASE ResetAfterFin
  BY <1>4, <1>c DEF ResetAfterFin
<1> QED
  BY <1>c, <1>1, <1>2, <1>3, <1>4

\* Every step keeps the invariant.
LEMMA InvStep == IInv /\ [Next]_avars => IInv'
<1>1. IInv /\ UNCHANGED avars => IInv'
  BY DEF avars, linkVars, ctxVars, mqttVars, callVars, wireVars, brokerVars,
         IInv, Shape, CallInv, FlagInv, UserInv
<1> QED BY <1>1, LinkStepInv, UserStepInv, EnvironmentInv DEF Next, Ended

\* The invariant holds in every reachable state, whatever the user does.
THEOREM Invariance == Spec => []IInv
BY InvInit, InvStep, PTL DEF Spec

\* A program that disconnected has no socket; one that wants the link has a
\* state machine that knows whether there is one; no call of tuyalink_core.c
\* dials over an open socket.
THEOREM UserFollowed == Spec => []FollowsUser
<1>1. IInv => FollowsUser
  BY DEF IInv, CallInv, UserInv, FollowsUser, StaysDown, UpMeansLinked,
         NoDialOverSocket, Linked
<1> QED BY <1>1, Invariance, PTL
-----------------------------------------------------------------------------
(* Refinement: what LinkContract sees of a step.                           *)

Conn == IF tcp = "closed" THEN "none"
        ELSE IF subscription = "none" THEN "open" ELSE "acked"
Told == isConnected /\ client = "live"

\* A step the contract does not see.
Unseen == Conn' = Conn /\ Told' = Told /\ Killed' = Killed

\* The ways a step may look to the contract are the contract's own.
LEMMA ContractStep ==
  \/ Unseen
  \/ ~Killed /\ Conn = "none" /\ Conn' = "open" /\ Told' = Told /\ Killed' = Killed
  \/ ~Killed /\ Conn = "open" /\ ~Told /\ Conn' = "acked" /\ Told' = Told /\ Killed' = Killed
  \/ ~Killed /\ Conn = "acked" /\ ~Told /\ Told' = TRUE /\ Conn' = Conn /\ Killed' = Killed
  \/ ~Killed /\ Conn # "none" /\ Conn' = "none" /\ Told' = FALSE /\ Killed' = Killed
  \/ ~Killed /\ Killed' = TRUE /\ Conn' = Conn /\ Told' = Told
  => [Contract!CNext]_(Contract!cvars)
BY DEF Unseen, Conn, Told, Contract!CNext, Contract!cvars, Contract!Open,
       Contract!Ack, Contract!Announce, Contract!GiveUp, Contract!End

\* The process is killed: End.
LEMMA KilledStep ==
  ASSUME ~Killed, Killed', Conn' = Conn, Told' = Told
  PROVE  [Contract!CNext]_(Contract!cvars)
<1>1. Killed' = TRUE
  BY Zenon DEF Killed
<1> QED BY <1>1, ContractStep, Zenon

\* A step of a call opens the connection, gives it up, or is not seen.
LEMMA LinkStepRefines ==
  ASSUME IInv, SdkStep
  PROVE  [Contract!CNext]_(Contract!cvars)
<1> USE DEF linkVars, ctxVars, mqttVars, callVars, wireVars, brokerVars, Goto, Return
<1>c. user' = user /\ LinkStep
  BY DEF SdkStep
<1>k. Die /\ pc \notin {"app", "killed"} => [Contract!CNext]_(Contract!cvars)
  <2> SUFFICES ASSUME Die, pc \notin {"app", "killed"}
               PROVE  [Contract!CNext]_(Contract!cvars)
    OBVIOUS
  <2>1. ~Killed /\ Killed' /\ Conn' = Conn /\ Told' = Told
    BY DEF Die, Killed, Conn, Told
  <2> QED BY <2>1, KilledStep
<1>t. pc \in {"connack", "yield"} => tcp # "closed"
  BY DEF IInv, CallInv
<1>1. CASE DialOk
  <2>1. ~Killed /\ Conn = "none" /\ Conn' = "open" /\ Killed' = Killed
    BY <1>1 DEF DialOk, Conn, IInv, CallInv, Killed
  <2>2. Told' = Told
    BY <1>1 DEF DialOk, Told
  <2> QED BY <2>1, <2>2, ContractStep
<1>2. CASE DialFail
  <2>1. Unseen
    BY <1>2, <1>c DEF DialFail, Unseen, Conn, Told, Killed
  <2> QED BY <2>1, ContractStep
<1>3. CASE Login
  <2>1. CASE SendKills /\ Die
    BY <1>3, <1>k, <2>1 DEF Login
  <2>2. CASE ~(SendKills /\ Die)
    <3>1. Unseen
      BY <1>3, <1>c, <2>2 DEF Login, SendOk, SendError, Unseen, Conn, Told, Killed
    <3> QED BY <3>1, ContractStep
  <2> QED BY <2>1, <2>2
<1>4. CASE ReceiveConnack
  <2>1. Unseen
    BY <1>4, <1>c DEF ReceiveConnack, Unseen, Conn, Told, Killed
  <2> QED BY <2>1, ContractStep
<1>5. CASE ConnackMissing
  <2>1. Unseen
    BY <1>5, <1>c, <1>t DEF ConnackMissing, ReadNothing, ReadError, Unseen, Conn, Told, Killed
  <2> QED BY <2>1, ContractStep
<1>6. CASE AutoSubscribe
  <2>1. CASE SendKills /\ Die
    BY <1>6, <1>k, <2>1 DEF AutoSubscribe
  <2>2. CASE ~(SendKills /\ Die)
    <3>1. /\ tcp' = "closed" <=> tcp = "closed"
          /\ pc = "autosub" /\ pc' = "app"
      BY <1>6, <2>2 DEF AutoSubscribe, SendOk, SendError
    <3>2. UNCHANGED <<isConnected, client, subscription>>
      BY <1>6, <2>2 DEF AutoSubscribe
    <3>3. Unseen
      BY <3>1, <3>2 DEF Unseen, Conn, Told, Killed
    <3> QED BY <3>3, ContractStep
  <2> QED BY <2>1, <2>2
<1>7. CASE ReceiveSuback
  <2>1. Unseen
    BY <1>7, <1>c DEF ReceiveSuback, Unseen, Conn, Told, Killed
  <2> QED BY <2>1, ContractStep
<1>8. CASE ReceivePingresp
  <2>1. Unseen
    BY <1>8, <1>c DEF ReceivePingresp, Unseen, Conn, Told, Killed
  <2> QED BY <2>1, ContractStep
<1>9. CASE ReceivePublish
  <2>1. CASE SendKills /\ Die
    BY <1>9, <1>k, <2>1 DEF ReceivePublish
  <2>2. CASE ~(SendKills /\ Die)
    <3>1. Unseen
      BY <1>9, <1>c, <2>2 DEF ReceivePublish, SendOk, SendError, Unseen, Conn, Told, Killed
    <3> QED BY <3>1, ContractStep
  <2> QED BY <2>1, <2>2
<1>10. CASE Idle
  <2>1. Unseen
    BY <1>10, <1>c DEF Idle, Unseen, Conn, Told, Killed
  <2> QED BY <2>1, ContractStep
<1>11. CASE Ping
  <2>1. CASE SendKills /\ Die
    BY <1>11, <1>k, <2>1 DEF Ping
  <2>2. CASE ~(SendKills /\ Die)
    <3>1. Unseen
      BY <1>11, <1>c, <2>2 DEF Ping, SendOk, Unseen, Conn, Told, Killed
    <3> QED BY <3>1, ContractStep
  <2> QED BY <2>1, <2>2
<1>12. CASE PingTimeout
  <2>1. Unseen
    BY <1>12, <1>c DEF PingTimeout, Unseen, Conn, Told, Killed
  <2> QED BY <2>1, ContractStep
<1>13. CASE ReceiveError
  <2>1. Unseen
    BY <1>13, <1>c, <1>t DEF ReceiveError, ReadError, Unseen, Conn, Told, Killed
  <2> QED BY <2>1, ContractStep
<1>14. CASE TimeLeft
  <2>1. Unseen
    BY <1>14, <1>c DEF TimeLeft, Unseen, Conn, Told, Killed
  <2> QED BY <2>1, ContractStep
<1>15. CASE TimeUp
  <2>1. Unseen
    BY <1>15, <1>c DEF TimeUp, Unseen, Conn, Told, Killed
  <2> QED BY <2>1, ContractStep
<1>16. CASE Hangup
  <2>1. CASE SendKills /\ Die
    BY <1>16, <1>k, <2>1 DEF Hangup
  <2>2. CASE ~(SendKills /\ Die)
    <3>1. Conn' = "none" /\ ~Killed /\ Killed' = Killed
      BY <1>16, <2>2 DEF Hangup, CloseSocket, Conn, Killed
    <3>2. op \in {"connect", "reconnect"} => ~isConnected
      BY DEF IInv, FlagInv
    <3>3. op \in Calls /\ op # "none"
      BY <1>16 DEF IInv, Shape, CallInv, Hangup
    <3>4. ASSUME op \in {"yield", "disconnect"} PROVE ~Told'
      <4>1. ~isConnected'
        BY <1>16, <2>2, <3>4, Zenon DEF Hangup, DisconnectedCb
      <4> QED BY <4>1 DEF Told
    <3>5. ASSUME op = "deinit" PROVE ~Told'
      BY <1>16, <2>2, <3>5 DEF Hangup, Told
    <3>6. ASSUME op \in {"connect", "reconnect"} PROVE ~Told'
      BY <1>16, <2>2, <3>2, <3>6 DEF Hangup, Told
    <3>7. ~Told'
      BY <3>3, <3>4, <3>5, <3>6 DEF Calls
    <3>8. Told => Conn # "none"
      BY DEF IInv, FlagInv, Told, Conn
    <3>9. CASE Conn = "none"
      BY <3>1, <3>7, <3>8, <3>9, ContractStep DEF Unseen, Told
    <3>10. CASE Conn # "none"
      BY <3>1, <3>7, <3>10, ContractStep DEF Told
    <3> QED BY <3>9, <3>10
  <2> QED BY <2>1, <2>2
<1> QED
  BY <1>c, <1>1, <1>2, <1>3, <1>4, <1>5, <1>6, <1>7, <1>8, <1>9, <1>10, <1>11, <1>12,
     <1>13, <1>14, <1>15, <1>16 DEF LinkStep

\* A call of the user: the loop tells it of the connection, a report may end
\* the process, and nothing else is seen before the call's first step.
LEMMA UserRefines ==
  ASSUME IInv, User
  PROVE  [Contract!CNext]_(Contract!cvars)
<1> USE DEF linkVars, ctxVars, mqttVars, callVars, wireVars, brokerVars
<1>1. CASE UserInit
  <2>1. ~Told /\ UNCHANGED <<tcp, subscription, pc>>
    BY <1>1 DEF UserInit, ApiInit, ApiInitFails, Told
  <2>2. ~isConnected'
    BY <1>1, Zenon DEF UserInit, ApiInit, ApiInitFails, CtxCleared
  <2>3. Unseen
    BY <2>1, <2>2 DEF Unseen, Conn, Told, Killed
  <2> QED BY <2>3, ContractStep
<1>2. CASE UserConnect \/ UserConnected \/ UserDisconnect \/ UserDeinit
  <2>1. /\ UNCHANGED <<isConnected, client, tcp, subscription>>
        /\ pc = "app" /\ pc' # "killed"
    BY <1>2 DEF UserConnect, ApiConnect, UserConnected, UserDisconnect, ApiDisconnect,
                UserDeinit, ApiDeinit
  <2>2. Unseen
    BY <2>1 DEF Unseen, Conn, Told, Killed
  <2> QED BY <2>2, ContractStep
<1>3. CASE UserLoop
  <2>1. ~Killed /\ Killed' = Killed /\ Conn' = Conn /\ client' = client /\ client = "live"
    BY <1>3 DEF UserLoop, ApiLoop, Conn, Killed
  <2>2. CASE state = "SUBSCRIBE_COMPLETE"
    <3>1. Conn = "acked"
      BY <2>1, <2>2 DEF IInv, FlagInv, Conn
    <3>2. isConnected'
      BY <1>3, <2>2, Zenon DEF UserLoop, ApiLoop
    <3>3. Told' = TRUE
      BY <2>1, <3>2, Zenon DEF Told
    <3>4. CASE Told
      BY <2>1, <3>3, <3>4, ContractStep DEF Unseen, Told
    <3>5. CASE ~Told
      BY <2>1, <3>1, <3>3, <3>5, ContractStep
    <3> QED BY <3>4, <3>5
  <2>3. CASE state # "SUBSCRIBE_COMPLETE"
    <3>1. Told' = Told
      BY <1>3, <2>3 DEF UserLoop, ApiLoop, Told
    <3> QED BY <2>1, <3>1, ContractStep DEF Unseen
  <2> QED BY <2>2, <2>3
<1>4. CASE UserReport
  <2>1. ~Killed /\ Conn' = Conn /\ Told' = Told
    BY <1>4 DEF UserReport, ApiReport, SendOk, SendError, SendKills, Die, Conn, Told, Killed
  <2>2. CASE Killed'
    BY <2>1, <2>2, KilledStep
  <2>3. CASE ~Killed'
    BY <2>1, <2>3, ContractStep DEF Unseen, Killed
  <2> QED BY <2>2, <2>3
<1> QED BY <1>1, <1>2, <1>3, <1>4 DEF User

\* The broker's answer to the subscribe is the contract's Ack; nothing else
\* that happens around the program is seen.
LEMMA EnvironmentRefines ==
  ASSUME IInv, EnvStep
  PROVE  [Contract!CNext]_(Contract!cvars)
<1> USE DEF linkVars, ctxVars, mqttVars, callVars, wireVars, brokerVars
<1>c. BrokerRead \/ BrokerPublish \/ Break \/ ResetAfterFin
  BY DEF EnvStep, Environment
<1>1. CASE BrokerRead
  <2>1. ~Killed /\ Killed' = Killed /\ tcp = "up" /\ tcp' = "up" /\ Told' = Told
    BY <1>1 DEF EnvStep, BrokerRead, Told, Killed
  <2>2. CASE subscription = "none"
    <3>1. ~Told /\ Conn = "open"
      BY <2>1, <2>2 DEF IInv, FlagInv, Told, Conn
    <3>2. Conn' \in {"open", "acked"}
      BY <2>1 DEF Conn
    <3> QED BY <2>1, <3>1, <3>2, ContractStep DEF Unseen
  <2>3. CASE subscription # "none"
    <3>1. subscription' # "none"
      BY <1>1, <2>3, LinkAssumption DEF BrokerRead
    <3> QED BY <2>1, <2>3, <3>1, ContractStep DEF Unseen, Conn
  <2> QED BY <2>2, <2>3
<1>2. CASE BrokerPublish \/ Break \/ ResetAfterFin
  <2>1. Unseen
    BY <1>2, LinkAssumption
       DEF BrokerPublish, Break, ResetAfterFin, Unseen, Conn, Told, Killed
  <2> QED BY <2>1, ContractStep
<1> QED BY <1>c, <1>1, <1>2

\* tuyalink_core.c keeps LinkContract for any program that loops only between
\* a connect and the next disconnect: it is told of a connection only when the
\* broker has answered, and of its loss as it is given up, whoever gives it up.
THEOREM Refinement == Spec => ImplementsContract
<1>1. Init => Contract!CInit
  BY DEF Init, LinkInit, Contract!CInit, Killed
<1>2. IInv /\ [Next]_avars => [Contract!CNext]_(Contract!cvars)
  <2>1. UNCHANGED avars => UNCHANGED Contract!cvars
    BY DEF avars, linkVars, ctxVars, mqttVars, callVars, wireVars, brokerVars,
           Contract!cvars, Killed
  <2> QED BY <2>1, LinkStepRefines, UserRefines, EnvironmentRefines DEF Next, Ended
<1> QED
  BY <1>1, <1>2, Invariance, PTL DEF Spec, ImplementsContract, Contract!CSpec
=============================================================================
