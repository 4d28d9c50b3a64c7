------------------------------- MODULE TuyaApp -------------------------------
(***************************************************************************)
(* Any other program as the user of the link: it may also disconnect and   *)
(* connect again, deinitialise and start over with the same context, and   *)
(* report whenever it is connected.  It keeps to one discipline: it calls  *)
(* tuya_mqtt_loop only between a tuya_mqtt_connect that succeeded and the  *)
(* next tuya_mqtt_disconnect.                                              *)
(***************************************************************************)
EXTENDS TuyaLink

VARIABLE user   \* "down", "connecting" or "up": what the program asked for

avars == <<linkVars, user>>

Killed == pc = "killed"

Init == LinkInit /\ user = "down"

TypeOK == LinkTypeOK /\ user \in {"down", "connecting", "up"}

-----------------------------------------------------------------------------
\* Before the first use and after each deinit.
UserInit ==
  /\ client # "live"
  /\ ApiInit \/ ApiInitFails
  /\ UNCHANGED user

UserConnect == user = "down" /\ ApiConnect /\ user' = "connecting"

UserConnected ==
  /\ user = "connecting" /\ pc = "app"
  /\ user' = IF rc = "ok" THEN "up" ELSE "down"
  /\ UNCHANGED linkVars

UserLoop == user = "up" /\ ApiLoop /\ UNCHANGED user

UserReport == isConnected /\ ApiReport /\ UNCHANGED user

UserDisconnect == user = "up" /\ ApiDisconnect /\ user' = "down"

UserDeinit == user # "connecting" /\ ApiDeinit /\ user' = "down"

User == \/ UserInit \/ UserConnect \/ UserConnected \/ UserLoop
        \/ UserReport \/ UserDisconnect \/ UserDeinit

SdkStep == LinkStep /\ UNCHANGED user
EnvStep == ~Killed /\ Environment /\ UNCHANGED user
Ended == Killed /\ UNCHANGED avars

Next == User \/ SdkStep \/ EnvStep \/ Ended

(***************************************************************************)
(* Fairness.  The program keeps calling loop while it wants the link; the  *)
(* rest is as in TuyaDaemon.                                               *)
(***************************************************************************)
Fairness ==
  /\ WF_avars(UserConnected)
  /\ SF_avars(UserLoop)
  /\ WF_avars(SdkStep)
  /\ WF_avars(EnvStep /\ BrokerRead)
  /\ SF_avars(SdkStep /\ TimeUp)
  /\ SF_avars(SdkStep /\ Ping)
  /\ SF_avars(SdkStep /\ tcp # "up" /\ PingTimeout)

Spec == Init /\ [][Next]_avars /\ Fairness

-----------------------------------------------------------------------------
(* Properties.                                                             *)

\* A program that disconnected, or never connected, has no socket, whatever
\* it did before and however its connections ended.
StaysDown == user = "down" /\ pc = "app" => tcp = "closed"

\* While the program wants the link, the state machine knows whether there is
\* one: a state that means "linked" comes with a socket, even in a second
\* life of the context, and without a socket the next loop dials.
UpMeansLinked ==
  user = "up" /\ pc = "app" =>
    IF tcp = "closed" THEN state = "CONNECTING"
    ELSE state \in {"SUBSCRIBING", "SUBSCRIBE_COMPLETE", "YIELD"}

\* No call dials over an open socket.
NoDialOverSocket == pc = "dial" => tcp = "closed"

\* The link follows what the program asked for.
FollowsUser == StaysDown /\ UpMeansLinked /\ NoDialOverSocket

\* The promise of the link holds for this user as well: told connected only
\* on an answered connection, and of its loss as it is given up - also when
\* it is the user who gives it up.
Contract == INSTANCE LinkContract WITH
  conn <- IF tcp = "closed" THEN "none"
          ELSE IF subscription = "none" THEN "open" ELSE "acked",
  told <- isConnected /\ client = "live",
  over <- Killed

ImplementsContract == Contract!CSpec

\* As long as the program wants the link and loops, the link comes back,
\* whichever manual disconnects and restarts came before.
ComesBack == []<>(isConnected \/ user # "up" \/ Killed)
=============================================================================
